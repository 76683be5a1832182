---------------------------- MODULE H2ConnProofs ----------------------------
(***************************************************************************)
(* Proofs about H2Conn, for any number of streams, frames and bytes, any   *)
(* windows and both back ends.                                             *)
(*                                                                         *)
(* The events between nghttp2 and conn::read are the heart of it: Todo is  *)
(* the one list that holds them, whoever owns it, and EventInv says for    *)
(* each stream what may be in it, in which order, and how it fits what the *)
(* request of the stream already has.                                      *)
(***************************************************************************)
EXTENDS H2Conn, SequenceTheorems, FiniteSetTheorems, TLAPS

-----------------------------------------------------------------------------
(* The inductive invariant.                                                *)

\* The events that are not handled yet: in _events, or in the hands of conn::read.
Todo == IF phase = "events" THEN evs ELSE events

\* What the phase says about the other variables.
PhaseInv ==
  /\ phase = "events" => events = <<>>
  /\ phase # "events" => evs = <<>>
  /\ phase \in {"idle", "recv"} => reqs = <<>>
  /\ phase \in {"data", "trailers", "sent"} => reqs # <<>>
  /\ phase \in {"process", "trailers"} => queue = <<>>
  /\ phase = "data" => queue \in {<<>>, <<Event("headers", Head(reqs).id, 0)>>}
  /\ phase = "sent" => queue \in {<<>>, <<Event("trailers", Head(reqs).id, 0)>>}
  /\ phase \in {"idle", "recv", "events", "read"} =>
       \A i \in 1..Len(queue) : queue[i].type = "rst"

Content(e, s) == e.id = s /\ e.type \in {"header", "data"}
Is(e, type, s) == e.id = s /\ e.type = type

\* The number of the frame that an event reports, overwritten or not.
Rank(e) == IF e.n < 0 THEN -e.n ELSE e.n

\* The events of a stream: contents by number, then its end, then its close.
Ordered(q, s) ==
  \A i, j \in 1..Len(q) : i < j /\ q[i].id = s /\ q[j].id = s =>
    /\ q[i].type # "close"
    /\ q[i].type = "end" => q[j].type = "close"
    /\ Content(q[i], s) /\ Content(q[j], s) => Rank(q[i]) < Rank(q[j])

\* The contents of s in q continue a request that has got frames, without gaps.
Continues(q, s, got) ==
  \A j \in 1..Len(q) : Content(q[j], s) =>
    \/ Rank(q[j]) = got + 1
    \/ \E i \in 1..(j - 1) : Content(q[i], s) /\ Rank(q[i]) = Rank(q[j]) - 1

\* The contents of s in q are of frames up to n; only uv overwrites payloads.
Numbered(q, s, n, b) ==
  \A j \in 1..Len(q) : Content(q[j], s) =>
    /\ Rank(q[j]) \in 1..n
    /\ q[j].n < 0 => b = "uv"

\* Together with what the request has got they make up all n frames of s.
AllThere(q, s, got, n) ==
  got = n \/ \E j \in 1..Len(q) : Content(q[j], s) /\ Rank(q[j]) = n

Has(q, type, s) == \E i \in 1..Len(q) : Is(q[i], type, s)
Mentions(q, s) == \E i \in 1..Len(q) : q[i].id = s

\* What a request has got: nothing, if there is none.
Got(req) == IF req = NoRequest THEN <<>> ELSE req

\* content holds the frames 1, 2, ... in this order.
Exact(content, b) ==
  \A k \in 1..Len(content) : content[k] = k \/ (b = "uv" /\ content[k] = Stale(k))

\* The state of stream s in nghttp2, the events about it, its entry in _streams
\* and the number of its frames.
StateInv(q, s, state, req, n) ==
  /\ state = "idle" => n = 0 /\ req = NoRequest /\ ~Mentions(q, s)
  /\ state = "open" => ~Has(q, "end", s)
  /\ state \in {"open", "half", "closing"} => ~Has(q, "close", s)
  /\ state = "closed" /\ (req # NoRequest \/ Mentions(q, s)) => Has(q, "close", s)
  /\ state \in {"idle", "open"} \/ Has(q, "end", s) => AllThere(q, s, Len(Got(req)), n)

EventInv(q, s, state, req, n, b) ==
  /\ Ordered(q, s)
  /\ Continues(q, s, Len(Got(req)))
  /\ Numbered(q, s, n, b)
  /\ StateInv(q, s, state, req, n)
  /\ Exact(Got(req), b)

StreamInv(s) == EventInv(Todo, s, st[s], streams[s], count[s], backend)

InReqs(s) == \E i \in 1..Len(reqs) : reqs[i].id = s

\* The end of s is among the events that are not handled yet.
Ended(s) == Has(Todo, "end", s)

\* The requests on their way to process(): one for a stream, which has ended.
ReqsInv ==
  /\ RequestExact
  /\ \A i, j \in 1..Len(reqs) : i # j => reqs[i].id # reqs[j].id
  /\ \A i \in 1..Len(reqs) : /\ st[reqs[i].id] \in {"half", "closing", "closed"}
                              /\ ~Ended(reqs[i].id)

\* Which of them, and which streams, have an answer.
BodyInv ==
  /\ \A i \in 1..Len(reqs) :
       i > 1 \/ phase \in {"events", "read", "process"} => body[reqs[i].id] = NoBody
  /\ phase \in {"data", "trailers", "sent"} => body[Head(reqs).id] # NoBody
  /\ \A s \in Streams :
       /\ Ended(s) \/ st[s] \in {"idle", "open"} => body[s] = NoBody
       /\ st[s] = "half" => Ended(s) \/ InReqs(s) \/ body[s] # NoBody

\* Bytes m + 1 to n of the response to s.
ResponseBytes(s, m, n) == [i \in 1..(n - m) |-> Event("data", s, m + i)]

\* Headers and the first m bytes of the response to s.
Begun(s, m) == <<Event("headers", s, 0)>> \o ResponseBytes(s, 0, m)

\* Nothing has been sent on s, or a part of its response; nothing follows trailers.
WireInv(s) ==
  \/ wire[s] = <<>>
  \/ body[s] \in Nat /\ \E m \in 0..body[s] :
       \/ wire[s] = Begun(s, m)
       \/ /\ wire[s] = Append(Begun(s, m), Event("trailers", s, 0))
          /\ st[s] = "closed"

\* The response that conn::write is sending owns _data, and nobody else reads it.
OwnerInv ==
  /\ \A s \in Streams : body[s] = NoBody => wire[s] = <<>>
  /\ ~goaway =>
       /\ phase \in {"idle", "recv", "events", "read", "process"} => items = {}
       /\ phase \in {"data", "trailers", "sent"} => items \subseteq {Head(reqs).id}
       /\ phase \in {"data", "trailers"} => LET s == Head(reqs).id IN
            /\ st[s] = "half"
            /\ queue # <<>> => wire[s] = <<>> /\ s \in items /\ data = ResponseBytes(s, 0, body[s])
            /\ queue = <<>> => \E m \in 0..body[s] :
                 /\ wire[s] = Begun(s, m)
                 /\ data = ResponseBytes(s, m, body[s])
                 /\ s \in items \/ m = body[s]
       /\ phase = "trailers" => LET s == Head(reqs).id IN
            s \notin items \/ window[s] = 0 \/ credit = 0
       /\ phase = "sent" => LET s == Head(reqs).id IN
            /\ queue # <<>> => st[s] = "half" /\ \E m \in 0..body[s] : wire[s] = Begun(s, m)
            /\ queue = <<>> => st[s] # "half" /\ items = {}

\* nghttp2 will reset the streams that it has rejected; an answered stream is
\* half-closed only while conn::write is at it.
ClosingInv ==
  ~goaway => \A s \in Streams :
    /\ st[s] = "closing" => Has(queue, "rst", s)
    /\ st[s] = "half" /\ body[s] # NoBody =>
         phase \in {"data", "trailers", "sent"} \cup Down /\ s = Head(reqs).id

\* The request of s is in _streams after k of the events in q have been handled.
Held(q, k, s) ==
  /\ streams[s] # NoRequest \/ \E i \in 1..k : Content(q[i], s)
  /\ \A i \in 1..k : q[i].id = s => Content(q[i], s)

BoundInv ==
  /\ Cardinality(Live) <= MaxConcurrent
  /\ \A k \in 0..Len(Todo) : Cardinality({s \in Streams : Held(Todo, k, s)}) <= MaxConcurrent
-----------------------------------------------------------------------------
(* Types and phases.                                                       *)

LEMMA MinimumOfTwo ==
  ASSUME NEW a \in Nat, NEW b \in Nat
  PROVE  /\ Minimum({a, b}) \in Nat
         /\ Minimum({a, b}) <= a /\ Minimum({a, b}) <= b
         /\ Minimum({a, b}) \in {a, b}
<1>1. \E m \in {a, b} : \A n \in {a, b} : m <= n
  <2>1. a <= b \/ b <= a
    OBVIOUS
  <2> QED
    BY <2>1
<1> QED
  BY <1>1 DEF Minimum

\* What read_cb copies fits the windows and _data.
LEMMA ReadLengthFits ==
  ASSUME H2TypeOK, NEW s \in Streams
  PROVE  LET n == ReadLength(Minimum({window[s], credit}))
         IN  n \in 0..Len(data) /\ n <= window[s] /\ n <= credit
<1>1. window[s] \in Nat /\ credit \in Nat /\ Len(data) \in Nat
  BY DEF H2TypeOK
<1>2. PICK m \in Nat : m = Minimum({window[s], credit}) /\ m <= window[s] /\ m <= credit
  BY <1>1, MinimumOfTwo
<1> QED
  BY <1>1, <1>2 DEF ReadLength

LEMMA EventInSet ==
  ASSUME NEW type \in EventTypes, NEW s \in Streams, NEW n \in Int
  PROVE  Event(type, s, n) \in EventSet
  BY DEF Event, EventSet

LEMMA EventFields == \A e \in EventSet : e.type \in EventTypes /\ e.id \in Streams /\ e.n \in Int
  BY DEF EventSet

LEMMA EmitType ==
  ASSUME H2TypeOK, NEW s \in Streams, NEW type \in {"header", "data"}, NEW end \in BOOLEAN,
         Emit(s, type, end)
  PROVE  events' \in Seq(EventSet)
<1>1. Event(type, s, count[s] + 1) \in EventSet /\ Event("end", s, 0) \in EventSet
  BY EventInSet DEF H2TypeOK, EventTypes
<1> QED
  BY <1>1 DEF H2TypeOK, Emit

Requests == [id : Streams, content : Seq(Int)]

\* The first request is that of some stream.
LEMMA HeadRequest ==
  ASSUME H2TypeOK, reqs # <<>>
  PROVE  /\ Head(reqs) = reqs[1] /\ Len(reqs) \in Nat \ {0}
         /\ Head(reqs).id \in Streams
<1>1. reqs \in Seq(Requests)
  BY DEF H2TypeOK, Requests
<1>2. \A r \in Requests : r.id \in Streams
  BY DEF Requests
<1> QED
  BY <1>1, <1>2

\* Cutting a sequence in two.
LEMMA CutSeq ==
  ASSUME NEW S, NEW q \in Seq(S), NEW n \in 0..Len(q)
  PROVE  /\ SubSeq(q, 1, n) \in Seq(S) /\ Len(SubSeq(q, 1, n)) = n
         /\ \A i \in 1..n : SubSeq(q, 1, n)[i] = q[i]
         /\ SubSeq(q, n + 1, Len(q)) \in Seq(S) /\ Len(SubSeq(q, n + 1, Len(q))) = Len(q) - n
         /\ \A i \in 1..(Len(q) - n) : SubSeq(q, n + 1, Len(q))[i] = q[n + i]
<1>1. \A i \in 1..Len(q) : q[i] \in S
  BY ElementOfSeq
<1>2. Len(q) \in Nat
  OBVIOUS
<1>3. /\ SubSeq(q, 1, n) \in Seq(S)
      /\ Len(SubSeq(q, 1, n)) = IF 1 <= n THEN n - 1 + 1 ELSE 0
      /\ \A i \in 1..(n - 1 + 1) : SubSeq(q, 1, n)[i] = q[1 + i - 1]
  <2>1. \A i \in 1..n : q[i] \in S
    BY <1>1, <1>2
  <2> QED
    BY <2>1, <1>2, SubSeqProperties
<1>4. /\ SubSeq(q, n + 1, Len(q)) \in Seq(S)
      /\ Len(SubSeq(q, n + 1, Len(q))) = IF n + 1 <= Len(q) THEN Len(q) - (n + 1) + 1 ELSE 0
      /\ \A i \in 1..(Len(q) - (n + 1) + 1) : SubSeq(q, n + 1, Len(q))[i] = q[n + 1 + i - 1]
  <2>1. \A i \in (n + 1)..Len(q) : q[i] \in S
    BY <1>1, <1>2
  <2> QED
    BY <2>1, <1>2, SubSeqProperties
<1> QED
  BY <1>2, <1>3, <1>4

LEMMA RecvTypes == H2TypeOK /\ RecvNext => H2TypeOK'
<1> SUFFICES ASSUME H2TypeOK, RecvNext PROVE H2TypeOK'
  OBVIOUS
<1>t1. st \in [Streams -> {"idle", "open", "half", "closing", "closed"}] /\ items \subseteq Streams
  BY DEF H2TypeOK
<1>t2. queue \in Seq(EventSet) /\ events \in Seq(EventSet) /\ evs \in Seq(EventSet)
  BY DEF H2TypeOK
<1>t3. window \in [Streams -> Nat] /\ credit \in Nat /\ count \in [Streams -> Nat]
  BY DEF H2TypeOK
<1>t4. streams \in [Streams -> Seq(Int)] /\ reqs \in Seq([id : Streams, content : Seq(Int)])
  BY DEF H2TypeOK
<1>t5. data \in Seq(EventSet) /\ wire \in [Streams -> Seq(EventSet)]
  BY DEF H2TypeOK
<1>t6. body \in [Streams -> Nat \cup {NoBody}]
  BY DEF H2TypeOK
<1> USE DEF connState
<1>1. CASE ReadBegin
  BY <1>1 DEF H2TypeOK, ReadBegin
<1>2. CASE ConnLost
  BY <1>2 DEF H2TypeOK, ConnLost, Down
<1>3. CASE FrameWindow
  <2>1. \/ credit' = credit /\ \E s \in Streams : window' = [window EXCEPT ![s] = @ + 1]
        \/ credit' = credit + 1 /\ window' = window
    BY <1>3 DEF FrameWindow, Live
  <2>2. window' \in [Streams -> Nat] /\ credit' \in Nat
    BY <2>1, <1>t3
  <2> QED
    BY <1>3, <2>2 DEF H2TypeOK, FrameWindow
<1>4. CASE FrameFatal
  BY <1>4 DEF H2TypeOK, FrameFatal
<1>5. CASE ReadEnd
  BY <1>5 DEF H2TypeOK, ReadEnd
<1>6. CASE ReadFails
  <2>1. events' \in Seq(EventSet)
    <3>1. events \in Seq(EventSet)
      BY <1>t1, <1>t2, <1>t3, <1>t4, <1>t5, <1>t6
    <3>2. \A e \in EventSet : [e EXCEPT !.n = Stale(@)] \in EventSet
      BY DEF EventSet, Stale
    <3>3. \A i \in 1..Len(events) :
             (IF events[i].type = "data" THEN [events[i] EXCEPT !.n = Stale(@)] ELSE events[i]) \in EventSet
      BY <3>1, <3>2
    <3> QED
      BY <1>6, <3>1, <3>3 DEF ReadFails
  <2> QED
    BY <1>6, <2>1 DEF H2TypeOK, ReadFails, Down
<1>7. ASSUME NEW s \in Streams, NEW type \in {"header", "data"}, NEW end \in BOOLEAN, FrameRecv(s, type, end)
      PROVE  H2TypeOK'
  BY <1>7, EmitType DEF H2TypeOK, FrameRecv
<1>8. ASSUME NEW s \in Streams, FrameEnd(s)
      PROVE  H2TypeOK'
  BY <1>8, EventInSet DEF H2TypeOK, FrameEnd, EventTypes
<1>9. ASSUME NEW s \in Streams, FrameMalformed(s)
      PROVE  H2TypeOK'
  <2>1. Event("rst", s, 0) \in EventSet
    BY EventInSet DEF EventTypes
  <2>2. queue' \in Seq(EventSet)
    BY <1>9, <2>1, <1>t1, <1>t2, <1>t3, <1>t4, <1>t5, <1>t6 DEF FrameMalformed
  <2>3. events' \in Seq(EventSet)
    <3>1. CASE UNCHANGED events
      BY <3>1 DEF H2TypeOK
    <3>2. CASE \E type \in {"header", "data"} : Emit(s, type, FALSE)
      BY <3>2, EmitType
    <3> QED
      BY <1>9, <3>1, <3>2 DEF FrameMalformed
  <2>4. count' \in [Streams -> Nat]
    <3>1. count' = count \/ count' = [count EXCEPT ![s] = @ + 1]
      BY <1>9 DEF FrameMalformed
    <3> QED
      BY <3>1, <1>t3
  <2> QED
    BY <1>9, <2>2, <2>3, <2>4 DEF H2TypeOK, FrameMalformed
<1>10. ASSUME NEW s \in Streams, FrameRefused(s)
       PROVE  H2TypeOK'
  BY <1>10 DEF H2TypeOK, FrameRefused
<1>11. ASSUME NEW s \in Streams, FrameRst(s)
       PROVE  H2TypeOK'
  BY <1>11, EventInSet DEF H2TypeOK, FrameRst, EventTypes
<1> QED
  BY <1>1, <1>2, <1>3, <1>4, <1>5, <1>6, <1>7, <1>8, <1>9, <1>10, <1>11 DEF RecvNext

LEMMA ConnTypes == H2TypeOK /\ PhaseInv /\ H2Next /\ ~RecvNext => H2TypeOK'
<1> SUFFICES ASSUME H2TypeOK, PhaseInv, H2Next, ~RecvNext PROVE H2TypeOK'
  OBVIOUS
<1>t1. st \in [Streams -> {"idle", "open", "half", "closing", "closed"}] /\ items \subseteq Streams
  BY DEF H2TypeOK
<1>t2. queue \in Seq(EventSet) /\ events \in Seq(EventSet) /\ evs \in Seq(EventSet)
  BY DEF H2TypeOK
<1>t3. window \in [Streams -> Nat] /\ credit \in Nat /\ count \in [Streams -> Nat]
  BY DEF H2TypeOK
<1>t4. streams \in [Streams -> Seq(Int)] /\ reqs \in Seq([id : Streams, content : Seq(Int)])
  BY DEF H2TypeOK
<1>t5. data \in Seq(EventSet) /\ wire \in [Streams -> Seq(EventSet)]
  BY DEF H2TypeOK
<1>t6. body \in [Streams -> Nat \cup {NoBody}]
  BY DEF H2TypeOK
<1> USE DEF sessionState
<1>1. CASE HandleEvent
  <2>1. Head(evs) \in EventSet /\ Tail(evs) \in Seq(EventSet)
    BY <1>1, <1>t1, <1>t2, <1>t3, <1>t4, <1>t5, <1>t6 DEF HandleEvent
  <2>2. PICK e \in EventSet : e = Head(evs)
    BY <2>1
  <2>3. e.id \in Streams /\ e.n \in Int
    BY DEF EventSet
  <2>4. Emplaced(e.id) \in Seq(Int) /\ NoRequest \in Seq(Int)
    BY <2>3, <1>t1, <1>t2, <1>t3, <1>t4, <1>t5, <1>t6 DEF Emplaced, NoRequest
  <2>5. streams' \in [Streams -> Seq(Int)]
    <3>1. \/ streams' = [streams EXCEPT ![e.id] = NoRequest]
          \/ streams' = [streams EXCEPT ![e.id] = Append(Emplaced(e.id), e.n)]
      BY <1>1, <2>2 DEF HandleEvent, HandleClose, HandleContent, HandleEnd
    <3>2. Append(Emplaced(e.id), e.n) \in Seq(Int)
      BY <2>3, <2>4
    <3> QED
      BY <3>1, <3>2, <2>4, <1>t4
  <2>6. reqs' \in Seq([id : Streams, content : Seq(Int)])
    <3>1. [id |-> e.id, content |-> Emplaced(e.id)] \in [id : Streams, content : Seq(Int)]
      BY <2>3, <2>4
    <3>2. reqs \in Seq([id : Streams, content : Seq(Int)])
      BY <1>t4
    <3>3. <<[id |-> e.id, content |-> Emplaced(e.id)]>> \o reqs \in Seq([id : Streams, content : Seq(Int)])
      BY <3>1, <3>2
    <3> QED
      BY <1>1, <2>2, <3>1, <3>2, <3>3 DEF HandleEvent, HandleClose, HandleContent, HandleEnd
  <2> QED
    BY <1>1, <2>1, <2>5, <2>6 DEF H2TypeOK, HandleEvent
<1>2. CASE EventsEnd
  BY <1>2 DEF H2TypeOK, EventsEnd, Buffering
<1>3. CASE SendQueued
  <2>1. Head(queue) \in EventSet /\ Tail(queue) \in Seq(EventSet)
    BY <1>3, <1>t1, <1>t2, <1>t3, <1>t4, <1>t5, <1>t6 DEF SendQueued
  <2>2. PICK f \in EventSet : f = Head(queue)
    BY <2>1
  <2>3. f.id \in Streams
    BY DEF EventSet
  <2>c. Event("close", f.id, 0) \in EventSet
    BY <2>3, EventInSet DEF EventTypes
  <2>4. wire' \in [Streams -> Seq(EventSet)]
    <3>1. wire' = wire \/ wire' = [wire EXCEPT ![f.id] = Append(@, f)]
      BY <1>3, <2>2 DEF SendQueued
    <3>2. Append(wire[f.id], f) \in Seq(EventSet)
      BY <2>3, <1>t5
    <3> QED
      BY <3>1, <3>2, <1>t5
  <2>5. st' \in [Streams -> {"idle", "open", "half", "closing", "closed"}]
    <3>1. st' = st \/ st' = [st EXCEPT ![f.id] = "closed"]
      BY <1>3, <2>2 DEF SendQueued, Close
    <3> QED
      BY <3>1, <2>3, <1>t1
  <2>6. events' \in Seq(EventSet) /\ items' \subseteq Streams
    <3>1. CASE UNCHANGED <<items, events>>
      BY <3>1, <1>t1, <1>t2
    <3>2. CASE Close(f.id)
      BY <3>2, <2>c, <1>t1, <1>t2 DEF Close
    <3> QED
      BY <1>3, <2>2, <3>1, <3>2 DEF SendQueued
  <2> QED
    BY <1>3, <2>1, <2>4, <2>5, <2>6 DEF H2TypeOK, SendQueued
<1>4. ASSUME NEW s \in Streams, SendData(s)
      PROVE  H2TypeOK'
  <2>1. CASE goaway
    BY <1>4, <2>1 DEF H2TypeOK, SendData
  <2>2. CASE ~goaway
    <3>1. PICK n \in 0..Len(data) : /\ n = ReadLength(Minimum({window[s], credit}))
                                    /\ n <= window[s] /\ n <= credit
      BY ReadLengthFits
    <3>2. /\ wire' = [wire EXCEPT ![s] = @ \o SubSeq(data, 1, n)]
          /\ items' \subseteq items
          /\ data' = SubSeq(data, n + 1, Len(data))
          /\ window' = [window EXCEPT ![s] = @ - n]
          /\ credit' = credit - n
      BY <1>4, <2>2, <3>1 DEF SendData
    <3>3. window' \in [Streams -> Nat] /\ credit' \in Nat
      BY <3>1, <3>2, <1>t3
    <3>4. wire' \in [Streams -> Seq(EventSet)] /\ data' \in Seq(EventSet)
      <4>1. SubSeq(data, 1, n) \in Seq(EventSet) /\ SubSeq(data, n + 1, Len(data)) \in Seq(EventSet)
        BY <3>1, <1>t5, CutSeq
      <4> QED
        BY <3>2, <4>1, <1>t1, <1>t2, <1>t3, <1>t4, <1>t5, <1>t6
    <3> QED
      BY <1>4, <3>2, <3>3, <3>4 DEF H2TypeOK, SendData
  <2> QED
    BY <2>1, <2>2
<1>5. CASE WriteFails
  BY <1>5 DEF H2TypeOK, WriteFails, Down
<1>6. CASE BufferEnd
  <2>1. reqs' \in Seq([id : Streams, content : Seq(Int)])
    BY <1>6, <1>t1, <1>t2, <1>t3, <1>t4, <1>t5, <1>t6 DEF PhaseInv, BufferEnd
  <2> QED
    BY <1>6, <2>1 DEF H2TypeOK, BufferEnd
<1>7. ASSUME NEW n \in 0..MaxBody, Write(n)
      PROVE  H2TypeOK'
  <2>1. PICK s \in Streams : s = Head(reqs).id
    BY <1>7, HeadRequest DEF Write
  <2>2. n \in Nat /\ \A i \in 1..n : Event("data", s, i) \in EventSet
    BY EventInSet, H2Assumption DEF EventTypes
  <2>3. data' \in Seq(EventSet)
    BY <1>7, <2>1, <2>2 DEF Write, SubmitData
  <2>4. queue' \in Seq(EventSet)
    BY <1>7, <2>1, EventInSet, <1>t1, <1>t2, <1>t3, <1>t4, <1>t5, <1>t6 DEF Write, SubmitHeaders, EventTypes
  <2>5. body' \in [Streams -> Nat \cup {NoBody}]
    BY <1>7, <2>1, <2>2, <1>t1, <1>t2, <1>t3, <1>t4, <1>t5, <1>t6 DEF Write
  <2>6. items' \subseteq Streams /\ phase' \in {"data", "terminated", "thrown"}
    BY <1>7, <2>1, <1>t1, <1>t2, <1>t3, <1>t4, <1>t5, <1>t6 DEF Write, SubmitData, Thrown
  <2> QED
    BY <1>7, <2>3, <2>4, <2>5, <2>6 DEF H2TypeOK, Write, Buffering, Down
<1>8. CASE WriteTrailers
  <2>1. PICK s \in Streams : s = Head(reqs).id
    BY <1>8, HeadRequest DEF PhaseInv, WriteTrailers
  <2>2. queue' \in Seq(EventSet)
    BY <1>8, <2>1, EventInSet, <1>t1, <1>t2, <1>t3, <1>t4, <1>t5, <1>t6 DEF WriteTrailers, SubmitTrailers, EventTypes
  <2> QED
    BY <1>8, <2>2 DEF H2TypeOK, WriteTrailers, Buffering
<1>9. CASE ProcessEnd
  BY <1>9 DEF H2TypeOK, ProcessEnd
<1> QED
  BY <1>1, <1>2, <1>3, <1>4, <1>5, <1>6, <1>7, <1>8, <1>9 DEF H2Next

LEMMA InitTypes == H2Init => H2TypeOK /\ PhaseInv
<1> SUFFICES ASSUME H2Init PROVE H2TypeOK /\ PhaseInv
  OBVIOUS
<1>1. PhaseInv
  BY DEF H2Init, PhaseInv
<1>2. streams \in [Streams -> Seq(Int)] /\ wire \in [Streams -> Seq(EventSet)]
  BY DEF H2Init, NoRequest
<1>3. window \in [Streams -> Nat] /\ credit \in Nat /\ count \in [Streams -> Nat]
  BY H2Assumption DEF H2Init
<1>4. body \in [Streams -> Nat \cup {NoBody}] /\ st \in [Streams -> {"idle", "open", "half", "closing", "closed"}]
  BY DEF H2Init
<1>5. /\ queue \in Seq(EventSet) /\ events \in Seq(EventSet) /\ evs \in Seq(EventSet)
      /\ reqs \in Seq([id : Streams, content : Seq(Int)]) /\ data \in Seq(EventSet)
  BY DEF H2Init
<1>6. /\ backend \in {"uv", "asio"} /\ goaway \in BOOLEAN /\ items \subseteq Streams
      /\ phase \in {"idle", "recv", "events", "process", "trailers"} \cup Buffering \cup Down
  BY DEF H2Init
<1> QED
  BY <1>1, <1>2, <1>3, <1>4, <1>5, <1>6 DEF H2TypeOK

LEMMA RecvPhases == H2TypeOK /\ PhaseInv /\ RecvNext => PhaseInv'
<1> SUFFICES ASSUME H2TypeOK, PhaseInv, RecvNext PROVE PhaseInv'
  OBVIOUS
<1> USE DEF PhaseInv, connState
<1>1. CASE ReadBegin
  BY <1>1 DEF ReadBegin
<1>2. CASE ConnLost
  BY <1>2 DEF ConnLost
<1>3. CASE FrameWindow
  BY <1>3 DEF FrameWindow
<1>4. CASE FrameFatal
  BY <1>4 DEF FrameFatal
<1>5. CASE ReadEnd
  BY <1>5 DEF ReadEnd
<1>6. CASE ReadFails
  BY <1>6 DEF ReadFails
<1>7. ASSUME NEW s \in Streams, NEW type \in {"header", "data"}, NEW end \in BOOLEAN, FrameRecv(s, type, end)
      PROVE  PhaseInv'
  BY <1>7 DEF FrameRecv
<1>8. ASSUME NEW s \in Streams, FrameEnd(s)
      PROVE  PhaseInv'
  BY <1>8 DEF FrameEnd
<1>9. ASSUME NEW s \in Streams, FrameMalformed(s)
      PROVE  PhaseInv'
  <2>1. queue \in Seq(EventSet) /\ Event("rst", s, 0).type = "rst"
    BY DEF H2TypeOK, Event
  <2> QED
    BY <1>9, <2>1 DEF FrameMalformed
<1>10. ASSUME NEW s \in Streams, FrameRefused(s)
       PROVE  PhaseInv'
  BY <1>10 DEF FrameRefused
<1>11. ASSUME NEW s \in Streams, FrameRst(s)
       PROVE  PhaseInv'
  BY <1>11 DEF FrameRst
<1> QED
  BY <1>1, <1>2, <1>3, <1>4, <1>5, <1>6, <1>7, <1>8, <1>9, <1>10, <1>11 DEF RecvNext

LEMMA ConnPhases == H2TypeOK /\ PhaseInv /\ H2Next /\ ~RecvNext => PhaseInv'
<1> SUFFICES ASSUME H2TypeOK, PhaseInv, H2Next, ~RecvNext PROVE PhaseInv'
  OBVIOUS
<1> USE DEF PhaseInv, sessionState
<1>1. CASE HandleEvent
  BY <1>1 DEF HandleEvent
<1>2. CASE EventsEnd
  BY <1>2 DEF EventsEnd
<1>3. CASE SendQueued
  <2>1. queue \in Seq(EventSet)
    BY DEF H2TypeOK
  <2>2. queue' = Tail(queue) /\ UNCHANGED <<phase, evs, reqs>> /\ phase \in Buffering /\ queue # <<>>
    BY <1>3 DEF SendQueued
  <2>3. phase \in {"data", "sent"} => queue' = <<>>
    BY <2>2 DEF Buffering
  <2>4. phase = "read" => \A i \in 1..Len(queue') : queue'[i].type = "rst"
    BY <2>1, <2>2
  <2> QED
    BY <2>2, <2>3, <2>4 DEF Buffering
<1>4. ASSUME NEW s \in Streams, SendData(s)
      PROVE  PhaseInv'
  BY <1>4 DEF SendData
<1>5. CASE WriteFails
  BY <1>5 DEF WriteFails, Buffering
<1>6. CASE BufferEnd
  BY <1>6 DEF BufferEnd, Buffering, NothingPending
<1>7. ASSUME NEW n \in 0..MaxBody, Write(n)
      PROVE  PhaseInv'
  <2>1. queue' = <<Event("headers", Head(reqs).id, 0)>>
    BY <1>7 DEF Write, SubmitHeaders
  <2> QED
    BY <1>7, <2>1 DEF Write, SubmitData, Thrown
<1>8. CASE WriteTrailers
  <2>1. queue' = <<Event("trailers", Head(reqs).id, 0)>>
    BY <1>8 DEF WriteTrailers, SubmitTrailers
  <2> QED
    BY <1>8, <2>1 DEF WriteTrailers
<1>9. CASE ProcessEnd
  BY <1>9 DEF ProcessEnd
<1> QED
  BY <1>1, <1>2, <1>3, <1>4, <1>5, <1>6, <1>7, <1>8, <1>9 DEF H2Next

LEMMA TypesPhasesStep == H2TypeOK /\ PhaseInv /\ [H2Next]_h2Vars => (H2TypeOK /\ PhaseInv)'
<1> SUFFICES ASSUME H2TypeOK, PhaseInv, [H2Next]_h2Vars PROVE (H2TypeOK /\ PhaseInv)'
  OBVIOUS
<1>1. CASE H2Next
  BY <1>1, RecvTypes, ConnTypes, RecvPhases, ConnPhases
<1>2. CASE UNCHANGED h2Vars
  BY <1>2 DEF h2Vars, H2TypeOK, PhaseInv
<1> QED
  BY <1>1, <1>2

\* Type correctness: the variables of a connection keep their types; no window
\* becomes negative, and conn::write always has a request to answer.
THEOREM H2TypeCorrect == H2Spec => [](H2TypeOK /\ PhaseInv)
  BY InitTypes, TypesPhasesStep, PTL DEF H2Spec

\* The names and values of a response are serialised before it is destroyed.
THEOREM HeadersSafe == H2Spec => []HeadersSerialised
<1>1. H2TypeOK /\ PhaseInv => HeadersSerialised
  BY DEF PhaseInv, HeadersSerialised
<1> QED
  BY <1>1, H2TypeCorrect, PTL
-----------------------------------------------------------------------------
(* What becomes of EventInv when the list of events changes.               *)

\* What follows is about one stream s, with the list q of events, in some state.
LEMMA OtherEvent ==
  ASSUME NEW q \in Seq(EventSet), NEW s, NEW state, NEW req, NEW n, NEW b, NEW e \in EventSet,
         EventInv(q, s, state, req, n, b), e.id # s
  PROVE  EventInv(Append(q, e), s, state, req, n, b)
<1> DEFINE p == Append(q, e)
<1>1. /\ p \in Seq(EventSet) /\ Len(p) = Len(q) + 1 /\ Len(q) \in Nat
      /\ p[Len(q) + 1].id # s
      /\ \A i \in 1..Len(q) : p[i] = q[i]
  OBVIOUS
<1> HIDE DEF p
<1> USE DEF EventInv
<1>2. \A i \in 1..Len(p) : p[i].id = s => i \in 1..Len(q)
  BY <1>1
<1>3. Ordered(p, s)
  BY <1>1, <1>2 DEF Ordered
<1>4. Continues(p, s, Len(Got(req)))
  BY <1>1, <1>2 DEF Continues, Content
<1>5. Numbered(p, s, n, b)
  BY <1>1, <1>2 DEF Numbered, Content
<1>6. \A type : Has(p, type, s) <=> Has(q, type, s)
  BY <1>1, <1>2 DEF Has, Is
<1>7. Mentions(p, s) <=> Mentions(q, s)
  BY <1>1, <1>2 DEF Mentions
<1>8. AllThere(q, s, Len(Got(req)), n) => AllThere(p, s, Len(Got(req)), n)
  BY <1>1 DEF AllThere
<1>9. StateInv(p, s, state, req, n)
  BY <1>6, <1>7, <1>8 DEF StateInv
<1> QED
  BY <1>3, <1>4, <1>5, <1>9 DEF p

\* HEADERS or DATA arrive on s, which is open then.
LEMMA ContentEvent ==
  ASSUME NEW q \in Seq(EventSet), NEW s, NEW state, NEW req, NEW n \in Nat, NEW b, NEW e \in EventSet,
         EventInv(q, s, state, req, n, b), state \in {"idle", "open"},
         Content(e, s), e.n = n + 1
  PROVE  EventInv(Append(q, e), s, "open", req, n + 1, b)
<1> DEFINE p == Append(q, e)
<1>1. /\ p \in Seq(EventSet) /\ Len(p) = Len(q) + 1 /\ Len(q) \in Nat
      /\ p[Len(q) + 1] = e
      /\ \A i \in 1..Len(q) : p[i] = q[i]
  OBVIOUS
<1> HIDE DEF p
<1> USE DEF EventInv
<1>2. Rank(e) = n + 1 /\ Content(e, s) /\ e.n >= 0 /\ e.type # "end" /\ e.type # "close" /\ e.id = s
  BY DEF Rank, Content
<1>3. ~Has(q, "end", s) /\ ~Has(q, "close", s)
  BY DEF StateInv, Has, Is, Mentions
<1>4. \A i \in 1..Len(q) : Content(q[i], s) => Rank(q[i]) \in 1..n
  BY DEF Numbered
<1>5. AllThere(q, s, Len(Got(req)), n)
  BY DEF StateInv
<1>6. \A i \in 1..Len(p) : i \in 1..Len(q) \/ (i = Len(q) + 1 /\ p[i] = e)
  BY <1>1
<1>7. Ordered(p, s)
  <2> SUFFICES ASSUME NEW i \in 1..Len(p), NEW j \in 1..Len(p), i < j, p[i].id = s, p[j].id = s
               PROVE  /\ p[i].type # "close"
                      /\ p[i].type = "end" => p[j].type = "close"
                      /\ Content(p[i], s) /\ Content(p[j], s) => Rank(p[i]) < Rank(p[j])
    BY DEF Ordered
  <2>1. i \in 1..Len(q) /\ p[i] = q[i]
    BY <1>1, <1>6
  <2>2. p[i].type # "close" /\ p[i].type # "end"
    BY <2>1, <1>3 DEF Has, Is
  <2>3. CASE j \in 1..Len(q)
    BY <2>1, <2>2, <2>3, <1>1 DEF Ordered
  <2>4. CASE p[j] = e
    BY <2>1, <2>2, <2>4, <1>2, <1>4
  <2> QED
    BY <2>3, <2>4, <1>6
<1>8. Continues(p, s, Len(Got(req)))
  <2> SUFFICES ASSUME NEW j \in 1..Len(p), Content(p[j], s), Rank(p[j]) # Len(Got(req)) + 1
               PROVE  \E i \in 1..(j - 1) : Content(p[i], s) /\ Rank(p[i]) = Rank(p[j]) - 1
    BY DEF Continues
  <2>1. CASE j \in 1..Len(q)
    BY <2>1, <1>1 DEF Continues
  <2>2. CASE j = Len(q) + 1 /\ p[j] = e
    <3>1. PICK i \in 1..Len(q) : Content(q[i], s) /\ Rank(q[i]) = n
      BY <2>2, <1>2, <1>5 DEF AllThere
    <3> QED
      BY <3>1, <2>2, <1>1, <1>2
  <2> QED
    BY <2>1, <2>2, <1>6
<1>9. Numbered(p, s, n + 1, b)
  BY <1>1, <1>2, <1>4, <1>6 DEF Numbered
<1>10. StateInv(p, s, "open", req, n + 1)
  <2>1. ~Has(p, "end", s) /\ ~Has(p, "close", s)
    BY <1>1, <1>2, <1>3, <1>6 DEF Has, Is
  <2>2. AllThere(p, s, Len(Got(req)), n + 1)
    BY <1>1, <1>2 DEF AllThere
  <2> QED
    BY <2>1, <2>2 DEF StateInv
<1> QED
  BY <1>7, <1>8, <1>9, <1>10 DEF p

\* END_STREAM arrives on s.
LEMMA EndEvent ==
  ASSUME NEW q \in Seq(EventSet), NEW s, NEW req, NEW n, NEW b, NEW e \in EventSet,
         EventInv(q, s, "open", req, n, b), Is(e, "end", s)
  PROVE  EventInv(Append(q, e), s, "half", req, n, b)
<1> DEFINE p == Append(q, e)
<1>1. /\ p \in Seq(EventSet) /\ Len(p) = Len(q) + 1 /\ Len(q) \in Nat
      /\ p[Len(q) + 1] = e
      /\ \A i \in 1..Len(q) : p[i] = q[i]
  OBVIOUS
<1> HIDE DEF p
<1> USE DEF EventInv
<1>2. ~Content(e, s) /\ e.type = "end"
  BY DEF Content, Is
<1>3. ~Has(q, "end", s) /\ ~Has(q, "close", s) /\ AllThere(q, s, Len(Got(req)), n)
  BY DEF StateInv
<1>4. \A i \in 1..Len(p) : i \in 1..Len(q) \/ (i = Len(q) + 1 /\ p[i] = e)
  BY <1>1
<1>5. Ordered(p, s)
  <2>1. \A i \in 1..Len(q) : p[i].id = s => p[i].type # "close" /\ p[i].type # "end"
    BY <1>1, <1>3 DEF Has, Is
  <2> QED
    BY <2>1, <1>1, <1>2, <1>4 DEF Ordered
<1>6. Continues(p, s, Len(Got(req)))
  BY <1>1, <1>2, <1>4 DEF Continues
<1>7. Numbered(p, s, n, b)
  BY <1>1, <1>2, <1>4 DEF Numbered
<1>8. ~Has(p, "close", s) /\ AllThere(p, s, Len(Got(req)), n)
  BY <1>1, <1>2, <1>3, <1>4 DEF Has, Is, AllThere
<1> QED
  BY <1>5, <1>6, <1>7, <1>8 DEF p, StateInv

\* A stream that nghttp2 knows is closed: stream_close_cb.
LEMMA CloseEvent ==
  ASSUME NEW q \in Seq(EventSet), NEW s, NEW state, NEW req, NEW n, NEW b, NEW e \in EventSet,
         EventInv(q, s, state, req, n, b), state \in {"open", "half", "closing"}, Is(e, "close", s)
  PROVE  EventInv(Append(q, e), s, "closed", req, n, b)
<1> DEFINE p == Append(q, e)
<1>1. /\ p \in Seq(EventSet) /\ Len(p) = Len(q) + 1 /\ Len(q) \in Nat
      /\ p[Len(q) + 1] = e
      /\ \A i \in 1..Len(q) : p[i] = q[i]
  OBVIOUS
<1> HIDE DEF p
<1> USE DEF EventInv
<1>2. ~Content(e, s) /\ e.type = "close" /\ e.id = s
  BY DEF Content, Is
<1>3. ~Has(q, "close", s)
  BY DEF StateInv
<1>4. \A i \in 1..Len(p) : i \in 1..Len(q) \/ (i = Len(q) + 1 /\ p[i] = e)
  BY <1>1
<1>5. Ordered(p, s)
  <2>1. \A i \in 1..Len(q) : p[i].id = s => p[i].type # "close"
    BY <1>1, <1>3 DEF Has, Is
  <2> QED
    BY <2>1, <1>1, <1>2, <1>4 DEF Ordered
<1>6. Continues(p, s, Len(Got(req)))
  BY <1>1, <1>2, <1>4 DEF Continues
<1>7. Numbered(p, s, n, b)
  BY <1>1, <1>2, <1>4 DEF Numbered
<1>8. Has(p, "close", s)
  BY <1>1, <1>2 DEF Has, Is
<1>9. Has(p, "end", s) => Has(q, "end", s)
  BY <1>1, <1>2, <1>4 DEF Has, Is
<1>10. AllThere(q, s, Len(Got(req)), n) => AllThere(p, s, Len(Got(req)), n)
  BY <1>1 DEF AllThere
<1>11. StateInv(p, s, "closed", req, n)
  BY <1>8, <1>9, <1>10 DEF StateInv
<1> QED
  BY <1>5, <1>6, <1>7, <1>11 DEF p

\* nghttp2 rejects or refuses a stream without telling the session.
LEMMA SilentClose ==
  ASSUME NEW q, NEW s, NEW state, NEW req, NEW n, NEW b,
         EventInv(q, s, state, req, n, b)
  PROVE  /\ state \in {"idle", "open", "half", "closing"} => EventInv(q, s, "closing", req, n, b)
         /\ state = "idle" => EventInv(q, s, "closed", req, n, b)
  BY DEF EventInv, StateInv, Has, Is, Mentions

\* A failed read leaves the events where they are; payloads are overwritten.
LEMMA StaleEvents ==
  ASSUME NEW q \in Seq(EventSet), NEW s, NEW state, NEW req, NEW n, NEW p \in Seq(EventSet),
         EventInv(q, s, state, req, n, "uv"), Len(p) = Len(q),
         \A i \in 1..Len(q) : /\ p[i].id = q[i].id /\ p[i].type = q[i].type
                              /\ p[i].n = q[i].n \/ p[i].n = Stale(q[i].n)
  PROVE  EventInv(p, s, state, req, n, "uv")
<1> USE DEF EventInv
<1>1. Len(q) \in Nat /\ \A i \in 1..Len(q) : q[i].n \in Int
  BY EventFields
<1>2. \A i \in 1..Len(q) : Rank(p[i]) = Rank(q[i])
  BY <1>1 DEF Rank, Stale
<1>3. \A i \in 1..Len(q) : Content(p[i], s) <=> Content(q[i], s)
  BY DEF Content
<1>4. Ordered(p, s)
  BY <1>2, <1>3 DEF Ordered
<1>5. Continues(p, s, Len(Got(req)))
  <2> SUFFICES ASSUME NEW j \in 1..Len(p), Content(p[j], s), Rank(p[j]) # Len(Got(req)) + 1
               PROVE  \E i \in 1..(j - 1) : Content(p[i], s) /\ Rank(p[i]) = Rank(p[j]) - 1
    BY DEF Continues
  <2>1. PICK i \in 1..(j - 1) : Content(q[i], s) /\ Rank(q[i]) = Rank(q[j]) - 1
    BY <1>2, <1>3 DEF Continues
  <2> QED
    BY <2>1, <1>1, <1>2, <1>3
<1>6. Numbered(p, s, n, "uv")
  BY <1>2, <1>3 DEF Numbered
<1>7. \A type : Has(p, type, s) <=> Has(q, type, s)
  BY DEF Has, Is
<1>8. Mentions(p, s) <=> Mentions(q, s)
  BY DEF Mentions
<1>9. AllThere(q, s, Len(Got(req)), n) => AllThere(p, s, Len(Got(req)), n)
  BY <1>2, <1>3 DEF AllThere
<1>10. StateInv(p, s, state, req, n)
  BY <1>7, <1>8, <1>9 DEF StateInv
<1> QED
  BY <1>4, <1>5, <1>6, <1>10

LEMMA TailOfEvents ==
  ASSUME NEW q \in Seq(EventSet), q # <<>>
  PROVE  /\ Tail(q) \in Seq(EventSet) /\ Len(q) \in Nat \ {0} /\ Len(Tail(q)) = Len(q) - 1
         /\ Head(q) = q[1] /\ q[1] \in EventSet
         /\ \A i \in 1..(Len(q) - 1) : Tail(q)[i] = q[i + 1]
         /\ \A i \in 2..Len(q) : q[i] = Tail(q)[i - 1]
  OBVIOUS

LEMMA TailOrdered ==
  ASSUME NEW q \in Seq(EventSet), q # <<>>, NEW s, NEW n, NEW b
  PROVE  /\ Ordered(q, s) => Ordered(Tail(q), s)
         /\ Numbered(q, s, n, b) => Numbered(Tail(q), s, n, b)
<1> DEFINE p == Tail(q)
<1>1. /\ Len(q) \in Nat \ {0} /\ Len(p) = Len(q) - 1
      /\ \A i \in 1..(Len(q) - 1) : p[i] = q[i + 1]
  BY TailOfEvents
<1> HIDE DEF p
<1>2. \A i \in 1..Len(p) : i + 1 \in 1..Len(q) /\ p[i] = q[i + 1]
  BY <1>1
<1>3. ASSUME Ordered(q, s) PROVE Ordered(p, s)
  <2> SUFFICES ASSUME NEW i \in 1..Len(p), NEW j \in 1..Len(p), i < j, p[i].id = s, p[j].id = s
               PROVE  /\ p[i].type # "close"
                      /\ p[i].type = "end" => p[j].type = "close"
                      /\ Content(p[i], s) /\ Content(p[j], s) => Rank(p[i]) < Rank(p[j])
    BY DEF Ordered
  <2>1. i + 1 \in 1..Len(q) /\ j + 1 \in 1..Len(q) /\ i + 1 < j + 1
    BY <1>1
  <2> QED
    BY <2>1, <1>2, <1>3 DEF Ordered
<1>4. ASSUME Numbered(q, s, n, b) PROVE Numbered(p, s, n, b)
  BY <1>2, <1>4 DEF Numbered
<1> QED
  BY <1>3, <1>4 DEF p

\* conn::read handles an event of another stream.
LEMMA OtherHandled ==
  ASSUME NEW q \in Seq(EventSet), q # <<>>, NEW s, NEW state, NEW req, NEW n, NEW b,
         EventInv(q, s, state, req, n, b), Head(q).id # s
  PROVE  EventInv(Tail(q), s, state, req, n, b)
<1> DEFINE p == Tail(q)
<1>1. /\ Len(q) \in Nat \ {0} /\ Len(p) = Len(q) - 1 /\ q[1].id # s
      /\ \A i \in 1..(Len(q) - 1) : p[i] = q[i + 1]
      /\ \A i \in 2..Len(q) : q[i] = p[i - 1]
  BY TailOfEvents
<1> HIDE DEF p
<1> USE DEF EventInv
<1>2. \A i \in 1..Len(q) : q[i].id = s => i \in 2..Len(q)
  BY <1>1
<1>3. Ordered(p, s)
  BY TailOrdered DEF p
<1>4. Continues(p, s, Len(Got(req)))
  <2> SUFFICES ASSUME NEW j \in 1..Len(p), Content(p[j], s), Rank(p[j]) # Len(Got(req)) + 1
               PROVE  \E i \in 1..(j - 1) : Content(p[i], s) /\ Rank(p[i]) = Rank(p[j]) - 1
    BY DEF Continues
  <2>1. PICK i \in 1..j : Content(q[i], s) /\ Rank(q[i]) = Rank(q[j + 1]) - 1
    BY <1>1 DEF Continues
  <2>2. i \in 2..j
    BY <2>1, <1>1 DEF Content
  <2> QED
    BY <2>1, <2>2, <1>1
<1>5. Numbered(p, s, n, b)
  BY <1>1 DEF Numbered
<1>6. \A type : Has(p, type, s) <=> Has(q, type, s)
  <2> SUFFICES ASSUME NEW type PROVE Has(p, type, s) <=> Has(q, type, s)
    OBVIOUS
  <2>1. ASSUME NEW i \in 1..Len(p), Is(p[i], type, s) PROVE Has(q, type, s)
    BY <2>1, <1>1 DEF Has
  <2>2. ASSUME NEW i \in 1..Len(q), Is(q[i], type, s) PROVE Has(p, type, s)
    BY <2>2, <1>1, <1>2 DEF Has, Is
  <2> QED
    BY <2>1, <2>2 DEF Has
<1>7. Mentions(p, s) => Mentions(q, s)
  BY <1>1 DEF Mentions
<1>8. AllThere(q, s, Len(Got(req)), n) => AllThere(p, s, Len(Got(req)), n)
  BY <1>1, <1>2 DEF AllThere, Content
<1>9. StateInv(p, s, state, req, n)
  BY <1>6, <1>7, <1>8 DEF StateInv
<1> QED
  BY <1>3, <1>4, <1>5, <1>9 DEF p

\* stream_header or stream_data: the next frame goes to the request of s.
LEMMA ContentHandled ==
  ASSUME NEW q \in Seq(EventSet), q # <<>>, NEW s, NEW state, NEW req \in Seq(Int), NEW n \in Nat, NEW b,
         EventInv(q, s, state, req, n, b), Content(Head(q), s)
  PROVE  /\ EventInv(Tail(q), s, state, Append(Got(req), Head(q).n), n, b)
         /\ Append(Got(req), Head(q).n) # NoRequest
<1> DEFINE p == Tail(q)
           e == Head(q)
           got == Got(req)
           new == Append(got, e.n)
<1>1. /\ Len(q) \in Nat \ {0} /\ Len(p) = Len(q) - 1
      /\ \A i \in 1..(Len(q) - 1) : p[i] = q[i + 1]
      /\ \A i \in 2..Len(q) : q[i] = p[i - 1]
  BY TailOfEvents
<1>2. q[1] = e /\ e \in EventSet /\ Content(e, s)
  BY TailOfEvents
<1>3. got \in Seq(Int) /\ Len(got) \in Nat
  BY DEF Got
<1> HIDE DEF p, e, got
<1> USE DEF EventInv
<1>4. e.n \in Int /\ e.id = s /\ e.type # "end" /\ e.type # "close"
  BY <1>2, EventFields DEF Content
<1>5. Rank(e) = Len(got) + 1 /\ (e.n < 0 => b = "uv")
  BY <1>1, <1>2, <1>3 DEF Continues, Numbered, got
<1>6. new \in Seq(Int) /\ Len(new) = Len(got) + 1 /\ new[Len(got) + 1] = e.n
      /\ \A i \in 1..Len(got) : new[i] = got[i]
  BY <1>3, <1>4
<1>7. new # NoRequest
  <2>1. e.n # 0
    BY <1>3, <1>4, <1>5 DEF Rank
  <2>2. Len(NoRequest) = 1 /\ NoRequest[1] = 0
    BY DEF NoRequest
  <2> QED
    BY <2>1, <2>2, <1>3, <1>6
<1> HIDE DEF new
<1>8. Got(new) = new
  BY <1>7 DEF Got
<1>9. Ordered(p, s)
  BY TailOrdered DEF p
<1>11. Numbered(p, s, n, b)
  BY TailOrdered DEF p
<1>10. Continues(p, s, Len(new))
  <2> SUFFICES ASSUME NEW j \in 1..Len(p), Content(p[j], s), Rank(p[j]) # Len(new) + 1
               PROVE  \E i \in 1..(j - 1) : Content(p[i], s) /\ Rank(p[i]) = Rank(p[j]) - 1
    BY DEF Continues
  <2>1. p[j] = q[j + 1] /\ j + 1 \in 1..Len(q) /\ j \in Nat
    BY <1>1
  <2>2. Rank(e) < Rank(p[j])
    BY <2>1, <1>1, <1>2, <1>4 DEF Ordered, Content
  <2>3. Rank(p[j]) # Len(got) + 1
    BY <2>2, <1>5, <1>3
  <2>4. PICK i \in 1..j : Content(q[i], s) /\ Rank(q[i]) = Rank(p[j]) - 1
    BY <2>1, <2>3 DEF Continues, got
  <2>5. Rank(p[j]) \in Int
    BY <1>11 DEF Numbered
  <2>6. i # 1
    BY <2>4, <2>5, <1>2, <1>3, <1>5, <1>6
  <2> QED
    <3>1. i \in 2..Len(q) /\ i - 1 \in 1..(j - 1)
      BY <2>1, <2>6
    <3>2. q[i] = p[i - 1]
      BY <3>1, <1>1
    <3> QED
      BY <2>4, <3>1, <3>2
<1>12. \A type : Has(p, type, s) => Has(q, type, s)
  BY <1>1 DEF Has
<1>13. Has(q, "close", s) => Has(p, "close", s)
  <2> SUFFICES ASSUME NEW i \in 1..Len(q), Is(q[i], "close", s) PROVE Has(p, "close", s)
    BY DEF Has
  <2>1. i # 1
    BY <1>2, <1>4 DEF Is
  <2> QED
    BY <2>1, <1>1 DEF Has
<1>14. AllThere(q, s, Len(got), n) => AllThere(p, s, Len(new), n)
  <2>1. ASSUME Len(got) = n PROVE FALSE
    BY <2>1, <1>1, <1>2, <1>5 DEF Numbered
  <2>2. ASSUME NEW j \in 1..Len(q), Content(q[j], s), Rank(q[j]) = n PROVE AllThere(p, s, Len(new), n)
    <3>1. CASE j = 1
      BY <2>2, <3>1, <1>2, <1>5, <1>6 DEF AllThere
    <3>2. CASE j # 1
      BY <2>2, <3>2, <1>1 DEF AllThere
    <3> QED
      BY <3>1, <3>2
  <2> QED
    BY <2>1, <2>2 DEF AllThere
<1>15. Mentions(q, s)
  BY <1>1, <1>2, <1>4 DEF Mentions
<1>16. StateInv(p, s, state, new, n)
  BY <1>8, <1>12, <1>13, <1>14, <1>15 DEF StateInv, got
<1>17. Exact(new, b)
  <2>1. e.n = Len(got) + 1 \/ (b = "uv" /\ e.n = Stale(Len(got) + 1))
    BY <1>3, <1>4, <1>5 DEF Rank, Stale
  <2>2. Exact(got, b)
    BY DEF got
  <2>3. \A k \in 1..Len(new) : k \in 1..Len(got) \/ k = Len(got) + 1
    BY <1>3, <1>6
  <2> QED
    BY <2>1, <2>2, <2>3, <1>6 DEF Exact
<1> QED
  BY <1>7, <1>8, <1>9, <1>10, <1>11, <1>16, <1>17 DEF p, e, got, new

\* stream_end: the request of s is complete and leaves _streams.
LEMMA EndHandled ==
  ASSUME NEW q \in Seq(EventSet), q # <<>>, NEW s, NEW state, NEW req \in Seq(Int), NEW n \in Nat, NEW b,
         EventInv(q, s, state, req, n, b), Is(Head(q), "end", s)
  PROVE  /\ EventInv(Tail(q), s, state, NoRequest, n, b)
         /\ Len(Got(req)) = n /\ Exact(Got(req), b)
         /\ ~Has(Tail(q), "end", s) /\ state \notin {"idle", "open"}
<1> DEFINE p == Tail(q)
<1>1. /\ Len(q) \in Nat \ {0} /\ Len(p) = Len(q) - 1 /\ Is(q[1], "end", s)
      /\ \A i \in 1..(Len(q) - 1) : p[i] = q[i + 1]
      /\ \A i \in 2..Len(q) : q[i] = p[i - 1]
  BY TailOfEvents
<1> HIDE DEF p
<1> USE DEF EventInv
<1>2. \A i \in 1..Len(p) : p[i].id = s => p[i].type = "close"
  BY <1>1 DEF Ordered, Is
<1>3. \A i \in 1..Len(q) : ~Content(q[i], s)
  <2>1. ~Content(q[1], s)
    BY <1>1 DEF Content, Is
  <2>2. \A i \in 1..Len(p) : ~Content(p[i], s)
    BY <1>2 DEF Content
  <2> QED
    BY <2>1, <2>2, <1>1
<1>4. Has(q, "end", s) /\ Mentions(q, s)
  BY <1>1 DEF Has, Is, Mentions
<1>5. Len(Got(req)) = n
  BY <1>3, <1>4 DEF StateInv, AllThere
<1>6. Ordered(p, s) /\ Continues(p, s, Len(Got(NoRequest))) /\ Numbered(p, s, n, b)
  BY <1>1, <1>2 DEF Ordered, Continues, Numbered, Content
<1>7. ~Has(p, "end", s)
  BY <1>2 DEF Has, Is
<1>8. Has(q, "close", s) <=> Has(p, "close", s)
  <2>1. ASSUME NEW i \in 1..Len(q), Is(q[i], "close", s) PROVE Has(p, "close", s)
    <3>1. i # 1
      BY <2>1, <1>1 DEF Is
    <3> QED
      BY <2>1, <3>1, <1>1 DEF Has
  <2>2. ASSUME NEW i \in 1..Len(p), Is(p[i], "close", s) PROVE Has(q, "close", s)
    BY <2>2, <1>1 DEF Has
  <2> QED
    BY <2>1, <2>2 DEF Has
<1>9. state # "idle" /\ state # "open"
  BY <1>4 DEF StateInv
<1>10. StateInv(p, s, state, NoRequest, n)
  BY <1>4, <1>7, <1>8, <1>9 DEF StateInv
<1>11. Exact(Got(NoRequest), b)
  BY DEF Exact, Got
<1> QED
  BY <1>5, <1>6, <1>7, <1>9, <1>10, <1>11 DEF p

\* stream_close: the session has nothing more to say about s.
LEMMA CloseHandled ==
  ASSUME NEW q \in Seq(EventSet), q # <<>>, NEW s, NEW state \in {"idle", "open", "half", "closing", "closed"},
         NEW req, NEW n, NEW b,
         EventInv(q, s, state, req, n, b), Is(Head(q), "close", s)
  PROVE  EventInv(Tail(q), s, state, NoRequest, n, b) /\ state = "closed" /\ ~Mentions(Tail(q), s)
<1> DEFINE p == Tail(q)
<1>1. /\ Len(q) \in Nat \ {0} /\ Len(p) = Len(q) - 1 /\ Is(q[1], "close", s)
      /\ \A i \in 1..(Len(q) - 1) : p[i] = q[i + 1]
  BY TailOfEvents
<1> HIDE DEF p
<1> USE DEF EventInv
<1>2. \A i \in 1..Len(p) : p[i].id # s
  BY <1>1 DEF Ordered, Is
<1>3. Has(q, "close", s) /\ Mentions(q, s)
  BY <1>1 DEF Has, Is, Mentions
<1>4. state = "closed"
  BY <1>3 DEF StateInv
<1>5. Ordered(p, s) /\ Continues(p, s, Len(Got(NoRequest))) /\ Numbered(p, s, n, b)
  BY <1>2 DEF Ordered, Continues, Numbered, Content
<1>6. ~Mentions(p, s) /\ ~Has(p, "end", s)
  BY <1>2 DEF Mentions, Has, Is
<1>7. StateInv(p, s, state, NoRequest, n)
  BY <1>4, <1>6 DEF StateInv
<1>8. Exact(Got(NoRequest), b)
  BY DEF Exact, Got
<1> QED
  BY <1>4, <1>5, <1>6, <1>7, <1>8 DEF p
-----------------------------------------------------------------------------
(* Every step keeps StreamInv.                                             *)

LEMMA SameStream ==
  ASSUME NEW r \in Streams, StreamInv(r), UNCHANGED backend, Todo' = Todo,
         st'[r] = st[r], streams'[r] = streams[r], count'[r] = count[r]
  PROVE  StreamInv(r)'
  BY DEF StreamInv

LEMMA TodoType == H2TypeOK => Todo \in Seq(EventSet)
  BY DEF H2TypeOK, Todo

\* One frame: the events of a frame with content.
LEMMA EmitEvents ==
  ASSUME H2TypeOK, NEW s \in Streams, NEW type \in {"header", "data"}, NEW end \in BOOLEAN,
         Emit(s, type, end)
  PROVE  LET e == Event(type, s, count[s] + 1)
             one == Append(events, e)
         IN  /\ e \in EventSet /\ Content(e, s) /\ e.n = count[s] + 1 /\ e.id = s
             /\ Event("end", s, 0) \in EventSet /\ Is(Event("end", s, 0), "end", s)
             /\ one \in Seq(EventSet)
             /\ events' = IF end THEN Append(one, Event("end", s, 0)) ELSE one
<1> DEFINE e == Event(type, s, count[s] + 1)
           f == Event("end", s, 0)
<1>1. e \in EventSet /\ f \in EventSet
  BY EventInSet DEF H2TypeOK, EventTypes
<1>2. Content(e, s) /\ e.n = count[s] + 1 /\ e.id = s /\ Is(f, "end", s)
  BY DEF Event, Content, Is
<1>3. events \in Seq(EventSet)
  BY DEF H2TypeOK
<1>4. events' = events \o <<e>> \o (IF end THEN <<f>> ELSE <<>>)
  BY DEF Emit
<1> HIDE DEF e, f
<1>5. events \o <<e>> = Append(events, e) /\ Append(events, e) \in Seq(EventSet)
  BY <1>1, <1>3
<1>6. events' = IF end THEN Append(Append(events, e), f) ELSE Append(events, e)
  <2>1. Append(events, e) \o <<f>> = Append(Append(events, e), f)
    BY <1>1, <1>5
  <2>2. Append(events, e) \o <<>> = Append(events, e)
    BY <1>5, ConcatEmptySeq
  <2> QED
    BY <2>1, <2>2, <1>4, <1>5
<1> QED
  BY <1>1, <1>2, <1>5, <1>6 DEF e, f

\* Closing a stream, in FrameRst and in SendQueued.
LEMMA CloseStep ==
  ASSUME H2TypeOK, NEW s \in Streams, NEW r \in Streams, StreamInv(r),
         phase # "events", phase' = phase, st[s] \in {"open", "half", "closing"},
         Close(s), UNCHANGED <<backend, streams, count>>
  PROVE  StreamInv(r)'
<1> DEFINE e == Event("close", s, 0)
<1>1. e \in EventSet /\ Is(e, "close", s) /\ e.id = s
  BY EventInSet DEF EventTypes, Event, Is
<1>2. Todo \in Seq(EventSet) /\ Todo = events /\ Todo' = Append(Todo, e)
  BY TodoType DEF Todo, Close
<1> HIDE DEF e
<1>3. st' = [st EXCEPT ![s] = "closed"] /\ st \in [Streams -> {"idle", "open", "half", "closing", "closed"}]
  BY DEF Close, H2TypeOK
<1>4. CASE r = s
  BY <1>1, <1>2, <1>3, <1>4, CloseEvent DEF StreamInv
<1>5. CASE r # s
  BY <1>1, <1>2, <1>3, <1>5, OtherEvent DEF StreamInv
<1> QED
  BY <1>4, <1>5

LEMMA RecvStreams ==
  ASSUME H2TypeOK, PhaseInv, RecvNext, NEW r \in Streams, StreamInv(r)
  PROVE  StreamInv(r)'
<1> USE DEF connState
<1>t1. /\ st \in [Streams -> {"idle", "open", "half", "closing", "closed"}]
       /\ count \in [Streams -> Nat]
  BY DEF H2TypeOK
<1>t2. Todo \in Seq(EventSet) /\ (phase # "events" => Todo = events)
  BY TodoType DEF Todo
<1>1. CASE ReadBegin
  BY <1>1, SameStream DEF ReadBegin, Todo
<1>2. CASE ConnLost
  BY <1>2, SameStream DEF ConnLost, Todo
<1>3. CASE FrameWindow
  BY <1>3, SameStream DEF FrameWindow, Todo
<1>4. CASE FrameFatal
  BY <1>4, SameStream DEF FrameFatal, Todo
<1>5. CASE ReadEnd
  BY <1>5, SameStream DEF ReadEnd, Todo
<1>6. CASE ReadFails
  <2>1. CASE backend = "asio"
    BY <1>6, <2>1, SameStream DEF ReadFails, Todo
  <2>2. CASE backend = "uv"
    <3>1. /\ Todo = events /\ Todo' = events' /\ UNCHANGED <<st, streams, count, backend>>
          /\ events' = [i \in 1..Len(events) |->
                          IF events[i].type = "data" THEN [events[i] EXCEPT !.n = Stale(@)] ELSE events[i]]
      BY <1>6, <2>2 DEF ReadFails, Todo
    <3>2. events \in Seq(EventSet) /\ events' \in Seq(EventSet)
      BY RecvTypes DEF H2TypeOK
    <3>3. \A e \in EventSet : LET f == [e EXCEPT !.n = Stale(@)] IN
             f.id = e.id /\ f.type = e.type /\ f.n = Stale(e.n)
      BY DEF EventSet
    <3>4. Len(events') = Len(events)
      BY <3>1, <3>2
    <3>5. \A i \in 1..Len(events) : /\ events'[i].id = events[i].id /\ events'[i].type = events[i].type
                                    /\ events'[i].n = events[i].n \/ events'[i].n = Stale(events[i].n)
      BY <3>1, <3>2, <3>3
    <3> QED
      BY <2>2, <3>1, <3>2, <3>4, <3>5, StaleEvents DEF StreamInv
  <2> QED
    BY <2>1, <2>2 DEF H2TypeOK
<1>7. ASSUME NEW s \in Streams, NEW type \in {"header", "data"}, NEW end \in BOOLEAN, FrameRecv(s, type, end)
      PROVE  StreamInv(r)'
  <2> DEFINE e == Event(type, s, count[s] + 1)
             f == Event("end", s, 0)
             one == Append(Todo, e)
  <2>1. /\ e \in EventSet /\ Content(e, s) /\ e.n = count[s] + 1 /\ e.id = s
        /\ f \in EventSet /\ Is(f, "end", s) /\ one \in Seq(EventSet)
        /\ Todo' = IF end THEN Append(one, f) ELSE one
    BY <1>7, <1>t2, EmitEvents DEF FrameRecv, Todo
  <2>2. /\ st' = [st EXCEPT ![s] = IF end THEN "half" ELSE "open"]
        /\ count' = [count EXCEPT ![s] = @ + 1] /\ UNCHANGED <<backend, streams>>
        /\ st[s] \in {"idle", "open"}
    BY <1>7 DEF FrameRecv, MayOpen
  <2> HIDE DEF e, f
  <2>3. CASE r = s
    <3>1. EventInv(one, s, "open", streams[s], count[s] + 1, backend)
      BY <2>1, <2>2, <2>3, <1>t1, <1>t2, ContentEvent DEF StreamInv
    <3>2. EventInv(Append(one, f), s, "half", streams[s], count[s] + 1, backend)
      BY <2>1, <3>1, EndEvent
    <3> QED
      BY <2>1, <2>2, <2>3, <3>1, <3>2, <1>t1 DEF StreamInv
  <2>4. CASE r # s
    <3>1. EventInv(one, r, st[r], streams[r], count[r], backend)
      BY <2>1, <2>4, <1>t2, OtherEvent DEF StreamInv
    <3>2. EventInv(Append(one, f), r, st[r], streams[r], count[r], backend)
      BY <2>1, <2>4, <3>1, OtherEvent DEF Is
    <3> QED
      BY <2>1, <2>2, <2>4, <3>1, <3>2, <1>t1 DEF StreamInv
  <2> QED
    BY <2>3, <2>4
<1>8. ASSUME NEW s \in Streams, FrameEnd(s)
      PROVE  StreamInv(r)'
  <2> DEFINE f == Event("end", s, 0)
  <2>1. f \in EventSet /\ Is(f, "end", s) /\ f.id = s
    BY EventInSet DEF EventTypes, Event, Is
  <2>2. /\ st[s] = "open" /\ st' = [st EXCEPT ![s] = "half"] /\ UNCHANGED <<backend, streams, count>>
        /\ Todo' = Append(Todo, f)
    BY <1>8 DEF FrameEnd, Todo
  <2> HIDE DEF f
  <2>3. CASE r = s
    BY <2>1, <2>2, <2>3, <1>t1, <1>t2, EndEvent DEF StreamInv
  <2>4. CASE r # s
    BY <2>1, <2>2, <2>4, <1>t1, <1>t2, OtherEvent DEF StreamInv
  <2> QED
    BY <2>3, <2>4
<1>9. ASSUME NEW s \in Streams, FrameMalformed(s)
      PROVE  StreamInv(r)'
  <2>1. st' = [st EXCEPT ![s] = "closing"] /\ UNCHANGED <<backend, streams>> /\ phase = "recv" /\ phase' = phase
    BY <1>9 DEF FrameMalformed
  <2>2. st[s] \in {"idle", "open", "half"}
    BY <1>9 DEF FrameMalformed, MayOpen
  <2>3. CASE UNCHANGED <<count, events>>
    <3>1. Todo' = Todo
      BY <2>1, <2>3 DEF Todo
    <3>2. CASE r = s
      BY <2>1, <2>2, <2>3, <3>1, <3>2, <1>t1, SilentClose DEF StreamInv
    <3>3. CASE r # s
      BY <2>1, <2>3, <3>1, <3>3, <1>t1, SameStream
    <3> QED
      BY <3>2, <3>3
  <2>4. ASSUME NEW type \in {"header", "data"}, st[s] \in {"idle", "open"},
               Emit(s, type, FALSE), count' = [count EXCEPT ![s] = @ + 1]
        PROVE  StreamInv(r)'
    <3> DEFINE e == Event(type, s, count[s] + 1)
    <3>1. e \in EventSet /\ Content(e, s) /\ e.n = count[s] + 1 /\ e.id = s /\ Todo' = Append(Todo, e)
      BY <2>1, <2>4, <1>t2, EmitEvents DEF Todo
    <3> HIDE DEF e
    <3>2. CASE r = s
      <4>1. EventInv(Todo', s, "open", streams[s], count[s] + 1, backend)
        BY <2>4, <3>1, <3>2, <1>t1, <1>t2, ContentEvent DEF StreamInv
      <4> QED
        BY <2>1, <2>4, <3>2, <4>1, <1>t1, SilentClose DEF StreamInv
    <3>3. CASE r # s
      BY <2>1, <2>4, <3>1, <3>3, <1>t1, <1>t2, OtherEvent DEF StreamInv
    <3> QED
      BY <3>2, <3>3
  <2> QED
    BY <1>9, <2>2, <2>3, <2>4 DEF FrameMalformed
<1>10. ASSUME NEW s \in Streams, FrameRefused(s)
       PROVE  StreamInv(r)'
  <2>1. /\ st[s] = "idle" /\ st' = [st EXCEPT ![s] = "closed"] /\ UNCHANGED <<backend, streams, count>>
        /\ Todo' = Todo
    BY <1>10 DEF FrameRefused, Todo
  <2>2. CASE r = s
    BY <2>1, <2>2, <1>t1, SilentClose DEF StreamInv
  <2>3. CASE r # s
    BY <2>1, <2>3, <1>t1, SameStream
  <2> QED
    BY <2>2, <2>3
<1>11. ASSUME NEW s \in Streams, FrameRst(s)
       PROVE  StreamInv(r)'
  BY <1>11, CloseStep DEF FrameRst, Close, Live
<1> QED
  BY <1>1, <1>2, <1>3, <1>4, <1>5, <1>6, <1>7, <1>8, <1>9, <1>10, <1>11 DEF RecvNext

\* conn::read handles the next event: which stream it is about, and how.
LEMMA HandleCases ==
  ASSUME H2TypeOK, PhaseInv, HandleEvent
  PROVE  /\ Todo # <<>> /\ Todo \in Seq(EventSet) /\ Todo' = Tail(Todo)
         /\ UNCHANGED <<backend, phase, st, count, body>>
         /\ Head(Todo).id \in Streams
         /\ LET e == Head(Todo) IN
              \/ /\ Is(e, "close", e.id) /\ UNCHANGED reqs
                 /\ streams' = [streams EXCEPT ![e.id] = NoRequest]
              \/ /\ Content(e, e.id) /\ UNCHANGED reqs
                 /\ streams' = [streams EXCEPT ![e.id] = Append(Got(streams[e.id]), e.n)]
              \/ /\ Is(e, "end", e.id)
                 /\ reqs' = <<[id |-> e.id, content |-> Got(streams[e.id])]>> \o reqs
                 /\ streams' = [streams EXCEPT ![e.id] = NoRequest]
<1>1. Todo # <<>> /\ Todo = evs /\ Todo' = Tail(Todo) /\ UNCHANGED <<backend, phase, st, count, body>>
  BY DEF HandleEvent, Todo, sessionState
<1>2. Todo \in Seq(EventSet) /\ Head(Todo) \in EventSet
  BY <1>1, TodoType
<1>3. Head(Todo).id \in Streams
  BY <1>2, EventFields
<1>4. \A s : Emplaced(s) = Got(streams[s])
  BY DEF Emplaced, Got
<1> QED
  BY <1>1, <1>2, <1>3, <1>4 DEF HandleEvent, HandleClose, HandleContent, HandleEnd, Is, Content

LEMMA ConnStreams ==
  ASSUME H2TypeOK, PhaseInv, H2Next, ~RecvNext, NEW r \in Streams, StreamInv(r)
  PROVE  StreamInv(r)'
<1> USE DEF sessionState
<1>t. /\ st \in [Streams -> {"idle", "open", "half", "closing", "closed"}]
      /\ streams \in [Streams -> Seq(Int)] /\ count \in [Streams -> Nat]
  BY DEF H2TypeOK
<1>1. CASE HandleEvent
  <2>1. /\ Todo # <<>> /\ Todo \in Seq(EventSet) /\ Todo' = Tail(Todo)
        /\ UNCHANGED <<backend, phase, st, count, body>> /\ Head(Todo).id \in Streams
    BY <1>1, HandleCases
  <2>2. PICK e : e = Head(Todo)
    OBVIOUS
  <2>3. CASE r # e.id
    <3>1. streams'[r] = streams[r]
      BY <1>1, <2>2, <2>3, <1>t, HandleCases
    <3> QED
      BY <2>1, <2>2, <2>3, <3>1, OtherHandled DEF StreamInv
  <2>4. CASE r = e.id /\ Is(e, "close", r) /\ streams' = [streams EXCEPT ![r] = NoRequest]
    BY <2>1, <2>2, <2>4, <1>t, CloseHandled DEF StreamInv
  <2>5. CASE r = e.id /\ Content(e, r) /\ streams' = [streams EXCEPT ![r] = Append(Got(streams[r]), e.n)]
    BY <2>1, <2>2, <2>5, <1>t, ContentHandled DEF StreamInv
  <2>6. CASE r = e.id /\ Is(e, "end", r) /\ streams' = [streams EXCEPT ![r] = NoRequest]
    BY <2>1, <2>2, <2>6, <1>t, EndHandled DEF StreamInv
  <2> QED
    BY <1>1, <2>2, <2>3, <2>4, <2>5, <2>6, HandleCases
<1>2. CASE EventsEnd
  BY <1>2, SameStream DEF EventsEnd, Todo, PhaseInv
<1>3. CASE SendQueued
  <2>1. /\ phase # "events" /\ phase' = phase /\ UNCHANGED <<backend, streams, count>>
    BY <1>3 DEF SendQueued, Buffering
  <2>2. CASE UNCHANGED <<st, events>>
    BY <2>1, <2>2, SameStream DEF Todo
  <2>3. CASE Close(Head(queue).id) /\ st[Head(queue).id] \in {"half", "closing"}
    <3>1. Head(queue).id \in Streams
      BY <1>3, TailOfEvents, EventFields DEF SendQueued, H2TypeOK
    <3> QED
      BY <2>1, <2>3, <3>1, CloseStep
  <2> QED
    BY <1>3, <2>2, <2>3 DEF SendQueued
<1>4. ASSUME NEW s \in Streams, SendData(s)
      PROVE  StreamInv(r)'
  BY <1>4, SameStream DEF SendData, Todo
<1>5. CASE WriteFails
  BY <1>5, SameStream DEF WriteFails, Todo, Buffering
<1>6. CASE BufferEnd
  BY <1>6, SameStream DEF BufferEnd, Todo, Buffering
<1>7. ASSUME NEW n \in 0..MaxBody, Write(n)
      PROVE  StreamInv(r)'
  BY <1>7, SameStream DEF Write, SubmitData, Thrown, Todo
<1>8. CASE WriteTrailers
  BY <1>8, SameStream DEF WriteTrailers, Todo
<1>9. CASE ProcessEnd
  BY <1>9, SameStream DEF ProcessEnd, Todo
<1> QED
  BY <1>1, <1>2, <1>3, <1>4, <1>5, <1>6, <1>7, <1>8, <1>9 DEF H2Next

LEMMA InitStreams == ASSUME H2Init, NEW s \in Streams PROVE StreamInv(s)
<1>1. Todo = <<>> /\ Len(Todo) = 0 /\ st[s] = "idle" /\ streams[s] = NoRequest /\ count[s] = 0
  BY DEF H2Init, Todo
<1>2. Got(NoRequest) = <<>> /\ Len(Got(NoRequest)) = 0
  BY DEF Got
<1> QED
  BY <1>1, <1>2 DEF StreamInv, EventInv, Ordered, Continues, Numbered, StateInv, AllThere, Has, Mentions, Exact

\* The part of the invariant that is about events.
EventsInv == H2TypeOK /\ PhaseInv /\ \A s \in Streams : StreamInv(s)

LEMMA EventsStep == EventsInv /\ [H2Next]_h2Vars => EventsInv'
<1> SUFFICES ASSUME EventsInv, [H2Next]_h2Vars PROVE EventsInv'
  OBVIOUS
<1>1. (H2TypeOK /\ PhaseInv)'
  BY TypesPhasesStep DEF EventsInv
<1>2. ASSUME NEW s \in Streams PROVE StreamInv(s)'
  <2>1. CASE H2Next
    BY <2>1, RecvStreams, ConnStreams DEF EventsInv
  <2>2. CASE UNCHANGED h2Vars
    BY <2>2, SameStream DEF EventsInv, h2Vars, Todo
  <2> QED
    BY <2>1, <2>2
<1> QED
  BY <1>1, <1>2 DEF EventsInv

LEMMA EventsInvariant == H2Spec => []EventsInv
<1>1. H2Init => EventsInv
  BY InitTypes, InitStreams DEF EventsInv
<1> QED
  BY <1>1, EventsStep, PTL DEF H2Spec

\* No request is left behind in _streams.
THEOREM StreamsTrackedAlways == H2Spec => []StreamsTracked
<1>1. EventsInv => StreamsTracked
  <2> SUFFICES ASSUME EventsInv, phase = "idle", NEW s \in Streams, streams[s] # NoRequest
               PROVE  s \in Live \/ Pending("close", s)
    BY DEF StreamsTracked
  <2>1. StateInv(Todo, s, st[s], streams[s], count[s])
    BY DEF EventsInv, StreamInv, EventInv
  <2>2. Todo = events
    BY DEF Todo
  <2>3. st[s] \in {"idle", "open", "half", "closing", "closed"}
    BY DEF EventsInv, H2TypeOK
  <2> QED
    BY <2>1, <2>2, <2>3 DEF StateInv, Live, Pending, Has, Is
<1> QED
  BY <1>1, EventsInvariant, PTL
-----------------------------------------------------------------------------
(* Requests.  Most steps only move one stream in nghttp2.                  *)

LEMMA HasAppend ==
  ASSUME NEW q \in Seq(EventSet), NEW e \in EventSet
  PROVE  \A type, s : Has(Append(q, e), type, s) <=> Has(q, type, s) \/ Is(e, type, s)
<1> SUFFICES ASSUME NEW type, NEW s
             PROVE  Has(Append(q, e), type, s) <=> Has(q, type, s) \/ Is(e, type, s)
  OBVIOUS
<1> DEFINE p == Append(q, e)
<1>1. /\ Len(p) = Len(q) + 1 /\ Len(q) \in Nat /\ p[Len(q) + 1] = e
      /\ \A i \in 1..Len(q) : p[i] = q[i]
  OBVIOUS
<1> HIDE DEF p
<1>2. \A i \in 1..Len(p) : i \in 1..Len(q) \/ i = Len(q) + 1
  BY <1>1
<1>3. Has(p, type, s) <=> Has(q, type, s) \/ Is(e, type, s)
  BY <1>1, <1>2 DEF Has
<1> QED
  BY <1>3 DEF p

LEMMA HasTail ==
  ASSUME NEW q \in Seq(EventSet), q # <<>>
  PROVE  \A type, s : Has(q, type, s) <=> Is(Head(q), type, s) \/ Has(Tail(q), type, s)
<1> SUFFICES ASSUME NEW type, NEW s
             PROVE  Has(q, type, s) <=> Is(Head(q), type, s) \/ Has(Tail(q), type, s)
  OBVIOUS
<1> DEFINE p == Tail(q)
<1>1. /\ Len(q) \in Nat \ {0} /\ Len(p) = Len(q) - 1 /\ Head(q) = q[1]
      /\ \A i \in 1..(Len(q) - 1) : p[i] = q[i + 1]
      /\ \A i \in 2..Len(q) : q[i] = p[i - 1]
  BY TailOfEvents
<1> HIDE DEF p
<1>2. ASSUME NEW i \in 1..Len(q), Is(q[i], type, s) PROVE Is(Head(q), type, s) \/ Has(p, type, s)
  <2>1. CASE i = 1
    BY <1>1, <1>2, <2>1
  <2>2. CASE i # 1
    BY <1>1, <1>2, <2>2 DEF Has
  <2> QED
    BY <2>1, <2>2
<1>3. ASSUME NEW i \in 1..Len(p), Is(p[i], type, s) PROVE Has(q, type, s)
  BY <1>1, <1>3 DEF Has
<1>4. Is(Head(q), type, s) => Has(q, type, s)
  BY <1>1 DEF Has
<1> QED
  BY <1>2, <1>3, <1>4 DEF Has, p

\* nghttp2 leaves all streams where they are.
Quiet == \A s \in Streams : st'[s] = st[s] /\ (Ended(s)' <=> Ended(s))

OthersQuiet(s) == \A r \in Streams \ {s} : st'[r] = st[r] /\ (Ended(r)' <=> Ended(r))

\* Content of s arrives, its last frame arrives, or it is closed.
GrowsStream(s) == st[s] \in {"idle", "open"} /\ st'[s] = "open" /\ ~Ended(s) /\ ~Ended(s)' /\ OthersQuiet(s)
EndsStream(s) == st[s] \in {"idle", "open"} /\ st'[s] = "half" /\ ~Ended(s) /\ Ended(s)' /\ OthersQuiet(s)
ClosesStream(s) ==
  /\ st[s] # "closed" /\ st'[s] \in {"closing", "closed"} /\ (Ended(s)' <=> Ended(s))
  /\ OthersQuiet(s)

StreamMoves == Quiet \/ \E s \in Streams : GrowsStream(s) \/ EndsStream(s) \/ ClosesStream(s)

LEMMA NotEnded ==
  ASSUME EventsInv, NEW s \in Streams, st[s] \in {"idle", "open"}
  PROVE  ~Ended(s)
  BY DEF EventsInv, StreamInv, EventInv, StateInv, Ended, Has, Is, Mentions

LEMMA CloseMoves ==
  ASSUME EventsInv, NEW s \in Streams, phase # "events", phase' = phase,
         st[s] \in {"open", "half", "closing"}, Close(s)
  PROVE  ClosesStream(s)
<1>1. Event("close", s, 0) \in EventSet /\ ~\E r : Is(Event("close", s, 0), "end", r)
  BY EventInSet DEF EventTypes, Event, Is
<1>2. events \in Seq(EventSet) /\ st \in [Streams -> {"idle", "open", "half", "closing", "closed"}]
  BY DEF EventsInv, H2TypeOK
<1>3. Todo = events /\ Todo' = Append(events, Event("close", s, 0)) /\ st' = [st EXCEPT ![s] = "closed"]
  BY DEF Todo, Close
<1>4. \A r : Ended(r)' <=> Ended(r)
  BY <1>1, <1>2, <1>3, HasAppend DEF Ended
<1> QED
  BY <1>2, <1>3, <1>4 DEF ClosesStream, OthersQuiet

LEMMA RecvMoves ==
  ASSUME EventsInv, RecvNext
  PROVE  /\ StreamMoves
         /\ UNCHANGED <<backend, reqs, body, wire, streams, data>>
         /\ reqs = <<>>
<1> USE DEF connState
<1>t1. /\ st \in [Streams -> {"idle", "open", "half", "closing", "closed"}] /\ count \in [Streams -> Nat]
       /\ events \in Seq(EventSet) /\ H2TypeOK
  BY DEF EventsInv, H2TypeOK
<1>t2. \A s \in Streams : Event("end", s, 0) \in EventSet /\ \A r : Is(Event("end", s, 0), "end", r) <=> r = s
  BY EventInSet DEF EventTypes, Event, Is
<1>1. CASE ReadBegin
  BY <1>1 DEF ReadBegin, Todo, StreamMoves, Quiet, Ended, EventsInv, PhaseInv
<1>2. CASE ConnLost
  BY <1>2 DEF ConnLost, Todo, StreamMoves, Quiet, Ended, EventsInv, PhaseInv
<1>3. CASE FrameWindow
  BY <1>3 DEF FrameWindow, Todo, StreamMoves, Quiet, Ended, EventsInv, PhaseInv
<1>4. CASE FrameFatal
  BY <1>4 DEF FrameFatal, Todo, StreamMoves, Quiet, Ended, EventsInv, PhaseInv
<1>5. CASE ReadEnd
  BY <1>5 DEF ReadEnd, Todo, StreamMoves, Quiet, Ended, EventsInv, PhaseInv
<1>6. CASE ReadFails
  <2>1. Todo = events /\ Todo' = events' /\ UNCHANGED <<st, connState>> /\ phase = "recv"
    BY <1>6 DEF ReadFails, Todo
  <2>2. CASE UNCHANGED events
    BY <2>1, <2>2 DEF StreamMoves, Quiet, Ended, EventsInv, PhaseInv
  <2>3. CASE events' = [i \in 1..Len(events) |->
                          IF events[i].type = "data" THEN [events[i] EXCEPT !.n = Stale(@)] ELSE events[i]]
    <3>1. \A e \in EventSet : LET f == [e EXCEPT !.n = Stale(@)] IN f.id = e.id /\ f.type = e.type
      BY DEF EventSet
    <3>2. \A i \in 1..Len(events) : events'[i].id = events[i].id /\ events'[i].type = events[i].type
      BY <2>3, <3>1, <1>t1
    <3>3. Len(events') = Len(events)
      BY <2>3, <1>t1
    <3>4. \A s : Ended(s)' <=> Ended(s)
      BY <2>1, <3>2, <3>3 DEF Ended, Has, Is
    <3> QED
      BY <2>1, <3>4 DEF StreamMoves, Quiet, EventsInv, PhaseInv
  <2> QED
    BY <1>6, <2>2, <2>3 DEF ReadFails
<1>7. ASSUME NEW s \in Streams, NEW type \in {"header", "data"}, NEW end \in BOOLEAN, FrameRecv(s, type, end)
      PROVE  StreamMoves /\ UNCHANGED connState /\ phase = "recv"
  <2> DEFINE e == Event(type, s, count[s] + 1)
             f == Event("end", s, 0)
             one == Append(events, e)
  <2>1. /\ e \in EventSet /\ Content(e, s) /\ one \in Seq(EventSet)
        /\ events' = IF end THEN Append(one, f) ELSE one
    BY <1>7, <1>t1, EmitEvents DEF FrameRecv
  <2>2. /\ st' = [st EXCEPT ![s] = IF end THEN "half" ELSE "open"]
        /\ st[s] \in {"idle", "open"} /\ Todo = events /\ Todo' = events'
        /\ UNCHANGED connState /\ phase = "recv"
    BY <1>7 DEF FrameRecv, MayOpen, Todo
  <2> HIDE DEF e, f
  <2>3. \A r : Has(one, "end", r) <=> Ended(r)
    <3>1. \A r : ~Is(e, "end", r)
      BY <2>1 DEF Content, Is
    <3> QED
      BY <2>1, <2>2, <3>1, <1>t1, HasAppend DEF Ended
  <2>4. ~Ended(s)
    BY <2>2, NotEnded
  <2>5. CASE end
    <3>1. \A r : Ended(r)' <=> Ended(r) \/ r = s
      BY <2>1, <2>2, <2>3, <2>5, <1>t2, HasAppend DEF Ended, f
    <3>2. EndsStream(s)
      BY <2>2, <2>4, <2>5, <3>1, <1>t1 DEF EndsStream, OthersQuiet
    <3> QED
      BY <2>2, <3>2 DEF StreamMoves
  <2>6. CASE ~end
    <3>1. \A r : Ended(r)' <=> Ended(r)
      BY <2>1, <2>2, <2>3, <2>6 DEF Ended
    <3>2. GrowsStream(s)
      BY <2>2, <2>4, <2>6, <3>1, <1>t1 DEF GrowsStream, OthersQuiet
    <3> QED
      BY <2>2, <3>2 DEF StreamMoves
  <2> QED
    BY <2>5, <2>6
<1>8. ASSUME NEW s \in Streams, FrameEnd(s)
      PROVE  StreamMoves /\ UNCHANGED connState /\ phase = "recv"
  <2>1. /\ st[s] = "open" /\ st' = [st EXCEPT ![s] = "half"] /\ UNCHANGED connState /\ phase = "recv"
        /\ Todo = events /\ Todo' = Append(events, Event("end", s, 0))
    BY <1>8 DEF FrameEnd, Todo
  <2>2. \A r : Ended(r)' <=> Ended(r) \/ r = s
    BY <2>1, <1>t1, <1>t2, HasAppend DEF Ended
  <2>3. ~Ended(s)
    BY <2>1, NotEnded
  <2>4. EndsStream(s)
    BY <2>1, <2>2, <2>3, <1>t1 DEF EndsStream, OthersQuiet
  <2> QED
    BY <2>1, <2>4 DEF StreamMoves
<1>9. ASSUME NEW s \in Streams, FrameMalformed(s)
      PROVE  StreamMoves /\ UNCHANGED connState /\ phase = "recv"
  <2>1. /\ st' = [st EXCEPT ![s] = "closing"] /\ UNCHANGED connState /\ phase = "recv"
        /\ st[s] \in {"idle", "open", "half"} /\ Todo = events /\ Todo' = events'
    BY <1>9 DEF FrameMalformed, MayOpen, Todo
  <2>2. \A r : Ended(r)' <=> Ended(r)
    <3>1. CASE UNCHANGED events
      BY <2>1, <3>1 DEF Ended
    <3>2. ASSUME NEW type \in {"header", "data"}, Emit(s, type, FALSE)
          PROVE  \A r : Ended(r)' <=> Ended(r)
      <4> DEFINE e == Event(type, s, count[s] + 1)
      <4>1. e \in EventSet /\ Content(e, s) /\ events' = Append(events, e)
        BY <3>2, <1>t1, EmitEvents
      <4> HIDE DEF e
      <4>2. \A r : ~Is(e, "end", r)
        BY <4>1 DEF Content, Is
      <4> QED
        BY <2>1, <4>1, <4>2, <1>t1, HasAppend DEF Ended
    <3> QED
      BY <1>9, <3>1, <3>2 DEF FrameMalformed
  <2>3. ClosesStream(s)
    BY <2>1, <2>2, <1>t1 DEF ClosesStream, OthersQuiet
  <2> QED
    BY <2>1, <2>3 DEF StreamMoves
<1>10. ASSUME NEW s \in Streams, FrameRefused(s)
       PROVE  StreamMoves /\ UNCHANGED connState /\ phase = "recv"
  <2>1. /\ st[s] = "idle" /\ st' = [st EXCEPT ![s] = "closed"] /\ UNCHANGED connState /\ phase = "recv"
        /\ Todo' = Todo
    BY <1>10 DEF FrameRefused, Todo
  <2>2. ClosesStream(s)
    BY <2>1, <1>t1 DEF ClosesStream, OthersQuiet, Ended
  <2> QED
    BY <2>1, <2>2 DEF StreamMoves
<1>11. ASSUME NEW s \in Streams, FrameRst(s)
       PROVE  StreamMoves /\ UNCHANGED connState /\ phase = "recv"
  BY <1>11, CloseMoves DEF FrameRst, Close, Live, StreamMoves
<1>12. phase \in {"idle", "recv"} => reqs = <<>>
  BY DEF EventsInv, PhaseInv
<1> QED
  BY <1>1, <1>2, <1>3, <1>4, <1>5, <1>6, <1>7, <1>8, <1>9, <1>10, <1>11, <1>12 DEF RecvNext

LEMMA RequestTypes ==
  ASSUME H2TypeOK
  PROVE  /\ reqs \in Seq(Requests) /\ Len(reqs) \in Nat
         /\ \A i \in 1..Len(reqs) : reqs[i].id \in Streams /\ reqs[i].content \in Seq(Int)
<1>1. reqs \in Seq(Requests)
  BY DEF H2TypeOK, Requests
<1>2. \A r \in Requests : r.id \in Streams /\ r.content \in Seq(Int)
  BY DEF Requests
<1> QED
  BY <1>1, <1>2

LEMMA RecvRequests == EventsInv /\ ReqsInv /\ BodyInv /\ RecvNext => (ReqsInv /\ BodyInv)'
<1> SUFFICES ASSUME EventsInv, ReqsInv, BodyInv, RecvNext PROVE (ReqsInv /\ BodyInv)'
  OBVIOUS
<1>1. StreamMoves /\ UNCHANGED <<reqs, body>> /\ reqs = <<>> /\ Len(reqs) = 0
  BY RecvMoves
<1>2. ReqsInv'
  BY <1>1 DEF ReqsInv, RequestExact
<1>3. phase' \notin {"data", "trailers", "sent"}
  BY <1>1, EventsStep DEF EventsInv, PhaseInv, H2Next
<1>4. ASSUME NEW s \in Streams
      PROVE  /\ Ended(s)' \/ st'[s] \in {"idle", "open"} => body[s] = NoBody
             /\ st'[s] = "half" => Ended(s)' \/ body[s] # NoBody
  <2>1. /\ Ended(s) \/ st[s] \in {"idle", "open"} => body[s] = NoBody
        /\ st[s] = "half" => Ended(s) \/ body[s] # NoBody
    BY <1>1 DEF BodyInv, InReqs
  <2>2. CASE st'[s] = st[s] /\ (Ended(s)' <=> Ended(s))
    BY <2>1, <2>2
  <2>3. CASE GrowsStream(s)
    BY <2>1, <2>3 DEF GrowsStream
  <2>4. CASE EndsStream(s)
    BY <2>1, <2>4 DEF EndsStream
  <2>5. CASE ClosesStream(s)
    BY <2>1, <2>5 DEF ClosesStream
  <2> QED
    BY <1>1, <2>2, <2>3, <2>4, <2>5 DEF StreamMoves, Quiet, GrowsStream, EndsStream, ClosesStream, OthersQuiet
<1>5. BodyInv'
  BY <1>1, <1>3, <1>4 DEF BodyInv
<1> QED
  BY <1>2, <1>5

\* Steps that leave the streams and their events alone.
LEMMA IdleStreams ==
  ASSUME EventsInv, ReqsInv, UNCHANGED <<backend, st, count, reqs>>, Todo' = Todo
  PROVE  ReqsInv' /\ \A s \in Streams : (Ended(s)' <=> Ended(s)) /\ (InReqs(s)' <=> InReqs(s))
  BY DEF ReqsInv, RequestExact, Ended, InReqs

\* A request is put in front of the others.
LEMMA ReqsFront ==
  ASSUME H2TypeOK, NEW x \in Requests, reqs' = <<x>> \o reqs
  PROVE  /\ Len(reqs) \in Nat /\ Len(reqs') = Len(reqs) + 1 /\ reqs'[1] = x
         /\ \A i \in 1..Len(reqs') : i = 1 \/ (i - 1 \in 1..Len(reqs) /\ reqs'[i] = reqs[i - 1])
         /\ \A s : InReqs(s)' <=> InReqs(s) \/ s = x.id
<1>1. reqs \in Seq(Requests) /\ Len(reqs) \in Nat
  BY RequestTypes
<1>2. /\ Len(reqs') = Len(reqs) + 1 /\ reqs'[1] = x
      /\ \A i \in 1..Len(reqs) : reqs'[i + 1] = reqs[i]
  BY <1>1
<1>3. \A i \in 1..Len(reqs') : i = 1 \/ (i - 1 \in 1..Len(reqs) /\ reqs'[i] = reqs[i - 1])
  BY <1>1
<1>4. ASSUME NEW s, InReqs(s)' PROVE InReqs(s) \/ s = x.id
  BY <1>2, <1>3, <1>4 DEF InReqs
<1>5. ASSUME NEW s, InReqs(s) PROVE InReqs(s)'
  <2>1. PICK i \in 1..Len(reqs) : reqs[i].id = s
    BY <1>5 DEF InReqs
  <2>2. i + 1 \in 1..Len(reqs') /\ reqs'[i + 1].id = s
    BY <2>1, <1>1, <1>2
  <2> QED
    BY <2>2 DEF InReqs
<1>6. InReqs(x.id)'
  BY <1>1, <1>2 DEF InReqs
<1> QED
  BY <1>1, <1>2, <1>3, <1>4, <1>5, <1>6

LEMMA HandleRequests == EventsInv /\ ReqsInv /\ BodyInv /\ HandleEvent => (ReqsInv /\ BodyInv)'
<1> SUFFICES ASSUME EventsInv, ReqsInv, BodyInv, HandleEvent PROVE (ReqsInv /\ BodyInv)'
  OBVIOUS
<1>1. /\ Todo # <<>> /\ Todo \in Seq(EventSet) /\ Todo' = Tail(Todo)
      /\ UNCHANGED <<backend, phase, st, count, body>> /\ phase = "events"
      /\ Head(Todo).id \in Streams
  BY HandleCases DEF EventsInv, HandleEvent
<1>2. PICK e : e = Head(Todo)
  OBVIOUS
<1>3. \A s : Ended(s) <=> Is(e, "end", s) \/ Ended(s)'
  BY <1>1, <1>2, HasTail DEF Ended
<1>4. CASE UNCHANGED reqs /\ ~Is(e, "end", e.id)
  <2>1. \A s : (Ended(s)' <=> Ended(s)) /\ (InReqs(s)' <=> InReqs(s))
    BY <1>3, <1>4 DEF Is, InReqs
  <2> QED
    BY <1>1, <1>4, <2>1 DEF ReqsInv, RequestExact, BodyInv
<1>5. CASE Is(e, "end", e.id) /\ reqs' = <<[id |-> e.id, content |-> Got(streams[e.id])]>> \o reqs
  <2> DEFINE x == [id |-> e.id, content |-> Got(streams[e.id])]
  <2>1. streams[e.id] \in Seq(Int) /\ count[e.id] \in Nat
    BY <1>1, <1>2 DEF EventsInv, H2TypeOK
  <2>2. /\ Len(Got(streams[e.id])) = count[e.id] /\ Exact(Got(streams[e.id]), backend)
        /\ ~Has(Tail(Todo), "end", e.id) /\ st[e.id] \notin {"idle", "open"}
    <3>1. EventInv(Todo, e.id, st[e.id], streams[e.id], count[e.id], backend)
      BY <1>1, <1>2 DEF EventsInv, StreamInv
    <3> QED
      BY <1>1, <1>2, <1>5, <2>1, <3>1, EndHandled
  <2>3. st[e.id] \in {"half", "closing", "closed"} /\ ~Ended(e.id)' /\ Ended(e.id)
    BY <1>1, <1>2, <1>3, <1>5, <2>2 DEF EventsInv, H2TypeOK, Ended
  <2>4. x \in Requests /\ x.id = e.id /\ x.content = Got(streams[e.id])
    BY <1>1, <1>2, <2>1 DEF Requests, Got
  <2> HIDE DEF x
  <2>5. /\ Len(reqs) \in Nat /\ Len(reqs') = Len(reqs) + 1 /\ reqs'[1] = x
        /\ \A i \in 1..Len(reqs') : i = 1 \/ (i - 1 \in 1..Len(reqs) /\ reqs'[i] = reqs[i - 1])
        /\ \A s : InReqs(s)' <=> InReqs(s) \/ s = e.id
    BY <1>5, <2>4, ReqsFront DEF x, EventsInv
  <2>7. \A i \in 1..Len(reqs) : reqs[i].id # e.id
    BY <2>3 DEF ReqsInv
  <2>9. RequestExact'
    <3> SUFFICES ASSUME NEW i \in 1..Len(reqs')
                 PROVE  /\ Len(reqs'[i].content) = count[reqs'[i].id]
                        /\ \A k \in 1..Len(reqs'[i].content) :
                             reqs'[i].content[k] = k \/ (backend = "uv" /\ reqs'[i].content[k] = Stale(k))
      BY <1>1 DEF RequestExact
    <3>1. CASE i = 1
      BY <3>1, <2>2, <2>4, <2>5 DEF Exact
    <3>2. CASE i # 1
      BY <3>2, <2>5 DEF ReqsInv, RequestExact
    <3> QED
      BY <3>1, <3>2
  <2>10. \A i, j \in 1..Len(reqs') : i # j => reqs'[i].id # reqs'[j].id
    <3> SUFFICES ASSUME NEW i \in 1..Len(reqs'), NEW j \in 1..Len(reqs'), i # j
                 PROVE  reqs'[i].id # reqs'[j].id
      OBVIOUS
    <3>1. CASE i = 1
      BY <3>1, <2>4, <2>5, <2>7, <2>5
    <3>2. CASE j = 1
      BY <3>2, <2>4, <2>5, <2>7, <2>5
    <3>3. CASE i # 1 /\ j # 1
      <4>1. i - 1 # j - 1
        BY <2>5
      <4> QED
        BY <3>3, <4>1, <2>5 DEF ReqsInv
    <3> QED
      BY <3>1, <3>2, <3>3
  <2>11. \A i \in 1..Len(reqs') : st[reqs'[i].id] \in {"half", "closing", "closed"} /\ ~Has(Todo', "end", reqs'[i].id)
    <3>1. ~Has(Todo', "end", e.id)
      BY <2>3 DEF Ended
    <3>2. \A i \in 1..Len(reqs) : st[reqs[i].id] \in {"half", "closing", "closed"} /\ ~Has(Todo', "end", reqs[i].id)
      BY <1>3 DEF ReqsInv, Ended
    <3> QED
      BY <3>1, <3>2, <2>3, <2>4, <2>5
  <2>12. ReqsInv'
    BY <1>1, <2>9, <2>10, <2>11 DEF ReqsInv, Ended
  <2>13. \A i \in 1..Len(reqs') : body[reqs'[i].id] = NoBody
    BY <1>1, <1>2, <2>3, <2>4, <2>5 DEF BodyInv
  <2>15. BodyInv'
    BY <1>1, <1>3, <2>13, <2>5 DEF BodyInv, Is
  <2> QED
    BY <2>12, <2>15
<1> QED
  BY <1>2, <1>4, <1>5, HandleCases DEF EventsInv, Is, Content

\* A frame of the queue goes out or is dropped: at most its stream is closed.
LEMMA SendMoves ==
  ASSUME EventsInv, SendQueued
  PROVE  /\ Quiet \/ \E s \in Streams : ClosesStream(s)
         /\ UNCHANGED <<backend, phase, count, reqs, body, streams>>
<1>1. /\ phase # "events" /\ phase' = phase /\ UNCHANGED <<backend, phase, count, reqs, body, streams>>
  BY DEF SendQueued, Buffering
<1>2. CASE UNCHANGED <<st, events>>
  BY <1>1, <1>2 DEF Todo, Quiet, Ended
<1>3. CASE Close(Head(queue).id) /\ st[Head(queue).id] \in {"half", "closing"}
  <2>1. Head(queue).id \in Streams
    BY TailOfEvents, EventFields DEF SendQueued, EventsInv, H2TypeOK
  <2> QED
    BY <1>1, <1>3, <2>1, CloseMoves
<1> QED
  BY <1>1, <1>2, <1>3 DEF SendQueued

LEMMA SendRequests == EventsInv /\ ReqsInv /\ BodyInv /\ SendQueued => (ReqsInv /\ BodyInv)'
<1> SUFFICES ASSUME EventsInv, ReqsInv, BodyInv, SendQueued PROVE (ReqsInv /\ BodyInv)'
  OBVIOUS
<1>1. /\ \A s \in Streams : /\ Ended(s)' <=> Ended(s)
                            /\ st'[s] = st[s] \/ st'[s] \in {"closing", "closed"}
      /\ UNCHANGED <<backend, phase, count, reqs, body, streams>>
  <2>1. CASE Quiet
    BY <2>1, SendMoves DEF Quiet
  <2>2. ASSUME NEW r \in Streams, ClosesStream(r), NEW s \in Streams
        PROVE  (Ended(s)' <=> Ended(s)) /\ (st'[s] = st[s] \/ st'[s] \in {"closing", "closed"})
    <3>1. CASE s = r
      BY <2>2, <3>1 DEF ClosesStream
    <3>2. CASE s # r
      BY <2>2, <3>2 DEF ClosesStream, OthersQuiet
    <3> QED
      BY <3>1, <3>2
  <2> QED
    BY <2>1, <2>2, SendMoves
<1>2. \A i \in 1..Len(reqs) : reqs[i].id \in Streams
  BY RequestTypes DEF EventsInv
<1>3. RequestExact'
  BY <1>1 DEF ReqsInv, RequestExact
<1>4. ReqsInv'
  <2>1. \A s \in Streams : Has(Todo', "end", s) <=> Has(Todo, "end", s)
    BY <1>1 DEF Ended
  <2>2. \A i \in 1..Len(reqs) : st'[reqs[i].id] \in {"half", "closing", "closed"} /\ ~Has(Todo', "end", reqs[i].id)
    BY <1>1, <1>2, <2>1 DEF ReqsInv, Ended
  <2> QED
    BY <1>1, <1>3, <2>2 DEF ReqsInv, Ended
<1>5. \A s : InReqs(s)' <=> InReqs(s)
  BY <1>1 DEF InReqs
<1>6. \A s \in Streams : /\ Ended(s)' \/ st'[s] \in {"idle", "open"} => body[s] = NoBody
                         /\ st'[s] = "half" => Ended(s)' \/ InReqs(s)' \/ body[s] # NoBody
  BY <1>1, <1>5 DEF BodyInv
<1>7. BodyInv'
  BY <1>1, <1>6 DEF BodyInv
<1> QED
  BY <1>4, <1>7

LEMMA WriteRequests ==
  EventsInv /\ ReqsInv /\ BodyInv /\ H2Next /\ ~RecvNext /\ ~HandleEvent /\ ~SendQueued
    => (ReqsInv /\ BodyInv)'
<1> SUFFICES ASSUME EventsInv, ReqsInv, BodyInv, H2Next, ~RecvNext, ~HandleEvent, ~SendQueued
             PROVE  (ReqsInv /\ BodyInv)'
  OBVIOUS
<1> USE DEF sessionState
<1>1. CASE EventsEnd
  <2>1. UNCHANGED <<backend, st, count, reqs, body>> /\ Todo' = Todo /\ phase = "events" /\ phase' = "read"
    BY <1>1 DEF EventsEnd, Todo, EventsInv, PhaseInv
  <2> QED
    BY <2>1, IdleStreams DEF BodyInv
<1>2. ASSUME NEW s \in Streams, SendData(s)
      PROVE  (ReqsInv /\ BodyInv)'
  <2>1. UNCHANGED <<backend, st, count, reqs, body, phase>> /\ Todo' = Todo
    BY <1>2 DEF SendData, Todo
  <2> QED
    BY <2>1, IdleStreams DEF BodyInv
<1>3. CASE WriteFails
  <2>1. UNCHANGED <<backend, st, count, reqs, body>> /\ Todo' = Todo /\ phase' = "ended"
    BY <1>3 DEF WriteFails, Todo, Buffering
  <2> QED
    BY <2>1, IdleStreams DEF BodyInv
<1>4. CASE BufferEnd
  <2>1. UNCHANGED <<backend, st, count, body>> /\ Todo' = Todo
    BY <1>4 DEF BufferEnd, Todo, Buffering
  <2>2. CASE phase # "sent"
    <3>1. UNCHANGED reqs
      BY <1>4, <2>2 DEF BufferEnd
    <3>2. (phase = "data" /\ phase' = "trailers") \/ (phase = "read" /\ phase' = "process")
      BY <1>4, <2>2 DEF BufferEnd, Buffering
    <3>3. ReqsInv' /\ \A s \in Streams : (Ended(s)' <=> Ended(s)) /\ (InReqs(s)' <=> InReqs(s))
      BY <2>1, <3>1, IdleStreams
    <3>4. CASE phase = "data" /\ phase' = "trailers"
      BY <2>1, <3>1, <3>3, <3>4 DEF BodyInv
    <3>5. CASE phase = "read" /\ phase' = "process"
      BY <2>1, <3>1, <3>3, <3>5 DEF BodyInv
    <3> QED
      BY <3>2, <3>4, <3>5
  <2>3. CASE phase = "sent"
    <3>1. phase' = "process" /\ reqs' = Tail(reqs) /\ reqs # <<>> /\ body[Head(reqs).id] # NoBody
      BY <1>4, <2>3 DEF BufferEnd, EventsInv, PhaseInv, BodyInv
    <3>2. /\ Len(reqs) \in Nat \ {0} /\ Len(reqs') = Len(reqs) - 1 /\ Head(reqs) = reqs[1]
          /\ \A i \in 1..Len(reqs') : i + 1 \in 2..Len(reqs) /\ reqs'[i] = reqs[i + 1]
          /\ \A i \in 2..Len(reqs) : i - 1 \in 1..Len(reqs') /\ reqs'[i - 1] = reqs[i]
      <4>1. reqs \in Seq(Requests)
        BY RequestTypes DEF EventsInv
      <4> QED
        BY <3>1, <4>1
    <3>3. \A s : Ended(s)' <=> Ended(s)
      BY <2>1 DEF Ended
    <3>4. RequestExact'
      BY <2>1, <3>2 DEF ReqsInv, RequestExact
    <3>5. \A i, j \in 1..Len(reqs') : i # j => reqs'[i].id # reqs'[j].id
      <4> SUFFICES ASSUME NEW i \in 1..Len(reqs'), NEW j \in 1..Len(reqs'), i # j
                   PROVE  reqs'[i].id # reqs'[j].id
        OBVIOUS
      <4>1. i + 1 \in 1..Len(reqs) /\ j + 1 \in 1..Len(reqs) /\ i + 1 # j + 1
        BY <3>2
      <4> QED
        BY <4>1, <3>2 DEF ReqsInv
    <3>6. \A i \in 1..Len(reqs') : st[reqs'[i].id] \in {"half", "closing", "closed"} /\ ~Has(Todo', "end", reqs'[i].id)
      BY <2>1, <3>2 DEF ReqsInv, Ended
    <3>7. ReqsInv'
      BY <2>1, <3>4, <3>5, <3>6 DEF ReqsInv, Ended
    <3>8. \A i \in 1..Len(reqs') : body[reqs'[i].id] = NoBody
      BY <3>2 DEF BodyInv
    <3>9. ASSUME NEW s \in Streams, InReqs(s), body[s] = NoBody PROVE InReqs(s)'
      <4>1. PICK i \in 1..Len(reqs) : reqs[i].id = s
        BY <3>9 DEF InReqs
      <4>2. i \in 2..Len(reqs)
        BY <3>1, <3>2, <3>9, <4>1
      <4> QED
        BY <4>1, <4>2, <3>2 DEF InReqs
    <3>10. BodyInv'
      BY <2>1, <3>1, <3>3, <3>8, <3>9 DEF BodyInv
    <3> QED
      BY <3>7, <3>10
  <2> QED
    BY <2>2, <2>3
<1>5. ASSUME NEW n \in 0..MaxBody, Write(n)
      PROVE  (ReqsInv /\ BodyInv)'
  <2>1. PICK s \in Streams : s = Head(reqs).id /\ s = reqs[1].id /\ Len(reqs) \in Nat \ {0}
    BY <1>5, HeadRequest DEF Write, EventsInv
  <2>2. /\ UNCHANGED <<backend, st, count, reqs>> /\ phase = "process"
        /\ body' = [body EXCEPT ![s] = n] /\ phase' \in {"data", "terminated", "thrown"}
    BY <1>5, <2>1 DEF Write, SubmitData, Thrown
  <2>3. Todo' = Todo
    BY <1>5, <2>2 DEF Write, Todo
  <2>4. ReqsInv' /\ \A r \in Streams : (Ended(r)' <=> Ended(r)) /\ (InReqs(r)' <=> InReqs(r))
    BY <2>2, <2>3, IdleStreams
  <2>5. body'[s] = n /\ n # NoBody /\ \A r \in Streams \ {s} : body'[r] = body[r]
    BY <2>2, H2Assumption DEF EventsInv, H2TypeOK, NoBody
  <2>6. \A i \in 1..Len(reqs) : reqs[i].id \in Streams /\ (i > 1 => reqs[i].id # s)
    BY <2>1, RequestTypes DEF ReqsInv, EventsInv
  <2>7. st[s] \in {"half", "closing", "closed"} /\ ~Ended(s)
    BY <2>1 DEF ReqsInv
  <2> QED
    BY <2>1, <2>2, <2>4, <2>5, <2>6, <2>7 DEF BodyInv
<1>6. CASE WriteTrailers
  <2>1. UNCHANGED <<backend, st, count, reqs, body>> /\ Todo' = Todo /\ phase = "trailers" /\ phase' = "sent"
    BY <1>6 DEF WriteTrailers, Todo
  <2> QED
    BY <2>1, IdleStreams DEF BodyInv
<1>7. CASE ProcessEnd
  <2>1. UNCHANGED <<backend, st, count, reqs, body>> /\ Todo' = Todo /\ phase = "process" /\ phase' = "idle"
    BY <1>7 DEF ProcessEnd, Todo
  <2> QED
    BY <2>1, IdleStreams DEF BodyInv
<1> QED
  BY <1>1, <1>2, <1>3, <1>4, <1>5, <1>6, <1>7 DEF H2Next

RequestInv == EventsInv /\ ReqsInv /\ BodyInv

LEMMA RequestStep == RequestInv /\ [H2Next]_h2Vars => RequestInv'
<1> SUFFICES ASSUME RequestInv, [H2Next]_h2Vars PROVE RequestInv'
  OBVIOUS
<1>1. EventsInv'
  BY EventsStep DEF RequestInv
<1>2. CASE H2Next
  BY <1>1, <1>2, RecvRequests, HandleRequests, SendRequests, WriteRequests DEF RequestInv
<1>3. CASE UNCHANGED h2Vars
  <2>1. UNCHANGED <<backend, st, count, reqs, body, phase>> /\ Todo' = Todo
    BY <1>3 DEF h2Vars, Todo
  <2>2. (ReqsInv /\ BodyInv)'
    BY <2>1, IdleStreams DEF RequestInv, BodyInv
  <2> QED
    BY <1>1, <2>2 DEF RequestInv
<1> QED
  BY <1>2, <1>3

LEMMA RequestInvariant == H2Spec => []RequestInv
<1>1. H2Init => RequestInv
  <2> SUFFICES ASSUME H2Init PROVE RequestInv
    OBVIOUS
  <2>1. EventsInv
    BY InitTypes, InitStreams DEF EventsInv
  <2>2. reqs = <<>> /\ Len(reqs) = 0 /\ phase = "idle"
    BY DEF H2Init
  <2>3. ReqsInv
    BY <2>2 DEF ReqsInv, RequestExact
  <2>4. BodyInv
    BY <2>2 DEF H2Init, BodyInv
  <2> QED
    BY <2>1, <2>3, <2>4 DEF RequestInv
<1> QED
  BY <1>1, RequestStep, PTL DEF H2Spec

\* A request that goes to process() has what the client sent on its stream, all
\* of it and in order.
THEOREM RequestsExact == H2Spec => []RequestExact
<1>1. RequestInv => RequestExact
  BY DEF RequestInv, ReqsInv
<1> QED
  BY <1>1, RequestInvariant, PTL
-----------------------------------------------------------------------------
(* Refinement of Calls.                                                    *)

\* The state of the call on s, as the refinement mapping has it.
CallOf(s) ==
  IF Waiting(s) THEN "complete"
  ELSE IF body[s] # NoBody THEN "processed"
  ELSE IF st[s] \in {"closing", "closed"} THEN "dropped" ELSE "open"

LEMMA OneCall ==
  ASSUME NEW s \in Streams, \A r \in Streams \ {s} : CallOf(r)' = CallOf(r)
  PROVE  /\ CallOf(s) = "open" /\ CallOf(s)' = "complete" => Abstract!Finish(s)
         /\ CallOf(s) = "open" /\ CallOf(s)' = "dropped" => Abstract!Drop(s)
         /\ CallOf(s) = "complete" /\ CallOf(s)' = "processed" => Abstract!Process(s)
  BY DEF CallOf, Abstract!Finish, Abstract!Drop, Abstract!Process, Abstract!Becomes

\* Which calls are complete, in terms of the invariant.
LEMMA WaitingMeans ==
  RequestInv => \A c \in Streams : Waiting(c) <=> Ended(c) \/ (InReqs(c) /\ body[c] = NoBody)
<1> SUFFICES ASSUME RequestInv, NEW s \in Streams
             PROVE  Waiting(s) <=> Ended(s) \/ (InReqs(s) /\ body[s] = NoBody)
  OBVIOUS
<1>1. Ended(s) <=> \/ Pending("end", s)
                   \/ \E i \in 1..Len(evs) : evs[i].type = "end" /\ evs[i].id = s
  <2>1. CASE phase = "events"
    <3>1. Todo = evs /\ Len(events) = 0
      BY <2>1 DEF RequestInv, EventsInv, PhaseInv, Todo
    <3> QED
      BY <3>1 DEF Ended, Has, Is, Pending
  <2>2. CASE phase # "events"
    <3>1. Todo = events /\ Len(evs) = 0
      BY <2>2 DEF RequestInv, EventsInv, PhaseInv, Todo
    <3> QED
      BY <3>1 DEF Ended, Has, Is, Pending
  <2> QED
    BY <2>1, <2>2
<1>2. (\E i \in 1..Len(reqs) :
         reqs[i].id = s /\ (i > 1 \/ body[s] = NoBody \/ phase \in {"events", "read", "process"}))
      <=> InReqs(s) /\ body[s] = NoBody
  BY DEF RequestInv, BodyInv, InReqs
<1> QED
  BY <1>1, <1>2 DEF Waiting

\* One stream moves and the answers stay: the call of that stream is finished or
\* dropped, or nothing changes.
LEMMA MovesCalls ==
  ASSUME RequestInv, RequestInv', StreamMoves, UNCHANGED <<reqs, body>>
  PROVE  Abstract!CallsNext \/ \A s \in Streams : CallOf(s)' = CallOf(s)
<1>1. \A s : InReqs(s)' <=> InReqs(s)
  BY DEF InReqs
<1>2. ASSUME NEW s \in Streams
      PROVE  /\ Waiting(s) <=> Ended(s) \/ (InReqs(s) /\ body[s] = NoBody)
             /\ Waiting(s)' <=> Ended(s)' \/ (InReqs(s) /\ body[s] = NoBody)
  <2>1. Waiting(s) <=> Ended(s) \/ (InReqs(s) /\ body[s] = NoBody)
    BY WaitingMeans
  <2>2. (\A c \in Streams : Waiting(c) <=> Ended(c) \/ (InReqs(c) /\ body[c] = NoBody))'
    BY WaitingMeans, PTL
  <2> QED
    BY <2>1, <2>2, <1>1
<1>3. ASSUME NEW s \in Streams, st'[s] = st[s], Ended(s)' <=> Ended(s)
      PROVE  CallOf(s)' = CallOf(s)
  BY <1>2, <1>3 DEF CallOf
<1>4. CASE Quiet
  BY <1>3, <1>4 DEF Quiet
<1>5. ASSUME NEW s \in Streams, OthersQuiet(s)
      PROVE  \A r \in Streams \ {s} : CallOf(r)' = CallOf(r)
  BY <1>3, <1>5 DEF OthersQuiet
<1>6. ASSUME NEW s \in Streams, GrowsStream(s)
      PROVE  \A r \in Streams : CallOf(r)' = CallOf(r)
  <2>1. CallOf(s)' = CallOf(s)
    BY <1>2, <1>6 DEF GrowsStream, CallOf
  <2> QED
    BY <1>5, <1>6, <2>1 DEF GrowsStream
<1>7. ASSUME NEW s \in Streams, EndsStream(s)
      PROVE  Abstract!CallsNext
  <2>1. ~InReqs(s) /\ body[s] = NoBody
    BY <1>7 DEF EndsStream, RequestInv, ReqsInv, BodyInv, InReqs
  <2>2. CallOf(s) = "open" /\ CallOf(s)' = "complete"
    BY <1>2, <1>7, <2>1 DEF EndsStream, CallOf
  <2> QED
    BY <1>5, <1>7, <2>2, OneCall DEF EndsStream, Abstract!CallsNext
<1>8. ASSUME NEW s \in Streams, ClosesStream(s)
      PROVE  Abstract!CallsNext \/ \A r \in Streams : CallOf(r)' = CallOf(r)
  <2>1. \A r \in Streams \ {s} : CallOf(r)' = CallOf(r)
    BY <1>5, <1>8 DEF ClosesStream
  <2>2. CASE Waiting(s) \/ body[s] # NoBody \/ st[s] = "closing"
    <3>1. CallOf(s)' = CallOf(s)
      BY <1>2, <1>8, <2>2 DEF ClosesStream, CallOf
    <3> QED
      BY <2>1, <3>1
  <2>3. CASE ~Waiting(s) /\ body[s] = NoBody /\ st[s] # "closing"
    <3>1. st[s] \in {"idle", "open"}
      BY <1>2, <1>8, <2>3 DEF ClosesStream, RequestInv, BodyInv, EventsInv, H2TypeOK
    <3>2. CallOf(s) = "open" /\ CallOf(s)' = "dropped"
      BY <1>2, <1>8, <2>3, <3>1 DEF ClosesStream, CallOf
    <3> QED
      BY <2>1, <3>2, OneCall DEF Abstract!CallsNext
  <2> QED
    BY <2>2, <2>3
<1> QED
  BY <1>4, <1>6, <1>7, <1>8 DEF StreamMoves

\* conn::read handles an event: no call changes.
LEMMA HandleCalls ==
  ASSUME RequestInv, RequestInv', HandleEvent, NEW s \in Streams
  PROVE  CallOf(s)' = CallOf(s)
<1>1. /\ Todo # <<>> /\ Todo \in Seq(EventSet) /\ Todo' = Tail(Todo)
      /\ UNCHANGED <<st, count, body>> /\ H2TypeOK /\ PhaseInv
      /\ Head(Todo).id \in Streams
  BY HandleCases DEF RequestInv, EventsInv
<1>2. PICK e : e = Head(Todo)
  OBVIOUS
<1>3. Ended(s) <=> Is(e, "end", s) \/ Ended(s)'
  BY <1>1, <1>2, HasTail DEF Ended
<1>4. /\ Waiting(s) <=> Ended(s) \/ (InReqs(s) /\ body[s] = NoBody)
      /\ Waiting(s)' <=> Ended(s)' \/ (InReqs(s)' /\ body[s] = NoBody)
  <2>1. Waiting(s) <=> Ended(s) \/ (InReqs(s) /\ body[s] = NoBody)
    BY WaitingMeans
  <2>2. (\A c \in Streams : Waiting(c) <=> Ended(c) \/ (InReqs(c) /\ body[c] = NoBody))'
    BY WaitingMeans, PTL
  <2> QED
    BY <2>1, <2>2, <1>1
<1>5. Waiting(s)' <=> Waiting(s)
  <2>1. CASE UNCHANGED reqs /\ ~Is(e, "end", e.id)
    <3>1. InReqs(s)' <=> InReqs(s)
      BY <2>1 DEF InReqs
    <3> QED
      BY <2>1, <3>1, <1>3, <1>4 DEF Is
  <2>2. CASE Is(e, "end", e.id) /\ reqs' = <<[id |-> e.id, content |-> Got(streams[e.id])]>> \o reqs
    <3> DEFINE x == [id |-> e.id, content |-> Got(streams[e.id])]
    <3>1. x \in Requests /\ x.id = e.id
      BY <1>1, <1>2 DEF Requests, Got, H2TypeOK
    <3> HIDE DEF x
    <3>2. InReqs(s)' <=> InReqs(s) \/ s = e.id
      BY <1>1, <2>2, <3>1, ReqsFront DEF x
    <3>3. Ended(s) => body[s] = NoBody
      BY DEF RequestInv, BodyInv
    <3> QED
      BY <2>2, <3>2, <3>3, <1>3, <1>4 DEF Is
  <2> QED
    BY <1>1, <1>2, <2>1, <2>2, HandleCases DEF Is, Content
<1> QED
  BY <1>1, <1>5 DEF CallOf

\* The answer to the next request goes to the session: its call is processed.
LEMMA WriteCalls ==
  ASSUME RequestInv, RequestInv', NEW n \in 0..MaxBody, Write(n)
  PROVE  Abstract!CallsNext
<1>1. PICK s \in Streams : s = Head(reqs).id /\ s = reqs[1].id /\ Len(reqs) \in Nat \ {0}
  BY HeadRequest DEF Write, RequestInv, EventsInv
<1>2. /\ UNCHANGED <<st, reqs>> /\ body' = [body EXCEPT ![s] = n] /\ phase = "process" /\ Todo' = Todo
  BY <1>1 DEF Write, SubmitData, Thrown, Todo
<1>3. body'[s] = n /\ n # NoBody /\ \A r \in Streams \ {s} : body'[r] = body[r]
  BY <1>2, H2Assumption DEF RequestInv, EventsInv, H2TypeOK, NoBody
<1>4. InReqs(s) /\ body[s] = NoBody /\ ~Ended(s)
  BY <1>1, <1>2 DEF InReqs, RequestInv, BodyInv, ReqsInv
<1>5. \A r : (Ended(r)' <=> Ended(r)) /\ (InReqs(r)' <=> InReqs(r))
  BY <1>2 DEF Ended, InReqs
<1>6. ASSUME NEW r \in Streams
      PROVE  /\ Waiting(r) <=> Ended(r) \/ (InReqs(r) /\ body[r] = NoBody)
             /\ Waiting(r)' <=> Ended(r) \/ (InReqs(r) /\ body'[r] = NoBody)
  <2>1. Waiting(r) <=> Ended(r) \/ (InReqs(r) /\ body[r] = NoBody)
    BY WaitingMeans
  <2>2. (\A c \in Streams : Waiting(c) <=> Ended(c) \/ (InReqs(c) /\ body[c] = NoBody))'
    BY WaitingMeans, PTL
  <2> QED
    BY <2>1, <2>2, <1>5
<1>7. CallOf(s) = "complete" /\ CallOf(s)' = "processed"
  BY <1>3, <1>4, <1>6 DEF CallOf
<1>8. \A r \in Streams \ {s} : CallOf(r)' = CallOf(r)
  BY <1>2, <1>3, <1>6 DEF CallOf
<1> QED
  BY <1>7, <1>8, OneCall DEF Abstract!CallsNext

\* conn::write is done with a request, or goes on with it: no call changes.
LEMMA OtherCalls ==
  ASSUME RequestInv, RequestInv', UNCHANGED <<st, body>>, Todo' = Todo,
         \/ UNCHANGED reqs
         \/ reqs # <<>> /\ reqs' = Tail(reqs) /\ body[Head(reqs).id] # NoBody,
         NEW s \in Streams
  PROVE  CallOf(s)' = CallOf(s)
<1>1. Ended(s)' <=> Ended(s)
  BY DEF Ended
<1>2. InReqs(s)' /\ body[s] = NoBody <=> InReqs(s) /\ body[s] = NoBody
  <2>1. CASE UNCHANGED reqs
    BY <2>1 DEF InReqs
  <2>2. CASE reqs # <<>> /\ reqs' = Tail(reqs) /\ body[Head(reqs).id] # NoBody
    <3>1. /\ Len(reqs) \in Nat \ {0} /\ Len(reqs') = Len(reqs) - 1 /\ Head(reqs) = reqs[1]
          /\ \A i \in 1..Len(reqs') : i + 1 \in 1..Len(reqs) /\ reqs'[i] = reqs[i + 1]
          /\ \A i \in 2..Len(reqs) : i - 1 \in 1..Len(reqs') /\ reqs'[i - 1] = reqs[i]
      <4>1. reqs \in Seq(Requests)
        BY RequestTypes DEF RequestInv, EventsInv
      <4> QED
        BY <2>2, <4>1
    <3>2. InReqs(s)' => InReqs(s)
      BY <3>1 DEF InReqs
    <3>3. ASSUME InReqs(s), body[s] = NoBody PROVE InReqs(s)'
      <4>1. PICK i \in 1..Len(reqs) : reqs[i].id = s
        BY <3>3 DEF InReqs
      <4>2. i # 1
        BY <2>2, <3>1, <3>3, <4>1
      <4>3. i \in 2..Len(reqs)
        BY <4>2, <3>1
      <4> QED
        BY <4>1, <4>3, <3>1 DEF InReqs
    <3> QED
      BY <3>2, <3>3
  <2> QED
    BY <2>1, <2>2
<1>3. Waiting(s) <=> Ended(s) \/ (InReqs(s) /\ body[s] = NoBody)
  BY WaitingMeans
<1>4. (\A c \in Streams : Waiting(c) <=> Ended(c) \/ (InReqs(c) /\ body[c] = NoBody))'
  BY WaitingMeans, PTL
<1>5. Waiting(s)' <=> Waiting(s)
  BY <1>1, <1>2, <1>3, <1>4
<1> QED
  BY <1>5 DEF CallOf

LEMMA CallsStep ==
  ASSUME RequestInv, RequestInv', H2Next
  PROVE  Abstract!CallsNext \/ \A s \in Streams : CallOf(s)' = CallOf(s)
<1> USE DEF sessionState
<1>1. CASE RecvNext
  BY <1>1, RecvMoves, MovesCalls DEF RequestInv
<1>2. CASE HandleEvent
  BY <1>2, HandleCalls
<1>3. CASE SendQueued
  BY <1>3, SendMoves, MovesCalls DEF RequestInv, StreamMoves
<1>4. ASSUME NEW n \in 0..MaxBody, Write(n) PROVE Abstract!CallsNext
  BY <1>4, WriteCalls
<1>5. CASE EventsEnd
  <2>1. UNCHANGED <<st, body, reqs>> /\ Todo' = Todo
    BY <1>5 DEF EventsEnd, Todo, RequestInv, EventsInv, PhaseInv
  <2> QED
    BY <2>1, OtherCalls
<1>6. ASSUME NEW s \in Streams, SendData(s) PROVE \A r \in Streams : CallOf(r)' = CallOf(r)
  <2>1. UNCHANGED <<st, body, reqs>> /\ Todo' = Todo
    BY <1>6 DEF SendData, Todo
  <2> QED
    BY <2>1, OtherCalls
<1>7. CASE WriteFails
  <2>1. UNCHANGED <<st, body, reqs>> /\ Todo' = Todo
    BY <1>7 DEF WriteFails, Todo, Buffering
  <2> QED
    BY <2>1, OtherCalls
<1>8. CASE BufferEnd
  <2>1. UNCHANGED <<st, body>> /\ Todo' = Todo
    BY <1>8 DEF BufferEnd, Todo, Buffering
  <2>2. \/ UNCHANGED reqs
        \/ reqs # <<>> /\ reqs' = Tail(reqs) /\ body[Head(reqs).id] # NoBody
    BY <1>8 DEF BufferEnd, RequestInv, EventsInv, PhaseInv, BodyInv
  <2> QED
    BY <2>1, <2>2, OtherCalls
<1>9. CASE WriteTrailers \/ ProcessEnd
  <2>1. UNCHANGED <<st, body, reqs>> /\ Todo' = Todo
    BY <1>9 DEF WriteTrailers, ProcessEnd, Todo
  <2> QED
    BY <2>1, OtherCalls
<1> QED
  BY <1>1, <1>2, <1>3, <1>4, <1>5, <1>6, <1>7, <1>8, <1>9 DEF H2Next

\* The connection implements Calls: a call is processed at most once, after its
\* last frame; a complete call is not forgotten, whatever becomes of its stream,
\* and one that was reset or refused before never comes back.
THEOREM ConnImplementsCalls == H2Spec => ImplementsCalls
<1>1. H2Init => Abstract!CallsInit
  <2> SUFFICES ASSUME H2Init PROVE Abstract!CallsInit
    OBVIOUS
  <2>1. \A s \in Streams : ~Waiting(s) /\ body[s] = NoBody /\ st[s] = "idle"
    BY DEF H2Init, Waiting, Pending
  <2> QED
    BY <2>1 DEF Abstract!CallsInit
<1> DEFINE Call == [s \in Streams |-> CallOf(s)]
<1>2. ASSUME RequestInv, RequestInv', [H2Next]_h2Vars
      PROVE  Abstract!CallsNext \/ Call' = Call
  <2>1. CASE H2Next
    BY <1>2, <2>1, CallsStep
  <2>2. CASE UNCHANGED h2Vars
    BY <2>2 DEF h2Vars, CallOf, Waiting, Pending
  <2> QED
    BY <1>2, <2>1, <2>2
<1>3. ASSUME RequestInv, RequestInv', [H2Next]_h2Vars
      PROVE  [Abstract!CallsNext]_[s \in Streams |->
               IF Waiting(s) THEN "complete"
               ELSE IF body[s] # NoBody THEN "processed"
               ELSE IF st[s] \in {"closing", "closed"} THEN "dropped" ELSE "open"]
  BY <1>2, <1>3 DEF CallOf
<1> QED
  BY <1>1, <1>3, RequestInvariant, PTL DEF H2Spec, ImplementsCalls, Abstract!CallsSpec
-----------------------------------------------------------------------------
(* Responses.                                                              *)

LEMMA BytesType ==
  ASSUME NEW s \in Streams, NEW m \in Nat, NEW n \in Nat, m <= n
  PROVE  /\ ResponseBytes(s, m, n) \in Seq(EventSet)
         /\ Len(ResponseBytes(s, m, n)) = n - m
         /\ \A i \in 1..(n - m) : ResponseBytes(s, m, n)[i] = Event("data", s, m + i)
<1>1. n - m \in Nat /\ \A i \in 1..(n - m) : Event("data", s, m + i) \in EventSet
  BY EventInSet DEF EventTypes
<1> QED
  BY <1>1 DEF ResponseBytes

LEMMA BegunType ==
  ASSUME NEW s \in Streams, NEW m \in Nat
  PROVE  /\ Begun(s, m) \in Seq(EventSet) /\ Len(Begun(s, m)) = m + 1
         /\ Begun(s, m)[1] = Event("headers", s, 0)
         /\ \A i \in 2..(m + 1) : Begun(s, m)[i] = Event("data", s, i - 1)
<1> DEFINE h == Event("headers", s, 0)
           b == ResponseBytes(s, 0, m)
<1>1. h \in EventSet
  BY EventInSet DEF EventTypes
<1>2. b \in Seq(EventSet) /\ Len(b) = m /\ \A i \in 1..m : b[i] = Event("data", s, i)
  <2>0. PICK z \in Nat : z = 0 /\ z <= m
    OBVIOUS
  <2>1. b \in Seq(EventSet) /\ Len(b) = m - z /\ \A i \in 1..(m - z) : b[i] = Event("data", s, z + i)
    <3>1. b = ResponseBytes(s, z, m)
      BY <2>0
    <3> HIDE DEF b
    <3> QED
      BY <2>0, <3>1, BytesType
  <2>2. m - z = m /\ \A i \in 1..m : z + i = i
    BY <2>0
  <2> QED
    BY <2>1, <2>2
<1> HIDE DEF h, b
<1>3. /\ <<h>> \o b \in Seq(EventSet) /\ Len(<<h>> \o b) = m + 1
      /\ (<<h>> \o b)[1] = h /\ \A i \in 2..(m + 1) : (<<h>> \o b)[i] = b[i - 1]
  BY <1>1, <1>2
<1>4. \A i \in 2..(m + 1) : b[i - 1] = Event("data", s, i - 1)
  BY <1>2
<1> QED
  BY <1>3, <1>4 DEF Begun, h, b

\* read_cb cuts n bytes off what is left of the response.
LEMMA CutBytes ==
  ASSUME NEW s \in Streams, NEW m \in Nat, NEW b \in Nat, m <= b, NEW n \in 0..(b - m)
  PROVE  /\ Begun(s, m) \o SubSeq(ResponseBytes(s, m, b), 1, n) = Begun(s, m + n)
         /\ SubSeq(ResponseBytes(s, m, b), n + 1, b - m) = ResponseBytes(s, m + n, b)
<1> DEFINE q == ResponseBytes(s, m, b)
           x == SubSeq(q, 1, n)
           y == SubSeq(q, n + 1, b - m)
<1>1. q \in Seq(EventSet) /\ Len(q) = b - m /\ \A i \in 1..(b - m) : q[i] = Event("data", s, m + i)
  BY BytesType
<1> HIDE DEF q
<1>2. /\ x \in Seq(EventSet) /\ Len(x) = n /\ \A i \in 1..n : x[i] = q[i]
      /\ y \in Seq(EventSet) /\ Len(y) = b - m - n /\ \A i \in 1..(b - m - n) : y[i] = q[n + i]
  BY <1>1, CutSeq
<1> HIDE DEF x, y
<1>3. Begun(s, m) \o x = Begun(s, m + n)
  <2>1. /\ Begun(s, m) \in Seq(EventSet) /\ Len(Begun(s, m)) = m + 1
        /\ Begun(s, m)[1] = Event("headers", s, 0)
        /\ \A i \in 2..(m + 1) : Begun(s, m)[i] = Event("data", s, i - 1)
    BY BegunType
  <2>2. /\ Begun(s, m + n) \in Seq(EventSet) /\ Len(Begun(s, m + n)) = m + n + 1
        /\ Begun(s, m + n)[1] = Event("headers", s, 0)
        /\ \A i \in 2..(m + n + 1) : Begun(s, m + n)[i] = Event("data", s, i - 1)
    BY BegunType
  <2> DEFINE u == Begun(s, m)
             v == Begun(s, m + n)
  <2> HIDE DEF u, v
  <2>3. /\ u \o x \in Seq(EventSet) /\ Len(u \o x) = m + n + 1
        /\ \A i \in 1..(m + n + 1) : (u \o x)[i] = IF i <= m + 1 THEN u[i] ELSE x[i - (m + 1)]
    <3>1. u \in Seq(EventSet) /\ x \in Seq(EventSet) /\ Len(u) = m + 1 /\ Len(x) = n
      BY <2>1, <1>2 DEF u
    <3>2. /\ u \o x \in Seq(EventSet) /\ Len(u \o x) = Len(u) + Len(x)
          /\ \A i \in 1..(Len(u) + Len(x)) : (u \o x)[i] = IF i <= Len(u) THEN u[i] ELSE x[i - Len(u)]
      BY <3>1, ConcatProperties
    <3>3. (m + 1) + n = m + n + 1
      OBVIOUS
    <3> QED
      BY <3>1, <3>2, <3>3
  <2>4. ASSUME NEW i \in 1..(m + n + 1) PROVE (u \o x)[i] = v[i]
    <3>1. CASE i = 1
      BY <3>1, <2>1, <2>2, <2>3 DEF u, v
    <3>2. CASE i \in 2..(m + 1)
      BY <3>2, <2>1, <2>2, <2>3 DEF u, v
    <3>3. CASE i > m + 1
      <4>1. i - (m + 1) \in 1..n /\ i - (m + 1) \in 1..(b - m) /\ m + (i - (m + 1)) = i - 1
        BY <3>3
      <4>2. (u \o x)[i] = Event("data", s, m + (i - (m + 1)))
        <5>1. (u \o x)[i] = x[i - (m + 1)]
          BY <3>3, <2>3
        <5>2. x[i - (m + 1)] = q[i - (m + 1)]
          BY <4>1, <1>2
        <5> QED
          BY <5>1, <5>2, <4>1, <1>1
      <4> QED
        BY <3>3, <4>1, <4>2, <2>2 DEF v
    <3>4. i = 1 \/ i \in 2..(m + 1) \/ i > m + 1
      OBVIOUS
    <3> QED
      BY <3>1, <3>2, <3>3, <3>4
  <2>5. v \in Seq(EventSet) /\ Len(v) = m + n + 1
    BY <2>2 DEF v
  <2>6. u \o x = v
    BY <2>3, <2>4, <2>5, SeqEqual
  <2> QED
    BY <2>6 DEF u, v
<1>4. y = ResponseBytes(s, m + n, b)
  <2>1. /\ ResponseBytes(s, m + n, b) \in Seq(EventSet) /\ Len(ResponseBytes(s, m + n, b)) = b - (m + n)
        /\ \A i \in 1..(b - (m + n)) : ResponseBytes(s, m + n, b)[i] = Event("data", s, m + n + i)
    <3>1. m + n \in Nat /\ m + n <= b
      OBVIOUS
    <3> QED
      BY <3>1, BytesType
  <2>2. ASSUME NEW i \in 1..(b - m - n) PROVE y[i] = ResponseBytes(s, m + n, b)[i]
    <3>1. n + i \in 1..(b - m) /\ m + (n + i) = m + n + i /\ b - m - n = b - (m + n)
      OBVIOUS
    <3>2. y[i] = Event("data", s, m + (n + i))
      BY <3>1, <1>1, <1>2
    <3> QED
      BY <3>1, <3>2, <2>1
  <2> DEFINE w == ResponseBytes(s, m + n, b)
  <2>3. w \in Seq(EventSet) /\ Len(y) = Len(w) /\ \A i \in 1..Len(y) : y[i] = w[i]
    BY <2>1, <2>2, <1>2
  <2> HIDE DEF w
  <2>4. y = w
    BY <2>3, <1>2, SeqEqual
  <2> QED
    BY <2>4 DEF w
<1> QED
  BY <1>3, <1>4 DEF x, y, q

\* What the parsing of a chunk does to the output: only a malformed frame adds to it.
LEMMA RecvOutput ==
  ASSUME EventsInv, RecvNext
  PROVE  /\ phase \in {"idle", "recv"} /\ phase' \in {"idle", "recv", "events", "ended"}
         /\ items' \subseteq items /\ (goaway => goaway')
         /\ \A s \in Streams : /\ st'[s] = "closing" => st[s] = "closing" \/ Has(queue', "rst", s)
                               /\ Has(queue, "rst", s) => Has(queue', "rst", s)
<1>t1. /\ st \in [Streams -> {"idle", "open", "half", "closing", "closed"}]
       /\ queue \in Seq(EventSet)
  BY DEF EventsInv, H2TypeOK
<1>1. CASE ReadBegin
  BY <1>1 DEF ReadBegin
<1>2. CASE ConnLost
  BY <1>2 DEF ConnLost
<1>3. CASE FrameWindow
  BY <1>3 DEF FrameWindow
<1>4. CASE FrameFatal
  BY <1>4 DEF FrameFatal
<1>5. CASE ReadEnd
  BY <1>5 DEF ReadEnd
<1>6. CASE ReadFails
  BY <1>6 DEF ReadFails
<1>7. ASSUME NEW r \in Streams, NEW type \in {"header", "data"}, NEW end \in BOOLEAN, FrameRecv(r, type, end)
      PROVE  /\ phase = "recv" /\ UNCHANGED <<phase, goaway, items, queue>>
             /\ st' = [st EXCEPT ![r] = IF end THEN "half" ELSE "open"]
  BY <1>7 DEF FrameRecv
<1>8. ASSUME NEW r \in Streams, FrameEnd(r)
      PROVE  /\ phase = "recv" /\ UNCHANGED <<phase, goaway, items, queue>>
             /\ st' = [st EXCEPT ![r] = "half"]
  BY <1>8 DEF FrameEnd
<1>9. ASSUME NEW r \in Streams, FrameMalformed(r)
      PROVE  /\ phase = "recv" /\ UNCHANGED <<phase, goaway, items>>
             /\ \A s \in Streams : /\ st'[s] = "closing" => st[s] = "closing" \/ Has(queue', "rst", s)
                                   /\ Has(queue, "rst", s) => Has(queue', "rst", s)
  <2>1. /\ phase = "recv" /\ UNCHANGED <<phase, goaway, items>>
        /\ st' = [st EXCEPT ![r] = "closing"] /\ queue' = Append(queue, Event("rst", r, 0))
    BY <1>9 DEF FrameMalformed
  <2>2. Event("rst", r, 0) \in EventSet /\ Is(Event("rst", r, 0), "rst", r)
    BY EventInSet DEF EventTypes, Event, Is
  <2>3. \A s : Has(queue', "rst", s) <=> Has(queue, "rst", s) \/ Is(Event("rst", r, 0), "rst", s)
    BY <2>1, <2>2, <1>t1, HasAppend
  <2> QED
    BY <2>1, <2>2, <2>3, <1>t1
<1>10. ASSUME NEW r \in Streams, FrameRefused(r)
       PROVE  /\ phase = "recv" /\ UNCHANGED <<phase, goaway, items, queue>>
              /\ st' = [st EXCEPT ![r] = "closed"]
  BY <1>10 DEF FrameRefused
<1>11. ASSUME NEW r \in Streams, FrameRst(r)
       PROVE  /\ phase = "recv" /\ UNCHANGED <<phase, goaway, queue>> /\ items' = items \ {r}
              /\ st' = [st EXCEPT ![r] = "closed"]
  BY <1>11 DEF FrameRst
<1> QED
  BY <1>1, <1>2, <1>3, <1>4, <1>5, <1>6, <1>7, <1>8, <1>9, <1>10, <1>11, <1>t1 DEF RecvNext

OutputInv == (\A s \in Streams : WireInv(s)) /\ OwnerInv /\ ClosingInv

LEMMA RecvResponses == RequestInv /\ OutputInv /\ RecvNext => OutputInv'
<1> SUFFICES ASSUME RequestInv, OutputInv, RecvNext PROVE OutputInv'
  OBVIOUS
<1>1. StreamMoves /\ UNCHANGED <<reqs, body, wire, data>>
  BY RecvMoves DEF RequestInv
<1>2. /\ phase \in {"idle", "recv"} /\ phase' \in {"idle", "recv", "events", "ended"}
      /\ items' \subseteq items /\ (goaway => goaway')
      /\ \A s \in Streams : /\ st'[s] = "closing" => st[s] = "closing" \/ Has(queue', "rst", s)
                            /\ Has(queue, "rst", s) => Has(queue', "rst", s)
  BY RecvOutput DEF RequestInv
<1>3. \A s \in Streams : /\ st[s] = "closed" => st'[s] = "closed"
                         /\ st'[s] = "half" => st[s] \in {"half", "idle", "open"}
  BY <1>1 DEF StreamMoves, Quiet, GrowsStream, EndsStream, ClosesStream, OthersQuiet
<1>4. \A s \in Streams : WireInv(s)'
  BY <1>1, <1>3 DEF OutputInv, WireInv
<1>5. OwnerInv'
  BY <1>1, <1>2 DEF OutputInv, OwnerInv
<1>6. ClosingInv'
  BY <1>1, <1>2, <1>3 DEF OutputInv, ClosingInv, RequestInv, BodyInv, Down
<1> QED
  BY <1>4, <1>5, <1>6 DEF OutputInv

\* A frame of the queue goes out or is dropped.
LEMMA SendResponses == RequestInv /\ OutputInv /\ SendQueued => OutputInv'
<1> SUFFICES ASSUME RequestInv, OutputInv, SendQueued PROVE OutputInv'
  OBVIOUS
<1> DEFINE f == Head(queue)
<1>t1. /\ st \in [Streams -> {"idle", "open", "half", "closing", "closed"}]
       /\ queue \in Seq(EventSet) /\ items \subseteq Streams /\ wire \in [Streams -> Seq(EventSet)]
       /\ body \in [Streams -> Nat \cup {NoBody}]
  BY DEF RequestInv, EventsInv, H2TypeOK
<1>t2. /\ UNCHANGED <<backend, phase, goaway, window, credit, reqs, data, body>>
       /\ phase \in Buffering /\ queue # <<>> /\ queue' = Tail(queue)
  BY DEF SendQueued
<1>t3. f \in EventSet /\ f.id \in Streams
  BY <1>t1, <1>t2, TailOfEvents, EventFields
<1>t4. \A s \in Streams : Has(queue, "rst", s) => Has(queue', "rst", s) \/ Is(f, "rst", s)
  BY <1>t1, <1>t2, HasTail
<1>1. CASE goaway /\ UNCHANGED <<st, items, wire>>
  BY <1>1, <1>t2 DEF OutputInv, WireInv, OwnerInv, ClosingInv
<1>2. CASE ~goaway /\ phase = "read"
  <2>1. f.type = "rst"
    <3>1. f = queue[1] /\ 1 \in 1..Len(queue)
      BY <1>t1, <1>t2, TailOfEvents
    <3> QED
      BY <1>2, <3>1 DEF RequestInv, EventsInv, PhaseInv
  <2>2. /\ UNCHANGED wire /\ items' \subseteq items
        /\ \/ UNCHANGED st /\ st[f.id] # "closing"
           \/ st' = [st EXCEPT ![f.id] = "closed"]
    BY <1>2, <2>1 DEF SendQueued, Close
  <2>3. \A s \in Streams : /\ st[s] = "closed" => st'[s] = "closed"
                           /\ st'[s] \in {"half", "closing"} => st'[s] = st[s]
                           /\ s = f.id => st'[s] # "closing"
    BY <2>2, <1>t1, <1>t3
  <2>4. \A s \in Streams : WireInv(s)'
    BY <2>2, <2>3, <1>t2 DEF OutputInv, WireInv
  <2>5. OwnerInv'
    BY <1>2, <2>2, <1>t2 DEF OutputInv, OwnerInv
  <2>6. ClosingInv'
    BY <1>2, <2>3, <1>t2, <1>t4 DEF OutputInv, ClosingInv, Is
  <2> QED
    BY <2>4, <2>5, <2>6 DEF OutputInv
<1>3. CASE ~goaway /\ phase = "data"
  <2>1. PICK s \in Streams : s = Head(reqs).id
    BY <1>3, HeadRequest DEF RequestInv, EventsInv, PhaseInv
  <2>2. queue = <<Event("headers", s, 0)>> /\ f = Event("headers", s, 0)
    BY <1>3, <1>t2, <2>1 DEF RequestInv, EventsInv, PhaseInv
  <2>3. f.type = "headers" /\ f.id = s /\ queue' = <<>>
    BY <2>2, <1>t2 DEF Event
  <2>4. /\ st[s] = "half" /\ wire[s] = <<>> /\ s \in items /\ data = ResponseBytes(s, 0, body[s])
        /\ items \subseteq {s} /\ body[s] \in Nat
    BY <1>3, <2>1, <1>t1, <1>t2 DEF OutputInv, OwnerInv, RequestInv, BodyInv
  <2>5. UNCHANGED <<st, items>> /\ wire' = [wire EXCEPT ![s] = Append(@, f)]
    BY <1>3, <2>3, <2>4 DEF SendQueued
  <2>6. wire'[s] = Begun(s, 0) /\ \A r \in Streams \ {s} : wire'[r] = wire[r]
    <3>1. wire'[s] = <<f>>
      BY <2>4, <2>5, <1>t1
    <3>2. Begun(s, 0) = <<Event("headers", s, 0)>>
      BY DEF Begun, ResponseBytes
    <3> QED
      BY <3>1, <3>2, <2>2, <2>5, <1>t1
  <2>7. \A r \in Streams : WireInv(r)'
    <3>1. WireInv(s)'
      BY <2>4, <2>6, <1>t2 DEF WireInv
    <3>2. \A r \in Streams \ {s} : WireInv(r)'
      BY <2>5, <2>6, <1>t2 DEF OutputInv, WireInv
    <3> QED
      BY <3>1, <3>2
  <2>8. OwnerInv'
    <3>1. \E m \in 0..body[s] : wire'[s] = Begun(s, m) /\ data = ResponseBytes(s, m, body[s])
      BY <2>4, <2>6
    <3>2. \A r \in Streams : body[r] = NoBody => wire'[r] = <<>>
      BY <2>4, <2>6, <1>t1 DEF OutputInv, OwnerInv, NoBody
    <3> QED
      BY <1>3, <2>1, <2>3, <2>4, <2>5, <3>1, <3>2, <1>t2 DEF OwnerInv
  <2>9. ClosingInv'
    BY <2>2, <2>3, <2>5, <1>t2, <1>t4 DEF OutputInv, ClosingInv, Is
  <2> QED
    BY <2>7, <2>8, <2>9 DEF OutputInv
<1>4. CASE ~goaway /\ phase = "sent"
  <2>1. PICK s \in Streams : s = Head(reqs).id
    BY <1>4, HeadRequest DEF RequestInv, EventsInv, PhaseInv
  <2>2. queue = <<Event("trailers", s, 0)>> /\ f = Event("trailers", s, 0)
    BY <1>4, <1>t2, <2>1 DEF RequestInv, EventsInv, PhaseInv
  <2>3. f.type = "trailers" /\ f.id = s /\ queue' = <<>>
    BY <2>2, <1>t2 DEF Event
  <2>4. /\ st[s] = "half" /\ items \subseteq {s} /\ body[s] \in Nat
        /\ \E m \in 0..body[s] : wire[s] = Begun(s, m)
    BY <1>4, <2>1, <1>t1, <1>t2 DEF OutputInv, OwnerInv, RequestInv, BodyInv
  <2>5. /\ st' = [st EXCEPT ![s] = "closed"] /\ items' = items \ {s}
        /\ wire' = [wire EXCEPT ![s] = Append(@, f)]
    BY <1>4, <2>3, <2>4 DEF SendQueued, Close
  <2>6. /\ wire'[s] = Append(wire[s], f) /\ \A r \in Streams \ {s} : wire'[r] = wire[r] /\ st'[r] = st[r]
        /\ st'[s] = "closed" /\ items' = {}
    BY <2>4, <2>5, <1>t1
  <2>7. \A r \in Streams : WireInv(r)'
    <3>1. WireInv(s)'
      BY <2>2, <2>4, <2>6, <1>t2 DEF WireInv
    <3>2. \A r \in Streams \ {s} : WireInv(r)'
      BY <2>6, <1>t2 DEF OutputInv, WireInv
    <3> QED
      BY <3>1, <3>2
  <2>8. OwnerInv'
    <3>1. \A r \in Streams : body[r] = NoBody => wire'[r] = <<>>
      BY <2>4, <2>6, <1>t1 DEF OutputInv, OwnerInv, NoBody
    <3> QED
      BY <1>4, <2>1, <2>3, <2>6, <3>1, <1>t2 DEF OwnerInv
  <2>9. ClosingInv'
    BY <1>4, <2>1, <2>2, <2>3, <2>6, <1>t2, <1>t4 DEF OutputInv, ClosingInv, Is
  <2> QED
    BY <2>7, <2>8, <2>9 DEF OutputInv
<1> QED
  BY <1>1, <1>2, <1>3, <1>4, <1>t2 DEF SendQueued, Buffering

\* A DATA frame takes its bytes from _data.
LEMMA DataResponses ==
  ASSUME RequestInv, OutputInv, NEW s \in Streams, SendData(s)
  PROVE  OutputInv'
<1>t1. /\ items \subseteq Streams /\ wire \in [Streams -> Seq(EventSet)]
       /\ body \in [Streams -> Nat \cup {NoBody}] /\ H2TypeOK
  BY DEF RequestInv, EventsInv, H2TypeOK
<1>t2. /\ UNCHANGED <<backend, phase, goaway, st, queue, reqs, body>>
       /\ phase \in Buffering /\ queue = <<>> /\ s \in items
  BY DEF SendData, Sendable
<1>1. CASE goaway
  <2>1. UNCHANGED wire
    BY <1>1 DEF SendData
  <2> QED
    BY <1>1, <2>1, <1>t2 DEF OutputInv, WireInv, OwnerInv, ClosingInv
<1>2. CASE ~goaway
  <2>1. phase = "data" /\ s = Head(reqs).id /\ items \subseteq {s}
    BY <1>2, <1>t2 DEF OutputInv, OwnerInv, Buffering
  <2>2. body[s] \in Nat /\ st[s] = "half"
    BY <1>2, <2>1, <1>t1 DEF OutputInv, OwnerInv, RequestInv, BodyInv
  <2>3. PICK m \in 0..body[s] : wire[s] = Begun(s, m) /\ data = ResponseBytes(s, m, body[s])
    BY <1>2, <1>t2, <2>1 DEF OutputInv, OwnerInv
  <2>4. m \in Nat /\ m <= body[s]
    BY <2>2
  <2>5. Len(data) = body[s] - m
    BY <2>2, <2>3, <2>4, BytesType
  <2>6. PICK n \in 0..Len(data) : n = ReadLength(Minimum({window[s], credit}))
    BY <1>t1, ReadLengthFits
  <2>7. /\ wire' = [wire EXCEPT ![s] = @ \o SubSeq(data, 1, n)]
        /\ items' = IF n = Len(data) THEN items \ {s} ELSE items
        /\ data' = SubSeq(data, n + 1, Len(data))
    BY <1>2, <2>6 DEF SendData
  <2>8. wire'[s] = Begun(s, m + n) /\ data' = ResponseBytes(s, m + n, body[s]) /\ m + n \in 0..body[s]
    <3>1. n \in 0..(body[s] - m)
      BY <2>5
    <3>2. /\ Begun(s, m) \o SubSeq(ResponseBytes(s, m, body[s]), 1, n) = Begun(s, m + n)
          /\ SubSeq(ResponseBytes(s, m, body[s]), n + 1, body[s] - m) = ResponseBytes(s, m + n, body[s])
      BY <2>2, <2>4, <3>1, CutBytes
    <3>3. wire'[s] = wire[s] \o SubSeq(data, 1, n)
      BY <2>7, <1>t1
    <3>4. m + n \in 0..body[s]
      BY <2>2, <2>4, <3>1
    <3> QED
      BY <2>3, <2>5, <2>7, <3>2, <3>3, <3>4
  <2>9. \A r \in Streams \ {s} : wire'[r] = wire[r]
    BY <2>7, <1>t1
  <2>10. s \in items' \/ m + n = body[s]
    <3>1. CASE n = Len(data)
      BY <2>2, <2>4, <2>5, <3>1
    <3>2. CASE n # Len(data)
      BY <2>7, <3>2, <1>t2
    <3> QED
      BY <3>1, <3>2
  <2>11. \A r \in Streams : WireInv(r)'
    <3>1. WireInv(s)'
      BY <2>2, <2>8, <1>t2 DEF WireInv
    <3>2. \A r \in Streams \ {s} : WireInv(r)'
      BY <2>9, <1>t2 DEF OutputInv, WireInv
    <3> QED
      BY <3>1, <3>2
  <2>12. OwnerInv'
    <3>1. \A r \in Streams : body[r] = NoBody => wire'[r] = <<>>
      BY <2>2, <2>9 DEF OutputInv, OwnerInv, NoBody
    <3>2. \E k \in 0..body[s] : wire'[s] = Begun(s, k) /\ data' = ResponseBytes(s, k, body[s])
                                /\ (s \in items' \/ k = body[s])
      BY <2>8, <2>10
    <3>3. items' \subseteq {s}
      BY <2>1, <2>7
    <3> QED
      BY <2>1, <2>2, <3>1, <3>2, <3>3, <1>t2 DEF OwnerInv
  <2>13. ClosingInv'
    BY <1>t2 DEF OutputInv, ClosingInv
  <2> QED
    BY <2>11, <2>12, <2>13 DEF OutputInv
<1> QED
  BY <1>1, <1>2

\* The response to the next request: _data is free, and nothing has been sent on
\* its stream.
LEMMA WriteResponses ==
  ASSUME RequestInv, OutputInv, NEW n \in 0..MaxBody, Write(n)
  PROVE  OutputInv'
<1>t1. /\ queue = <<>> /\ reqs # <<>> /\ phase = "process" /\ H2TypeOK
       /\ body \in [Streams -> Nat \cup {NoBody}] /\ items \subseteq Streams
       /\ st \in [Streams -> {"idle", "open", "half", "closing", "closed"}]
  BY DEF RequestInv, EventsInv, PhaseInv, H2TypeOK, Write
<1>1. PICK s \in Streams : s = Head(reqs).id /\ s = reqs[1].id /\ Len(reqs) \in Nat \ {0}
  BY <1>t1, HeadRequest
<1>2. /\ UNCHANGED <<backend, st, goaway, window, credit, reqs, wire>>
      /\ queue' = Append(queue, Event("headers", s, 0))
      /\ data' = [i \in 1..n |-> Event("data", s, i)]
      /\ body' = [body EXCEPT ![s] = n]
      /\ \/ st[s] # "closed" /\ phase' = "data" /\ items' = items \cup {s}
         \/ st[s] = "closed" /\ phase' \in Down
  BY <1>1 DEF Write, SubmitHeaders, SubmitData, Thrown, Down
<1>3. n \in Nat /\ n # NoBody /\ body'[s] = n /\ \A r \in Streams \ {s} : body'[r] = body[r]
  BY <1>2, <1>t1, H2Assumption DEF NoBody
<1>4. body[s] = NoBody /\ wire[s] = <<>> /\ st[s] \in {"half", "closing", "closed"}
  BY <1>1, <1>t1 DEF OutputInv, OwnerInv, RequestInv, BodyInv, ReqsInv
<1>5. ~goaway => st[s] # "closing"
  BY <1>t1 DEF OutputInv, ClosingInv, Has
<1>6. \A r \in Streams : WireInv(r)'
  BY <1>2, <1>3, <1>4 DEF OutputInv, WireInv
<1>7. OwnerInv'
  <2>1. \A r \in Streams : body'[r] = NoBody => wire[r] = <<>>
    BY <1>3, <1>4 DEF OutputInv, OwnerInv
  <2>2. CASE ~goaway /\ phase' = "data"
    <3>1. queue' = <<Event("headers", s, 0)>> /\ queue' # <<>>
      BY <1>2, <1>t1
    <3>2. data' = ResponseBytes(s, 0, n)
      BY <1>2, <1>3 DEF ResponseBytes
    <3>3. st[s] = "half" /\ items' = {s}
      BY <1>2, <1>4, <1>5, <1>t1, <2>2 DEF OutputInv, OwnerInv, Down
    <3> QED
      BY <1>1, <1>2, <1>3, <1>4, <2>1, <2>2, <3>1, <3>2, <3>3 DEF OwnerInv
  <2>3. CASE phase' \in Down
    BY <1>2, <2>1, <2>3 DEF OwnerInv, Down
  <2>4. CASE goaway
    BY <1>2, <2>1, <2>4 DEF OwnerInv
  <2> QED
    BY <1>2, <2>2, <2>3, <2>4
<1>8. ClosingInv'
  <2> SUFFICES ASSUME ~goaway, NEW r \in Streams
               PROVE  /\ st[r] # "closing"
                      /\ st[r] = "half" /\ body'[r] # NoBody => phase' = "data" /\ r = s
    BY <1>1, <1>2 DEF ClosingInv, Down
  <2>1. st[r] # "closing"
    BY <1>t1 DEF OutputInv, ClosingInv, Has
  <2>2. st[r] = "half" => body[r] = NoBody
    BY <1>t1 DEF OutputInv, ClosingInv, Down
  <2> QED
    BY <1>2, <1>3, <2>1, <2>2
<1> QED
  BY <1>6, <1>7, <1>8 DEF OutputInv

\* The other steps of conn::read and conn::write.
LEMMA OtherResponses ==
  RequestInv /\ OutputInv /\ (HandleEvent \/ EventsEnd \/ WriteFails \/ BufferEnd \/ WriteTrailers \/ ProcessEnd)
    => OutputInv'
<1> SUFFICES ASSUME RequestInv, OutputInv,
                    HandleEvent \/ EventsEnd \/ WriteFails \/ BufferEnd \/ WriteTrailers \/ ProcessEnd
             PROVE  OutputInv'
  OBVIOUS
<1>1. CASE HandleEvent \/ EventsEnd
  <2>1. /\ UNCHANGED <<st, goaway, items, queue, body, wire>>
        /\ phase = "events" /\ phase' \in {"events", "read"}
    BY <1>1 DEF HandleEvent, EventsEnd, sessionState
  <2> QED
    BY <2>1 DEF OutputInv, WireInv, OwnerInv, ClosingInv, Down
<1>2. CASE WriteFails
  <2>1. UNCHANGED <<st, goaway, items, queue, body, wire, reqs>> /\ phase' = "ended"
    BY <1>2 DEF WriteFails, sessionState
  <2> QED
    BY <2>1 DEF OutputInv, WireInv, OwnerInv, ClosingInv, Down
<1>3. CASE BufferEnd
  <2>1. UNCHANGED <<st, goaway, items, queue, body, wire, window, credit, data>> /\ queue = <<>>
    BY <1>3 DEF BufferEnd, sessionState, NothingPending
  <2>2. \A s \in Streams : WireInv(s)'
    BY <2>1 DEF OutputInv, WireInv
  <2>3. CASE phase = "data"
    <3>1. phase' = "trailers" /\ UNCHANGED reqs
      BY <1>3, <2>3 DEF BufferEnd
    <3>2. Head(reqs).id \in Streams
      BY <2>3, HeadRequest DEF RequestInv, EventsInv, PhaseInv
    <3>3. Head(reqs).id \notin items \/ goaway \/ window[Head(reqs).id] = 0 \/ credit = 0
      <4>1. window \in [Streams -> Nat] /\ credit \in Nat
        BY DEF RequestInv, EventsInv, H2TypeOK
      <4> QED
        BY <1>3, <3>2, <4>1 DEF BufferEnd, NothingPending, Sendable
    <3>4. OwnerInv'
      BY <2>1, <2>3, <3>1, <3>3 DEF OutputInv, OwnerInv
    <3>5. ClosingInv'
      BY <2>1, <2>3, <3>1 DEF OutputInv, ClosingInv
    <3> QED
      BY <2>2, <3>4, <3>5 DEF OutputInv
  <2>4. CASE phase = "read"
    <3>1. phase' = "process" /\ UNCHANGED reqs
      BY <1>3, <2>4 DEF BufferEnd
    <3> QED
      BY <2>1, <2>2, <2>4, <3>1 DEF OutputInv, OwnerInv, ClosingInv, Down
  <2>5. CASE phase = "sent"
    <3>1. phase' = "process"
      BY <1>3, <2>5 DEF BufferEnd
    <3>2. ~goaway => items = {} /\ \A s \in Streams : st[s] = "half" => body[s] = NoBody
      BY <2>1, <2>5 DEF OutputInv, OwnerInv, ClosingInv
    <3>3. OwnerInv'
      BY <2>1, <3>1, <3>2 DEF OutputInv, OwnerInv
    <3>4. ClosingInv'
      BY <2>1, <3>1, <3>2 DEF OutputInv, ClosingInv
    <3> QED
      BY <2>2, <3>3, <3>4 DEF OutputInv
  <2> QED
    BY <1>3, <2>3, <2>4, <2>5 DEF BufferEnd, Buffering
<1>4. CASE WriteTrailers
  <2>1. /\ UNCHANGED <<st, goaway, items, body, wire, reqs>> /\ phase = "trailers" /\ phase' = "sent"
        /\ queue = <<>> /\ queue' = <<Event("trailers", Head(reqs).id, 0)>> /\ queue' # <<>>
    BY <1>4 DEF WriteTrailers, SubmitTrailers, RequestInv, EventsInv, PhaseInv
  <2>2. \A s \in Streams : WireInv(s)'
    BY <2>1 DEF OutputInv, WireInv
  <2>3. OwnerInv'
    BY <2>1 DEF OutputInv, OwnerInv
  <2>4. ~goaway => \A s \in Streams : st[s] # "closing"
    BY <2>1 DEF OutputInv, ClosingInv, Has
  <2>5. ClosingInv'
    BY <2>1, <2>4 DEF OutputInv, ClosingInv
  <2> QED
    BY <2>2, <2>3, <2>5 DEF OutputInv
<1>5. CASE ProcessEnd
  <2>1. UNCHANGED <<st, goaway, items, queue, body, wire, reqs>> /\ phase = "process" /\ phase' = "idle"
    BY <1>5 DEF ProcessEnd, sessionState
  <2> QED
    BY <2>1 DEF OutputInv, WireInv, OwnerInv, ClosingInv, Down
<1> QED
  BY <1>1, <1>2, <1>3, <1>4, <1>5

ResponseInv == RequestInv /\ OutputInv

LEMMA ResponseInvariant == H2Spec => []ResponseInv
<1>1. H2Init => OutputInv
  <2> SUFFICES ASSUME H2Init PROVE OutputInv
    OBVIOUS
  <2>1. /\ phase = "idle" /\ items = {}
        /\ \A s \in Streams : wire[s] = <<>> /\ st[s] = "idle" /\ body[s] = NoBody
    BY DEF H2Init
  <2> QED
    BY <2>1 DEF OutputInv, WireInv, OwnerInv, ClosingInv
<1>2. RequestInv /\ OutputInv /\ [H2Next]_h2Vars => OutputInv'
  <2> SUFFICES ASSUME RequestInv, OutputInv, [H2Next]_h2Vars PROVE OutputInv'
    OBVIOUS
  <2>1. CASE UNCHANGED h2Vars
    BY <2>1 DEF h2Vars, OutputInv, WireInv, OwnerInv, ClosingInv
  <2>2. CASE H2Next
    BY <2>2, RecvResponses, SendResponses, DataResponses, WriteResponses, OtherResponses DEF H2Next
  <2> QED
    BY <2>1, <2>2
<1> QED
  BY <1>1, <1>2, RequestInvariant, PTL DEF H2Spec, ResponseInv

LEMMA AppendCut ==
  ASSUME NEW S, NEW q \in Seq(S), NEW e \in S
  PROVE  /\ q \o <<e>> = Append(q, e) /\ Len(Append(q, e)) = Len(q) + 1
         /\ SubSeq(Append(q, e), 1, Len(q)) = q
         /\ SubSeq(Append(q, e), 1, Len(q) + 1) = Append(q, e)
<1> DEFINE p == Append(q, e)
           a == SubSeq(p, 1, Len(q))
           b == SubSeq(p, 1, Len(q) + 1)
<1>1. q \o <<e>> = p
  OBVIOUS
<1>2. p \in Seq(S) /\ Len(q) \in Nat /\ Len(p) = Len(q) + 1 /\ \A i \in 1..Len(q) : p[i] = q[i]
  OBVIOUS
<1> HIDE DEF p
<1>3. Len(q) \in 0..Len(p) /\ Len(q) + 1 \in 0..Len(p)
  BY <1>2
<1>4. a \in Seq(S) /\ Len(a) = Len(q) /\ \A i \in 1..Len(q) : a[i] = p[i]
  BY <1>2, <1>3, CutSeq
<1>5. b \in Seq(S) /\ Len(b) = Len(q) + 1 /\ \A i \in 1..(Len(q) + 1) : b[i] = p[i]
  BY <1>2, <1>3, CutSeq
<1> HIDE DEF a, b
<1>6. a = q
  BY <1>2, <1>4, SeqEqual
<1>7. b = p
  BY <1>2, <1>5, SeqEqual
<1> QED
  BY <1>1, <1>2, <1>6, <1>7 DEF a, b, p

\* What the client gets on a stream is a response to that stream: one block of
\* headers, a prefix of the bytes of its own body, one block of trailers,
\* although all streams share session::_data.
THEOREM ResponsesOwn == H2Spec => []ResponseOwn
<1>1. ResponseInv => ResponseOwn
  <2> SUFFICES ASSUME ResponseInv, NEW s \in Streams, wire[s] # <<>>
               PROVE  \E k \in 0..body[s] :
                        LET frames == <<Event("headers", s, 0)>> \o [i \in 1..k |-> Event("data", s, i)]
                                        \o <<Event("trailers", s, 0)>>
                        IN  Len(wire[s]) <= Len(frames) /\ wire[s] = SubSeq(frames, 1, Len(wire[s]))
    BY DEF ResponseOwn
  <2> DEFINE t == Event("trailers", s, 0)
  <2>1. body[s] \in Nat /\ t \in EventSet
    BY EventInSet DEF ResponseInv, OutputInv, WireInv, EventTypes
  <2>2. PICK m \in 0..body[s] : wire[s] = Begun(s, m) \/ wire[s] = Append(Begun(s, m), t)
    BY DEF ResponseInv, OutputInv, WireInv
  <2>3. m \in Nat
    BY <2>1
  <2>4. <<Event("headers", s, 0)>> \o [i \in 1..m |-> Event("data", s, i)] = Begun(s, m)
    <3>1. m - 0 = m /\ \A i \in 1..m : 0 + i = i
      BY <2>3
    <3>2. [i \in 1..m |-> Event("data", s, i)] = [i \in 1..(m - 0) |-> Event("data", s, 0 + i)]
      BY <3>1
    <3> QED
      BY <3>2 DEF Begun, ResponseBytes
  <2> HIDE DEF t
  <2>5. Begun(s, m) \in Seq(EventSet) /\ Len(Begun(s, m)) \in Nat
    BY <2>3, BegunType
  <2>6. /\ Begun(s, m) \o <<t>> = Append(Begun(s, m), t)
        /\ Len(Append(Begun(s, m), t)) = Len(Begun(s, m)) + 1
        /\ SubSeq(Append(Begun(s, m), t), 1, Len(Begun(s, m))) = Begun(s, m)
        /\ SubSeq(Append(Begun(s, m), t), 1, Len(Begun(s, m)) + 1) = Append(Begun(s, m), t)
    BY <2>1, <2>5, AppendCut
  <2>7. LET frames == Begun(s, m) \o <<t>>
        IN  Len(wire[s]) <= Len(frames) /\ wire[s] = SubSeq(frames, 1, Len(wire[s]))
    BY <2>2, <2>5, <2>6
  <2>8. LET frames == <<Event("headers", s, 0)>> \o [i \in 1..m |-> Event("data", s, i)] \o <<Event("trailers", s, 0)>>
        IN  Len(wire[s]) <= Len(frames) /\ wire[s] = SubSeq(frames, 1, Len(wire[s]))
    BY <2>4, <2>7 DEF t
  <2> QED
    BY <2>8
<1> QED
  BY <1>1, ResponseInvariant, PTL

\* A response is cut short only by flow control: when conn::write comes to the
\* trailers all data has been sent or a window is used up.
THEOREM AllSentThatFits == H2Spec => []SentWhatFits
<1>1. ResponseInv => SentWhatFits
  <2> SUFFICES ASSUME ResponseInv, phase = "trailers", ~goaway
               PROVE  \/ Len(wire[Head(reqs).id]) = 1 + body[Head(reqs).id]
                      \/ window[Head(reqs).id] = 0 \/ credit = 0
    BY DEF SentWhatFits
  <2>1. PICK s \in Streams : s = Head(reqs).id
    BY HeadRequest DEF ResponseInv, RequestInv, EventsInv, PhaseInv
  <2>2. queue = <<>>
    BY DEF ResponseInv, RequestInv, EventsInv, PhaseInv
  <2>3. /\ s \notin items \/ window[s] = 0 \/ credit = 0
        /\ \E m \in 0..body[s] : wire[s] = Begun(s, m) /\ (s \in items \/ m = body[s])
    BY <2>1, <2>2 DEF ResponseInv, OutputInv, OwnerInv
  <2>4. body[s] \in Nat
    <3>1. body[s] \in Nat \cup {NoBody} /\ body[s] # NoBody
      BY <2>1 DEF ResponseInv, RequestInv, EventsInv, H2TypeOK, BodyInv
    <3> QED
      BY <3>1
  <2>5. Len(Begun(s, body[s])) = 1 + body[s]
    <3>1. PICK b \in Nat : b = body[s]
      BY <2>4
    <3>2. Len(Begun(s, b)) = b + 1
      BY BegunType
    <3> QED
      BY <3>1, <3>2
  <2> QED
    BY <2>1, <2>3, <2>5
<1> QED
  BY <1>1, ResponseInvariant, PTL

\* When the connection goes back to reading, every call that the client has
\* finished sending is answered, or its end is still among the events of a
\* failed read.
THEOREM EndedCallsAnswered == H2Spec => []EndedAnswered
<1>1. ResponseInv => EndedAnswered
  <2> SUFFICES ASSUME ResponseInv, phase = "idle", ~goaway, NEW s \in Streams, st[s] = "half"
               PROVE  Pending("end", s)
    BY DEF EndedAnswered
  <2>1. body[s] = NoBody
    BY DEF ResponseInv, OutputInv, ClosingInv, Down
  <2>2. ~InReqs(s)
    BY DEF ResponseInv, RequestInv, EventsInv, PhaseInv, InReqs
  <2>3. Ended(s)
    BY <2>1, <2>2 DEF ResponseInv, RequestInv, BodyInv
  <2> QED
    BY <2>3 DEF Ended, Todo, Has, Is, Pending
<1> QED
  BY <1>1, ResponseInvariant, PTL
-----------------------------------------------------------------------------
(* The number of requests in _streams.                                     *)

LEMMA SmallerSet ==
  ASSUME NEW S \in SUBSET Streams, NEW T \in SUBSET S
  PROVE  Cardinality(T) <= Cardinality(S) /\ Cardinality(S) \in Nat /\ Cardinality(T) \in Nat
<1>1. IsFiniteSet(Streams)
  BY FS_Interval, H2Assumption DEF Streams
<1>2. IsFiniteSet(S)
  BY <1>1, FS_Subset
<1>3. IsFiniteSet(T) /\ Cardinality(T) <= Cardinality(S)
  BY <1>2, FS_Subset
<1> QED
  BY <1>2, <1>3, FS_CardinalityType

\* Once all events are handled, only streams that nghttp2 knows have a request.
HeldAreLive == \A s \in Streams : Held(Todo, Len(Todo), s) => s \in Live

LEMMA HeldLive == EventsInv => HeldAreLive
<1> SUFFICES ASSUME EventsInv, NEW s \in Streams, Held(Todo, Len(Todo), s) PROVE s \in Live
  BY DEF HeldAreLive
<1>1. st[s] \in {"idle", "open", "half", "closing", "closed"}
  BY DEF EventsInv, H2TypeOK
<1>2. streams[s] # NoRequest \/ Mentions(Todo, s)
  BY DEF Held, Mentions, Content
<1>3. ~Has(Todo, "close", s)
  BY DEF Held, Has, Is, Content
<1>4. StateInv(Todo, s, st[s], streams[s], count[s])
  BY DEF EventsInv, StreamInv, EventInv
<1>5. st[s] # "idle" /\ st[s] # "closed"
  BY <1>2, <1>3, <1>4 DEF StateInv
<1> QED
  BY <1>1, <1>5 DEF Live

\* A step that adds events of one stream at most, and says nothing of the others.
TodoGrows(s) ==
  /\ UNCHANGED streams /\ Len(Todo) <= Len(Todo')
  /\ \A i \in 1..Len(Todo) : Todo'[i].id = Todo[i].id /\ Todo'[i].type = Todo[i].type
  /\ \A i \in (Len(Todo) + 1)..Len(Todo') : Todo'[i].id = s
  /\ \A r \in Streams \ {s} : st'[r] = st[r]
  /\ Len(Todo') <= Len(Todo) + 1 \/ s \in Live'

\* nghttp2 opens s only while the setting allows.
LiveGrows(s) == Live' \subseteq Live \/ (Live' \subseteq Live \cup {s} /\ Cardinality(Live) < MaxConcurrent)

LEMMA LiveBound ==
  ASSUME NEW s \in Streams, Cardinality(Live) <= MaxConcurrent, LiveGrows(s)
  PROVE  Cardinality(Live') <= MaxConcurrent
<1>1. Live \in SUBSET Streams /\ Live' \in SUBSET Streams
  BY DEF Live
<1>2. CASE Live' \subseteq Live
  <2>1. Cardinality(Live') <= Cardinality(Live) /\ Cardinality(Live) \in Nat /\ Cardinality(Live') \in Nat
    BY <1>1, <1>2, SmallerSet
  <2> QED
    BY <2>1, H2Assumption
<1>3. CASE Live' \subseteq Live \cup {s} /\ Cardinality(Live) < MaxConcurrent
  <2>1. IsFiniteSet(Live) /\ Cardinality(Live) \in Nat
    <3>1. IsFiniteSet(Streams)
      BY FS_Interval, H2Assumption DEF Streams
    <3> QED
      BY <1>1, <3>1, FS_Subset, FS_CardinalityType
  <2>2. Cardinality(Live \cup {s}) = IF s \in Live THEN Cardinality(Live) ELSE Cardinality(Live) + 1
    BY <2>1, FS_AddElement
  <2>3. Cardinality(Live') <= Cardinality(Live \cup {s}) /\ Cardinality(Live') \in Nat
    BY <1>1, <1>3, SmallerSet
  <2> QED
    BY <1>3, <2>1, <2>2, <2>3, H2Assumption
<1> QED
  BY <1>2, <1>3 DEF LiveGrows

LEMMA GrowsBound ==
  ASSUME EventsInv, EventsInv', BoundInv, NEW s, TodoGrows(s), Cardinality(Live') <= MaxConcurrent
  PROVE  BoundInv'
<1> DEFINE q == Todo
           p == Todo'
<1>1. Len(q) \in Nat /\ Len(p) \in Nat /\ Len(q) <= Len(p)
  <2>1. Todo \in Seq(EventSet) /\ Todo' \in Seq(EventSet)
    BY DEF EventsInv, H2TypeOK, Todo
  <2> QED
    BY <2>1 DEF TodoGrows
<1>2. /\ \A i \in 1..Len(q) : p[i].id = q[i].id /\ p[i].type = q[i].type
      /\ \A i \in (Len(q) + 1)..Len(p) : p[i].id = s
      /\ Len(p) <= Len(q) + 1 \/ s \in Live'
      /\ UNCHANGED streams /\ \A r \in Streams \ {s} : st'[r] = st[r]
  BY DEF TodoGrows
<1>3. \A r \in Streams : Held(Todo, Len(q), r) => r \in Live
  BY HeldLive DEF HeldAreLive
<1>4. HeldAreLive'
  BY HeldLive, PTL
<1>5. \A k, r : Held(Todo, k, r)' <=> Held(p, k, r)
  BY <1>2 DEF Held
<1> HIDE DEF q, p
<1>6. ASSUME NEW k \in 0..Len(q), NEW r PROVE Held(p, k, r) <=> Held(q, k, r)
  <2>1. \A i \in 1..k : Content(p[i], r) <=> Content(q[i], r)
    BY <1>1, <1>2 DEF Content
  <2>2. \A i \in 1..k : p[i].id = q[i].id
    BY <1>1, <1>2
  <2> QED
    BY <2>1, <2>2 DEF Held
<1>7. ASSUME NEW k \in 0..Len(p), k > Len(q), NEW r \in Streams, Held(p, k, r) PROVE r \in Live'
  <2>1. CASE r # s
    <3>1. \A i \in 1..k : Content(p[i], r) => i \in 1..Len(q) /\ Content(q[i], r)
      BY <1>1, <1>2, <2>1 DEF Content
    <3>2. \A i \in 1..Len(q) : i \in 1..k /\ (q[i].id = r => p[i].id = r) /\ (Content(p[i], r) => Content(q[i], r))
      BY <1>1, <1>2, <1>7 DEF Content
    <3>3. Held(q, Len(q), r)
      BY <1>7, <3>1, <3>2 DEF Held
    <3>4. r \in Live
      BY <1>3, <3>3 DEF q
    <3> QED
      BY <1>2, <2>1, <3>4 DEF Live
  <2>2. CASE r = s /\ s \notin Live'
    <3>1. k = Len(p)
      BY <1>1, <1>2, <1>7, <2>2
    <3>2. Held(Todo, Len(Todo), r)'
      <4>1. (Held(Todo, Len(Todo), r))' <=> Held(p, Len(p), r)
        BY <1>2 DEF Held, p
      <4> QED
        BY <1>7, <3>1, <4>1
    <3> QED
      BY <1>4, <3>2 DEF HeldAreLive
  <2> QED
    BY <2>1, <2>2
<1>8. ASSUME NEW k \in 0..Len(p) PROVE Cardinality({r \in Streams : Held(p, k, r)}) <= MaxConcurrent
  <2>1. CASE k \in 0..Len(q)
    <3>1. {r \in Streams : Held(p, k, r)} = {r \in Streams : Held(q, k, r)}
      BY <1>6, <2>1
    <3> QED
      BY <2>1, <3>1 DEF BoundInv, q
  <2>2. CASE k > Len(q)
    <3>1. {r \in Streams : Held(p, k, r)} \subseteq Live' /\ Live' \in SUBSET Streams
      BY <1>7, <2>2 DEF Live
    <3>2. /\ Cardinality({r \in Streams : Held(p, k, r)}) <= Cardinality(Live')
          /\ Cardinality({r \in Streams : Held(p, k, r)}) \in Nat /\ Cardinality(Live') \in Nat
      BY <3>1, SmallerSet
    <3> QED
      BY <3>2, H2Assumption
  <2> QED
    BY <1>1, <2>1, <2>2
<1> QED
  BY <1>5, <1>8 DEF BoundInv, p

LEMMA QuietGrows ==
  ASSUME EventsInv, UNCHANGED <<streams, st>>, Todo' = Todo
  PROVE  TodoGrows(0) /\ Live' = Live
<1>1. Len(Todo) \in Nat
  BY TodoType DEF EventsInv
<1> QED
  BY <1>1 DEF TodoGrows, Live

LEMMA OneEventGrows ==
  ASSUME EventsInv, UNCHANGED streams, NEW s, NEW e \in EventSet, e.id = s, Todo' = Append(Todo, e),
         \A r \in Streams \ {s} : st'[r] = st[r]
  PROVE  TodoGrows(s)
<1>1. Todo \in Seq(EventSet) /\ Len(Todo) \in Nat
  BY TodoType DEF EventsInv
<1>2. /\ Len(Todo') = Len(Todo) + 1 /\ Todo'[Len(Todo) + 1] = e
      /\ \A i \in 1..Len(Todo) : Todo'[i] = Todo[i]
  BY <1>1
<1> QED
  BY <1>1, <1>2 DEF TodoGrows

\* Closing a stream, in FrameRst and in SendQueued.
LEMMA CloseGrows ==
  ASSUME EventsInv, NEW s \in Streams, phase # "events", phase' = phase, Close(s), UNCHANGED streams
  PROVE  TodoGrows(s) /\ LiveGrows(s)
<1>1. Event("close", s, 0) \in EventSet /\ Event("close", s, 0).id = s
  BY EventInSet DEF EventTypes, Event
<1>2. st' = [st EXCEPT ![s] = "closed"] /\ st \in [Streams -> {"idle", "open", "half", "closing", "closed"}]
  BY DEF Close, EventsInv, H2TypeOK
<1>3. Todo' = Append(Todo, Event("close", s, 0))
  BY DEF Close, Todo
<1>4. TodoGrows(s)
  BY <1>1, <1>2, <1>3, OneEventGrows
<1>5. Live' \subseteq Live
  BY <1>2 DEF Live
<1> QED
  BY <1>4, <1>5 DEF LiveGrows

LEMMA RecvGrows ==
  ASSUME EventsInv, RecvNext
  PROVE  (TodoGrows(0) /\ Live' = Live) \/ \E s \in Streams : TodoGrows(s) /\ LiveGrows(s)
<1> USE DEF connState
<1>t1. /\ st \in [Streams -> {"idle", "open", "half", "closing", "closed"}]
       /\ events \in Seq(EventSet) /\ H2TypeOK
  BY DEF EventsInv, H2TypeOK
<1>1. CASE ReadBegin \/ ConnLost \/ FrameWindow \/ FrameFatal
  <2>1. UNCHANGED <<streams, st, events>> /\ phase # "events" /\ phase' # "events"
    BY <1>1 DEF ReadBegin, ConnLost, FrameWindow, FrameFatal
  <2>2. Todo' = Todo
    BY <2>1 DEF Todo
  <2> QED
    BY <2>1, <2>2, QuietGrows
<1>2. CASE ReadEnd
  <2>1. UNCHANGED <<streams, st>> /\ Todo' = Todo
    BY <1>2 DEF ReadEnd, Todo
  <2> QED
    BY <2>1, QuietGrows
<1>3. CASE ReadFails
  <2>1. Todo = events /\ Todo' = events' /\ UNCHANGED <<st, streams>>
    BY <1>3 DEF ReadFails, Todo
  <2>2. CASE UNCHANGED events
    BY <2>1, <2>2, QuietGrows
  <2>3. CASE events' = [i \in 1..Len(events) |->
                          IF events[i].type = "data" THEN [events[i] EXCEPT !.n = Stale(@)] ELSE events[i]]
    <3>1. \A e \in EventSet : LET f == [e EXCEPT !.n = Stale(@)] IN f.id = e.id /\ f.type = e.type
      BY DEF EventSet
    <3>2. \A i \in 1..Len(events) : events'[i].id = events[i].id /\ events'[i].type = events[i].type
      BY <2>3, <3>1, <1>t1
    <3>3. Len(events') = Len(events) /\ Len(events) \in Nat
      BY <2>3, <1>t1
    <3> QED
      BY <2>1, <3>2, <3>3 DEF TodoGrows, Live
  <2> QED
    BY <1>3, <2>2, <2>3 DEF ReadFails
<1>4. ASSUME NEW s \in Streams, NEW type \in {"header", "data"}, NEW end \in BOOLEAN, FrameRecv(s, type, end)
      PROVE  TodoGrows(s) /\ LiveGrows(s)
  <2> DEFINE e == Event(type, s, count[s] + 1)
             f == Event("end", s, 0)
             one == Append(events, e)
  <2>1. /\ e \in EventSet /\ e.id = s /\ f \in EventSet /\ f.id = s /\ one \in Seq(EventSet)
        /\ events' = IF end THEN Append(one, f) ELSE one
    BY <1>4, <1>t1, EmitEvents DEF FrameRecv, Is
  <2>2. /\ st' = [st EXCEPT ![s] = IF end THEN "half" ELSE "open"]
        /\ Todo = events /\ Todo' = events' /\ UNCHANGED streams
        /\ Cardinality(Live) < MaxConcurrent \/ st[s] = "open"
    BY <1>4 DEF FrameRecv, MayOpen, Todo
  <2> HIDE DEF e, f
  <2>3. s \in Live' /\ LiveGrows(s)
    BY <2>2, <1>t1 DEF Live, LiveGrows
  <2>4. CASE ~end
    BY <2>1, <2>2, <2>3, <2>4, <1>t1, OneEventGrows
  <2>5. CASE end
    <3>1. /\ Len(events) \in Nat /\ Len(events') = Len(events) + 2
          /\ events'[Len(events) + 1] = e /\ events'[Len(events) + 2] = f
          /\ \A i \in 1..Len(events) : events'[i] = events[i]
      <4>1. /\ Len(events) \in Nat /\ Len(one) = Len(events) + 1 /\ one[Len(events) + 1] = e
            /\ \A i \in 1..Len(events) : one[i] = events[i]
        BY <2>1, <1>t1
      <4> HIDE DEF one
      <4>2. events' = Append(one, f)
        BY <2>1, <2>5
      <4>3. /\ Len(Append(one, f)) = Len(one) + 1 /\ Append(one, f)[Len(one) + 1] = f
            /\ \A i \in 1..Len(one) : Append(one, f)[i] = one[i]
        BY <2>1
      <4>4. Len(events) + 1 \in 1..Len(one) /\ Len(one) + 1 = Len(events) + 2
            /\ \A i \in 1..Len(events) : i \in 1..Len(one)
        BY <4>1
      <4> QED
        BY <4>1, <4>2, <4>3, <4>4
    <3>2. \A i \in (Len(Todo) + 1)..Len(Todo') : i = Len(events) + 1 \/ i = Len(events) + 2
      BY <2>2, <3>1
    <3>3. \A r \in Streams \ {s} : st'[r] = st[r]
      BY <2>2, <1>t1
    <3> QED
      BY <2>1, <2>2, <2>3, <3>1, <3>2, <3>3 DEF TodoGrows
  <2> QED
    BY <2>3, <2>4, <2>5
<1>5. ASSUME NEW s \in Streams, FrameEnd(s)
      PROVE  TodoGrows(s) /\ LiveGrows(s)
  <2>1. /\ st[s] = "open" /\ st' = [st EXCEPT ![s] = "half"] /\ UNCHANGED streams
        /\ Todo' = Append(Todo, Event("end", s, 0))
    BY <1>5 DEF FrameEnd, Todo
  <2>2. Event("end", s, 0) \in EventSet /\ Event("end", s, 0).id = s
    BY EventInSet DEF EventTypes, Event
  <2>3. LiveGrows(s)
    BY <2>1, <1>t1 DEF Live, LiveGrows
  <2> QED
    BY <2>1, <2>2, <2>3, <1>t1, OneEventGrows
<1>6. ASSUME NEW s \in Streams, FrameMalformed(s)
      PROVE  TodoGrows(s) /\ LiveGrows(s)
  <2>1. /\ st' = [st EXCEPT ![s] = "closing"] /\ UNCHANGED streams
        /\ Cardinality(Live) < MaxConcurrent \/ st[s] \in {"open", "half"}
        /\ Todo = events /\ Todo' = events'
    BY <1>6 DEF FrameMalformed, MayOpen, Todo
  <2>2. LiveGrows(s) /\ \A r \in Streams \ {s} : st'[r] = st[r]
    BY <2>1, <1>t1 DEF Live, LiveGrows
  <2>3. CASE UNCHANGED events
    <3>1. Len(Todo) \in Nat
      BY <2>1, <1>t1
    <3>2. TodoGrows(s)
      BY <2>1, <2>2, <2>3, <3>1 DEF TodoGrows
    <3> QED
      BY <2>2, <3>2
  <2>4. ASSUME NEW type \in {"header", "data"}, Emit(s, type, FALSE)
        PROVE  TodoGrows(s)
    <3> DEFINE e == Event(type, s, count[s] + 1)
    <3>1. e \in EventSet /\ e.id = s /\ events' = Append(events, e)
      BY <2>4, <1>t1, EmitEvents
    <3> HIDE DEF e
    <3> QED
      BY <2>1, <2>2, <3>1, OneEventGrows
  <2> QED
    BY <1>6, <2>2, <2>3, <2>4 DEF FrameMalformed
<1>7. ASSUME NEW s \in Streams, FrameRefused(s)
      PROVE  TodoGrows(s) /\ LiveGrows(s)
  <2>1. st' = [st EXCEPT ![s] = "closed"] /\ UNCHANGED streams /\ Todo' = Todo
    BY <1>7 DEF FrameRefused, Todo
  <2>2. Len(Todo) \in Nat
    BY <1>t1, TodoType
  <2> QED
    BY <2>1, <2>2, <1>t1 DEF TodoGrows, LiveGrows, Live
<1>8. ASSUME NEW s \in Streams, FrameRst(s)
      PROVE  TodoGrows(s) /\ LiveGrows(s)
  BY <1>8, CloseGrows DEF FrameRst, Close
<1> QED
  BY <1>1, <1>2, <1>3, <1>4, <1>5, <1>6, <1>7, <1>8 DEF RecvNext

\* conn::read handles an event: what was held after k + 1 events is now held
\* after k.
LEMMA HandleBound == EventsInv /\ BoundInv /\ HandleEvent => BoundInv'
<1> SUFFICES ASSUME EventsInv, BoundInv, HandleEvent PROVE BoundInv'
  OBVIOUS
<1> DEFINE q == Todo
           p == Todo'
           e == Head(q)
<1>1. /\ q # <<>> /\ q \in Seq(EventSet) /\ p = Tail(q) /\ UNCHANGED st /\ e.id \in Streams
      /\ \/ /\ e.type \in {"close", "end"} /\ streams' = [streams EXCEPT ![e.id] = NoRequest]
         \/ /\ Content(e, e.id) /\ streams' = [streams EXCEPT ![e.id] = Append(Got(streams[e.id]), e.n)]
  BY HandleCases DEF EventsInv, Is
<1>2. streams \in [Streams -> Seq(Int)]
  BY DEF EventsInv, H2TypeOK
<1>3. \A r \in Streams : Ordered(q, r)
  BY DEF EventsInv, StreamInv, EventInv
<1> HIDE DEF q, p
<1>4. /\ Len(q) \in Nat \ {0} /\ Len(p) = Len(q) - 1 /\ e = q[1]
      /\ \A i \in 1..(Len(q) - 1) : p[i] = q[i + 1]
  BY <1>1, TailOfEvents
<1>5. \A i \in 2..Len(q) : i - 1 \in 1..Len(p) /\ q[i] = p[i - 1]
  BY <1>1, <1>4, TailOfEvents
<1> HIDE DEF e
<1>6. ASSUME NEW k \in 0..Len(p), NEW r \in Streams,
             streams'[r] # NoRequest \/ \E i \in 1..k : Content(p[i], r),
             \A i \in 1..k : p[i].id = r => Content(p[i], r)
      PROVE  Held(q, k + 1, r)
  <2>1. \A i \in 1..k : i + 1 \in 2..(k + 1) /\ i + 1 \in 2..Len(q) /\ p[i] = q[i + 1]
    BY <1>4
  <2>2. \A i \in 2..(k + 1) : i - 1 \in 1..k /\ i \in 2..Len(q) /\ q[i] = p[i - 1]
    BY <1>4, <1>5
  <2>3. k + 1 \in Nat /\ 1 \in 1..(k + 1) /\ \A i \in 1..(k + 1) : i = 1 \/ i \in 2..(k + 1)
    BY <1>4
  <2>4. CASE r # e.id
    <3>1. streams'[r] = streams[r]
      BY <1>1, <1>2, <2>4
    <3>2. streams[r] # NoRequest \/ \E i \in 1..(k + 1) : Content(q[i], r)
      <4>1. \A i \in 2..(k + 1) : i \in 1..(k + 1)
        BY <1>4
      <4> QED
        BY <1>6, <2>1, <3>1, <4>1
    <3>3. \A i \in 1..(k + 1) : q[i].id = r => Content(q[i], r)
      BY <1>4, <1>6, <2>2, <2>3, <2>4
    <3> QED
      BY <3>2, <3>3 DEF Held
  <2>5. CASE r = e.id /\ Content(e, r)
    <3>1. \A i \in 1..(k + 1) : q[i].id = r => Content(q[i], r)
      BY <1>4, <1>6, <2>2, <2>3, <2>5
    <3> QED
      BY <1>4, <2>3, <2>5, <3>1 DEF Held
  <2>6. CASE r = e.id /\ e.type \in {"close", "end"}
    <3>1. streams'[r] = NoRequest
      BY <1>1, <1>2, <2>6 DEF Content
    <3>2. PICK i \in 1..k : Content(p[i], r)
      BY <1>6, <3>1
    <3>3. i + 1 \in 1..Len(q) /\ 1 \in 1..Len(q) /\ 1 < i + 1 /\ Content(q[i + 1], r)
      BY <1>4, <2>1, <3>2
    <3>4. q[1].id = r /\ q[1].type \in {"close", "end"} /\ q[i + 1].id = r /\ q[i + 1].type # "close"
      BY <1>4, <2>6, <3>3 DEF Content
    <3> QED
      BY <1>3, <3>3, <3>4 DEF Ordered
  <2> QED
    BY <1>1, <2>4, <2>5, <2>6
<1>7. ASSUME NEW k \in 0..Len(p)
      PROVE  Cardinality({r \in Streams : Held(Todo, k, r)'}) <= MaxConcurrent
  <2> DEFINE S == {r \in Streams : Held(q, k + 1, r)}
             T == {r \in Streams : Held(Todo, k, r)'}
  <2>1. T \in SUBSET S
    BY <1>6 DEF Held, p
  <2>2. S \in SUBSET Streams
    OBVIOUS
  <2>3. k + 1 \in 0..Len(q)
    BY <1>4
  <2>4. Cardinality(S) <= MaxConcurrent
    BY <2>3 DEF BoundInv, q
  <2> HIDE DEF S, T
  <2>5. Cardinality(T) <= Cardinality(S) /\ Cardinality(S) \in Nat /\ Cardinality(T) \in Nat
    BY <2>1, <2>2, SmallerSet
  <2>6. Cardinality(T) <= MaxConcurrent
    BY <2>4, <2>5, H2Assumption
  <2> QED
    BY <2>6 DEF T
<1>8. Live' = Live
  BY <1>1 DEF Live
<1> QED
  BY <1>7, <1>8 DEF BoundInv, p

LEMMA BoundStep == EventsInv /\ EventsInv' /\ BoundInv /\ [H2Next]_h2Vars => BoundInv'
<1> SUFFICES ASSUME EventsInv, EventsInv', BoundInv, [H2Next]_h2Vars PROVE BoundInv'
  OBVIOUS
<1>1. CASE TodoGrows(0) /\ Live' = Live
  BY <1>1, GrowsBound DEF BoundInv
<1>2. CASE \E s \in Streams : TodoGrows(s) /\ LiveGrows(s)
  BY <1>2, GrowsBound, LiveBound DEF BoundInv
<1>3. CASE RecvNext
  BY <1>1, <1>2, <1>3, RecvGrows
<1>4. CASE SendQueued
  <2>1. phase # "events" /\ phase' = phase /\ UNCHANGED streams
    BY <1>4 DEF SendQueued, Buffering
  <2>2. CASE UNCHANGED <<st, events>>
    <3>1. Todo' = Todo
      BY <2>1, <2>2 DEF Todo
    <3> QED
      BY <1>1, <2>1, <2>2, <3>1, QuietGrows
  <2>3. CASE Close(Head(queue).id)
    <3>1. Head(queue).id \in Streams
      BY <1>4, TailOfEvents, EventFields DEF SendQueued, EventsInv, H2TypeOK
    <3> QED
      BY <1>2, <2>1, <2>3, <3>1, CloseGrows
  <2> QED
    BY <1>4, <2>2, <2>3 DEF SendQueued
<1>5. CASE UNCHANGED <<st, streams>> /\ Todo' = Todo
  BY <1>1, <1>5, QuietGrows
<1>6. CASE EventsEnd
  <2>1. UNCHANGED <<st, streams>> /\ Todo' = Todo
    BY <1>6 DEF EventsEnd, sessionState, Todo, EventsInv, PhaseInv
  <2> QED
    BY <1>5, <2>1
<1>7. CASE WriteFails \/ BufferEnd \/ ProcessEnd \/ WriteTrailers
  <2>1. UNCHANGED <<st, streams, events>> /\ phase # "events" /\ phase' # "events"
    BY <1>7 DEF WriteFails, BufferEnd, ProcessEnd, WriteTrailers, sessionState, Buffering
  <2> QED
    BY <1>5, <2>1 DEF Todo
<1>8. ASSUME NEW s \in Streams, SendData(s) PROVE BoundInv'
  <2>1. UNCHANGED <<st, streams, events, phase, evs>>
    BY <1>8 DEF SendData
  <2> QED
    BY <1>5, <2>1 DEF Todo
<1>9. ASSUME NEW n \in 0..MaxBody, Write(n) PROVE BoundInv'
  <2>1. UNCHANGED <<st, streams, events>> /\ phase # "events" /\ phase' # "events"
    BY <1>9 DEF Write, SubmitData, Thrown
  <2> QED
    BY <1>5, <2>1 DEF Todo
<1>10. CASE UNCHANGED h2Vars
  BY <1>5, <1>10 DEF h2Vars, Todo
<1> QED
  BY <1>3, <1>4, <1>6, <1>7, <1>8, <1>9, <1>10, HandleBound DEF H2Next

\* _streams never holds more requests than SETTINGS_MAX_CONCURRENT_STREAMS,
\* although conn::read only learns from events that a stream is closed.
THEOREM StreamsBoundedAlways == H2Spec => []StreamsBounded
<1>1. H2Init => BoundInv
  <2> SUFFICES ASSUME H2Init PROVE BoundInv
    OBVIOUS
  <2>1. Live = {} /\ Len(Todo) = 0
    BY DEF H2Init, Live, Todo
  <2>2. \A k \in 0..Len(Todo) : {s \in Streams : Held(Todo, k, s)} = {}
    BY <2>1 DEF H2Init, Held
  <2> QED
    BY <2>1, <2>2, FS_EmptySet, H2Assumption DEF BoundInv
<1>2. EventsInv /\ BoundInv => StreamsBounded
  <2> SUFFICES ASSUME EventsInv, BoundInv PROVE StreamsBounded
    OBVIOUS
  <2>1. 0 \in 0..Len(Todo)
    BY TodoType DEF EventsInv
  <2>2. {s \in Streams : Held(Todo, 0, s)} = {s \in Streams : streams[s] # NoRequest}
    BY DEF Held
  <2> QED
    BY <2>1, <2>2 DEF BoundInv, StreamsBounded
<1> QED
  BY <1>1, <1>2, BoundStep, EventsInvariant, PTL DEF H2Spec
=============================================================================
