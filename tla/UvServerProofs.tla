--------------------------- MODULE UvServerProofs ---------------------------
(***************************************************************************)
(* Proofs about UvServer, for any number of connections, workers and       *)
(* chunks, with and without a stop token.                                  *)
(*                                                                         *)
(* Every step of the server is a step of Scheduler or leaves it alone, so  *)
(* the invariant of SchedulerProofs holds in the server.  On top of it,    *)
(* ConnInv relates what each connection coroutine awaits to the state of   *)
(* its stream, its task and the loop.                                      *)
(***************************************************************************)
EXTENDS UvServer, SchedulerProofs

\* What the coroutine of a connection awaits is what owns the connection.
Owned(c) ==
  /\ c \in reading => coro[c] = "read"
  /\ c \in writing <=> coro[c] = "write"
  /\ task[c] # "none" <=> coro[c] = "task"
  /\ coro[c] \in {"read", "task", "write"} /\ loop \notin {"walked", "closed"} =>
       handle[c] = "open"

\* The order of shutdown: join() has returned when uv_run does, the workers
\* have been joined when ~loop() begins.
ShutdownOrder ==
  /\ io = "join" => loop \in {"run", "stopping"}
  /\ loop \in {"walked", "closed", "aborted"} => life = "destroyed"
  /\ life = "destroyed" => \A w \in Workers : pc[w] \in {"none", "exited"}

ConnTypes ==
  /\ coro \in [Conns -> {"none", "read", "task", "write", "done"}]
  /\ reading \in SUBSET Conns /\ writing \in SUBSET Conns
  /\ handle \in [Conns -> {"none", "open", "closing", "closed"}]
  /\ loop \in {"run", "stopping", "stopped", "walked", "closed", "aborted"}

ConnInv ==
  /\ ConnTypes
  /\ ShutdownOrder
  /\ loop # "aborted" => \A c \in Conns : Owned(c)

-----------------------------------------------------------------------------
LEMMA ServerStepsScheduler == [ServerNext]_serverVars => [Next]_vars
<1> SUFFICES ASSUME [ServerNext]_serverVars PROVE Next \/ UNCHANGED vars
  OBVIOUS
<1>1. ASSUME NEW c \in Conns, ConnNext(c) PROVE Next \/ UNCHANGED vars
  BY <1>1 DEF ConnNext, AcceptConn, ReadData, ReadInline, ReadEnd, WriteDone, WriteFailed,
              CloseCb, schedVars, Next, IoNext
<1>2. ASSUME JoinNext PROVE Next
  BY <1>2 DEF JoinNext, ResumeConn, Next, IoNext
<1>3. ASSUME NEW w \in Workers, WorkerStep(w) PROVE Next
  BY <1>3 DEF WorkerStep, Handle, Next, WorkerNext
<1>4. ASSUME ShutdownNext PROVE Next \/ UNCHANGED vars
  BY <1>4 DEF ShutdownNext, StopTimer, RunReturns, DestroyScheduler, LoopWalk, LoopClosed,
              schedVars, Next
<1>5. ASSUME UNCHANGED serverVars PROVE UNCHANGED vars
  BY <1>5 DEF serverVars
<1> QED
  BY <1>1, <1>2, <1>3, <1>4, <1>5 DEF ServerNext

\* The scheduler inside the server behaves as Scheduler says.
THEOREM ServerUsesScheduler == ServerSpec => Spec
<1>1. ServerInit => Init
  BY DEF ServerInit
<1> QED
  BY <1>1, ServerStepsScheduler, PTL DEF ServerSpec, Spec

LEMMA InitConnInv == ServerInit => ConnInv
  BY DEF ServerInit, Init, ConnInv, ConnTypes, ShutdownOrder, Owned

\* A step of the loop that only moves connection c: the other connections keep
\* what they await, and c ends up owned.
LEMMA OneConnMoves ==
  ASSUME ConnInv, NEW c \in Conns,
         loop \in {"run", "stopping"}, UNCHANGED <<io, loop, life, pc>>,
         coro' \in [Conns -> {"none", "read", "task", "write", "done"}],
         reading' \in SUBSET Conns, writing' \in SUBSET Conns,
         handle' \in [Conns -> {"none", "open", "closing", "closed"}],
         Owned(c)',
         \A d \in Conns \ {c} : /\ coro'[d] = coro[d] /\ handle'[d] = handle[d]
                                /\ task'[d] = task[d]
                                /\ d \in reading' <=> d \in reading
                                /\ d \in writing' <=> d \in writing
  PROVE  ConnInv'
<1>1. ConnTypes' /\ ShutdownOrder'
  BY DEF ConnInv, ConnTypes, ShutdownOrder
<1>2. ASSUME NEW d \in Conns \ {c} PROVE Owned(d)'
  BY <1>2 DEF ConnInv, Owned
<1> QED
  BY <1>1, <1>2 DEF ConnInv

LEMMA NextConnInv ==
  ASSUME IInv, IInv', ConnInv, [ServerNext]_serverVars
  PROVE  ConnInv'
<1>a. task \in [Conns -> TaskState] /\ pc \in [Workers -> {"none", "loop", "run", "final", "send", "exited"}]
  BY DEF IInv, TypeOK
<1>b. ConnTypes /\ ShutdownOrder
  BY DEF ConnInv
<1>1. ASSUME NEW c \in Conns, AcceptConn(c) PROVE ConnInv'
  <2>1. Owned(c)
    BY <1>1 DEF AcceptConn, ConnInv
  <2>2. Owned(c)'
    BY <1>a, <1>b, <1>1, <2>1 DEF AcceptConn, AwaitReader, EndCoroutine, ConnTypes, Owned,
                                  schedVars, vars
  <2> QED
    BY <1>b, <1>1, <2>2, OneConnMoves
       DEF AcceptConn, AwaitReader, EndCoroutine, ConnTypes, schedVars, vars
<1>2. ASSUME NEW c \in Conns, ReadData(c) PROVE ConnInv'
  <2>1. Owned(c) /\ coro[c] = "read" /\ Run(c)
    BY <1>2 DEF ReadData, Polling, ConnInv, Owned
  <2>2. Owned(c)'
    BY <1>a, <1>b, <1>2, <2>1 DEF ReadData, Run, ConnTypes, Owned
  <2> QED
    BY <1>a, <1>b, <1>2, <2>1, <2>2, OneConnMoves
       DEF ReadData, Polling, Run, ConnTypes
<1>3. ASSUME NEW c \in Conns, ReadInline(c) PROVE ConnInv'
  <2>1. Owned(c) /\ coro[c] = "read"
    BY <1>3 DEF ReadInline, Polling, ConnInv, Owned
  <2>2. Owned(c)'
    BY <1>a, <1>b, <1>3, <2>1 DEF ReadInline, Flush, AwaitReader, StartWrite, ConnTypes, Owned,
                                  schedVars, vars
  <2> QED
    BY <1>b, <1>3, <2>2, OneConnMoves
       DEF ReadInline, Polling, Flush, AwaitReader, StartWrite, ConnTypes, schedVars, vars
<1>4. ASSUME NEW c \in Conns, ReadEnd(c) PROVE ConnInv'
  <2>1. Owned(c) /\ coro[c] = "read"
    BY <1>4 DEF ReadEnd, Polling, ConnInv
  <2>2. Owned(c)'
    BY <1>a, <1>b, <1>4, <2>1 DEF ReadEnd, EndCoroutine, ConnTypes, Owned, schedVars, vars
  <2> QED
    BY <1>b, <1>4, <2>2, OneConnMoves
       DEF ReadEnd, Polling, EndCoroutine, ConnTypes, schedVars, vars
<1>5. ASSUME NEW c \in Conns, WriteDone(c) \/ WriteFailed(c) PROVE ConnInv'
  <2>1. Owned(c) /\ coro[c] = "write"
    BY <1>5 DEF WriteDone, WriteFailed, Polling, ConnInv
  <2>2. Owned(c)'
    BY <1>a, <1>b, <1>5, <2>1 DEF WriteDone, WriteFailed, AwaitReader, ConnTypes, Owned,
                                  schedVars, vars
  <2> QED
    BY <1>b, <1>5, <2>2, OneConnMoves
       DEF WriteDone, WriteFailed, Polling, AwaitReader, ConnTypes, schedVars, vars
<1>6. ASSUME NEW c \in Conns, CloseCb(c) PROVE ConnInv'
  <2>1. c \in writing => loop = "walked"
    BY <1>6 DEF CloseCb, ConnInv, Owned
  <2>2. ConnTypes' /\ ShutdownOrder'
    BY <1>b, <1>6, <2>1 DEF CloseCb, ConnTypes, ShutdownOrder, schedVars, vars
  <2>3. ASSUME NEW d \in Conns, loop' # "aborted" PROVE Owned(d)'
    BY <1>b, <1>6, <2>3 DEF CloseCb, ConnTypes, ConnInv, Owned, schedVars, vars
  <2> QED
    BY <2>2, <2>3 DEF ConnInv
<1>7. ASSUME ResumeConn PROVE ConnInv'
  <2>1. PICK c \in Conns : c = Head(joiners) /\ task[c] = "joining"
    BY <1>7, PopQueue DEF ResumeConn, JoinPop, IInv, TypeOK, QueuesExact, InState
  <2>2. loop \in {"run", "stopping"} /\ UNCHANGED <<io, loop, life, pc>>
    BY <1>b, <1>7 DEF ResumeConn, JoinPop, ShutdownOrder
  <2>3. /\ Flush(c, buffer[c]) /\ UNCHANGED handle
        /\ task' = [task EXCEPT ![c] = "none"]
    BY <1>7, <2>1 DEF ResumeConn, JoinPop
  <2>4. Owned(c)
    BY <2>2 DEF ConnInv
  <2>5. Owned(c)'
    BY <1>a, <1>b, <2>1, <2>2, <2>3, <2>4 DEF Flush, AwaitReader, StartWrite, ConnTypes, Owned
  <2> QED
    BY <1>a, <1>b, <2>2, <2>3, <2>5, OneConnMoves
       DEF Flush, AwaitReader, StartWrite, ConnTypes
<1>8. ASSUME JoinBegin \/ JoinEnd, loop \in {"run", "stopping"}, UNCHANGED <<connVars, loop>>
      PROVE  ConnInv'
  <2>1. UNCHANGED <<task, pc, life, coro, reading, writing, handle, loop>>
    BY <1>8 DEF JoinBegin, JoinEnd, connVars
  <2> QED
    BY <1>8, <2>1 DEF ConnInv, ConnTypes, ShutdownOrder, Owned
<1>9. ASSUME NEW w \in Workers, WorkerStep(w) PROVE ConnInv'
  <2>1. UNCHANGED <<coro, reading, writing, handle, loop, io, life>>
    BY <1>9 DEF WorkerStep, Handle, Take, Exec, Complete, Send, Exit, connVars
  <2>2. pc[w] \notin {"none", "exited"}
    BY <1>9 DEF WorkerStep, Handle, Take, Exec, Complete, Send, Exit
  <2>3. life # "destroyed"
    BY <1>b, <2>2 DEF ShutdownOrder
  <2>4. \A c \in Conns : task'[c] # "none" <=> task[c] # "none"
    <3>1. CASE \E c \in Conns, s \in TaskState \ {"none"} :
                 task[c] # "none" /\ task' = [task EXCEPT ![c] = s]
      BY <1>a, <3>1
    <3>2. CASE task' = task
      BY <3>2
    <3>3. CASE Take(w)
      <4>1. PICK c \in Conns : c = Head(shifters) /\ task[c] = "queued"
        BY <3>3, PopQueue DEF Take, IInv, TypeOK, QueuesExact, InState
      <4> QED
        BY <3>1, <3>3, <4>1 DEF Take, TaskState
    <3>4. CASE Exec(w) \/ Complete(w)
      <4>1. PICK c \in Conns : c = cur[w] /\ task[c] \in {"running", "returned"}
        BY <3>4 DEF Exec, Complete, IInv, HandsExact, InState
      <4> QED
        BY <3>1, <3>4, <4>1 DEF Exec, Complete, TaskState
    <3> QED
      BY <1>9, <3>2, <3>3, <3>4 DEF WorkerStep, Handle, Send, Exit
  <2> QED
    BY <2>1, <2>3, <2>4 DEF ConnInv, ConnTypes, ShutdownOrder, Owned
<1>10. ASSUME ShutdownNext PROVE ConnInv'
  <2>1. CASE StopTimer \/ RunReturns
    BY <2>1 DEF StopTimer, RunReturns, schedVars, vars, connVars, ConnInv, ConnTypes,
                ShutdownOrder, Owned
  <2>2. CASE DestroyScheduler
    <3>1. UNCHANGED <<task, io, pc, coro, reading, writing, handle>> /\ loop = "stopped"
      BY <2>2 DEF DestroyScheduler, Stop, Destroy, connVars
    <3>2. loop' = loop \/ (loop' = "aborted" /\ life' = "destroyed")
      BY <2>2 DEF DestroyScheduler, Destroy
    <3>3. life' = "destroyed" => \A w \in Workers : pc[w] \in {"none", "exited"}
      BY <2>2 DEF DestroyScheduler, Stop, Destroy, Threads
    <3> QED
      BY <3>1, <3>2, <3>3 DEF ConnInv, ConnTypes, ShutdownOrder, Owned
  <2>3. CASE LoopWalk
    <3>1. ConnTypes' /\ ShutdownOrder'
      BY <1>b, <2>3 DEF LoopWalk, ConnTypes, ShutdownOrder, schedVars, vars
    <3>2. ASSUME NEW c \in Conns PROVE Owned(c)'
      BY <2>3 DEF LoopWalk, ConnInv, Owned, schedVars, vars
    <3> QED
      BY <3>1, <3>2 DEF ConnInv
  <2>4. CASE LoopClosed
    BY <2>4 DEF LoopClosed, schedVars, vars, connVars, ConnInv, ConnTypes, ShutdownOrder, Owned
  <2> QED
    BY <1>10, <2>1, <2>2, <2>3, <2>4 DEF ShutdownNext
<1>11. ASSUME UNCHANGED serverVars PROVE ConnInv'
  BY <1>11 DEF serverVars, vars, connVars, ConnInv, ConnTypes, ShutdownOrder, Owned
<1> QED
  BY <1>1, <1>2, <1>3, <1>4, <1>5, <1>6, <1>7, <1>8, <1>9, <1>10, <1>11
     DEF ServerNext, ConnNext, JoinNext

-----------------------------------------------------------------------------
(* The bytes of a connection.                                              *)

\* The chunk in _buf that its task has not parsed yet.
Unparsed(c) == IF task[c] \in {"queued", "running"} THEN 1 ELSE 0

InOrder(c) ==
  /\ \A i \in 1..Len(parsed[c]) : parsed[c][i] = i
  /\ received[c] = Len(parsed[c]) + Unparsed(c)

IsPrefixOf(s, t) == \E k \in 0..Len(t) : s = SubSeq(t, 1, k)

Conserved(c) ==
  IF c \in broken THEN IsPrefixOf(wire[c], out[c]) ELSE wire[c] \o buffer[c] = out[c]

DataTypes ==
  /\ received \in [Conns -> 0..MaxReads] /\ broken \in SUBSET Conns
  /\ parsed \in [Conns -> Chunks] /\ out \in [Conns -> Chunks]
  /\ buffer \in [Conns -> Chunks] /\ wire \in [Conns -> Chunks]

DataInv == DataTypes /\ \A c \in Conns : InOrder(c) /\ Conserved(c)

LEMMA PrefixGrows ==
  ASSUME NEW S, NEW s \in Seq(S), NEW t \in Seq(S), NEW e \in S, IsPrefixOf(s, t)
  PROVE  IsPrefixOf(s, Append(t, e))
<1>1. PICK k \in 0..Len(t) : s = SubSeq(t, 1, k)
  BY DEF IsPrefixOf
<1>2. Len(t) \in Nat /\ Append(t, e) = t \o <<e>> /\ Len(Append(t, e)) = Len(t) + 1 /\ <<e>> \in Seq(S)
  BY AppendIsConcat, AppendProperties, LenProperties
<1>3. CASE k = 0
  <2>1. s = SubSeq(Append(t, e), 1, 0)
    BY <1>1, <1>3, SubSeqEmpty
  <2> QED
    BY <1>2, <2>1 DEF IsPrefixOf
<1>4. CASE k # 0
  <2>1. SubSeq(t \o <<e>>, 1, k) = SubSeq(t, 1, k)
    BY <1>1, <1>2, <1>4, SubSeqOfConcat1
  <2> QED
    BY <1>1, <1>2, <2>1 DEF IsPrefixOf
<1> QED
  BY <1>3, <1>4

\* What has left when a write of b fails after k chunks.
LEMMA PartialWrite ==
  ASSUME NEW S, NEW s \in Seq(S), NEW b \in Seq(S), NEW k \in 0..Len(b)
  PROVE  /\ s \o SubSeq(b, 1, k) \in Seq(S)
         /\ IsPrefixOf(s \o SubSeq(b, 1, k), s \o b)
<1> DEFINE p == SubSeq(b, 1, k)
           l == s \o p
           t == s \o b
           r == SubSeq(t, 1, Len(s) + k)
<1>1. Len(s) \in Nat /\ Len(b) \in Nat /\ \A i \in 1..Len(b) : b[i] \in S
  BY LenProperties, ElementOfSeq
<1>2. p \in Seq(S) /\ Len(p) = k /\ \A i \in 1..k : p[i] = b[i]
  BY <1>1, SubSeqProperties
<1>3. /\ l \in Seq(S) /\ Len(l) = Len(s) + k
      /\ \A i \in 1..(Len(s) + k) : l[i] = IF i <= Len(s) THEN s[i] ELSE p[i - Len(s)]
  BY <1>2, ConcatProperties
<1>4. /\ t \in Seq(S) /\ Len(t) = Len(s) + Len(b)
      /\ \A i \in 1..(Len(s) + Len(b)) : t[i] = IF i <= Len(s) THEN s[i] ELSE b[i - Len(s)]
  BY ConcatProperties
<1>5. \A i \in 1..(Len(s) + k) : t[i] \in S
  BY <1>1, <1>4, ElementOfSeq
<1>6. r \in Seq(S) /\ Len(r) = Len(s) + k /\ \A i \in 1..(Len(s) + k) : r[i] = t[i]
  BY <1>1, <1>5, SubSeqProperties
<1> HIDE DEF p, l, t, r
<1>7. ASSUME NEW i \in 1..Len(l) PROVE l[i] = r[i]
  <2>1. i \in 1..(Len(s) + k) /\ i \in 1..(Len(s) + Len(b)) /\ r[i] = t[i]
    BY <1>1, <1>3, <1>6
  <2>2. CASE i <= Len(s)
    BY <1>3, <1>4, <2>1, <2>2
  <2>3. CASE ~(i <= Len(s))
    <3>1. i - Len(s) \in 1..k
      BY <1>1, <2>1, <2>3
    <3> QED
      BY <1>2, <1>3, <1>4, <2>1, <2>3, <3>1
  <2> QED
    BY <2>2, <2>3
<1>8. l = r
  BY <1>3, <1>6, <1>7, SeqEqual
<1>9. Len(s) + k \in 0..Len(t)
  BY <1>1, <1>4
<1> QED
  BY <1>3, <1>8, <1>9 DEF IsPrefixOf, p, l, t, r

LEMMA AppendBoth ==
  ASSUME NEW S, NEW s \in Seq(S), NEW b \in Seq(S), NEW e \in S
  PROVE  s \o Append(b, e) = Append(s \o b, e)
<1>1. Append(b, e) = b \o <<e>> /\ <<e>> \in Seq(S) /\ s \o b \in Seq(S)
  BY AppendIsConcat, ConcatProperties
<1>2. Append(s \o b, e) = (s \o b) \o <<e>>
  BY <1>1, AppendIsConcat
<1> QED
  BY <1>1, <1>2, ConcatAssociative

\* A chunk is parsed, by a worker or on the I/O thread.
LEMMA ProcessKeeps ==
  ASSUME DataTypes, NEW c \in Conns, Conserved(c), NEW chunk \in 1..MaxReads,
         \A i \in 1..Len(parsed[c]) : parsed[c][i] = i, chunk = Len(parsed[c]) + 1,
         Process(c, chunk), UNCHANGED <<wire, broken>>
  PROVE  /\ parsed' \in [Conns -> Chunks] /\ out' \in [Conns -> Chunks]
         /\ buffer' \in [Conns -> Chunks]
         /\ Len(parsed'[c]) = chunk /\ \A i \in 1..chunk : parsed'[c][i] = i
         /\ Conserved(c)'
         /\ \A d \in Conns \ {c} : /\ parsed'[d] = parsed[d] /\ out'[d] = out[d]
                                   /\ buffer'[d] = buffer[d]
<1>1. /\ parsed[c] \in Chunks /\ out[c] \in Chunks /\ buffer[c] \in Chunks /\ wire[c] \in Chunks
  BY DEF DataTypes
<1>2. parsed' = [parsed EXCEPT ![c] = Append(parsed[c], chunk)]
  BY DEF Process
<1>3. /\ Append(parsed[c], chunk) \in Chunks
      /\ Len(Append(parsed[c], chunk)) = chunk
      /\ \A i \in 1..chunk : Append(parsed[c], chunk)[i] = i
  BY <1>1, AppendProperties, LenProperties DEF Chunks
<1>4. /\ parsed' \in [Conns -> Chunks] /\ parsed'[c] = Append(parsed[c], chunk)
      /\ \A d \in Conns \ {c} : parsed'[d] = parsed[d]
  BY <1>2, <1>3 DEF DataTypes
<1>5. CASE UNCHANGED <<out, buffer>>
  BY <1>3, <1>4, <1>5 DEF DataTypes, Conserved
<1>6. CASE /\ out' = [out EXCEPT ![c] = Append(out[c], chunk)]
           /\ buffer' = [buffer EXCEPT ![c] = Append(buffer[c], chunk)]
  <2>1. Append(out[c], chunk) \in Chunks /\ Append(buffer[c], chunk) \in Chunks
    BY <1>1, AppendProperties DEF Chunks
  <2>2. /\ out' \in [Conns -> Chunks] /\ out'[c] = Append(out[c], chunk)
        /\ buffer' \in [Conns -> Chunks] /\ buffer'[c] = Append(buffer[c], chunk)
        /\ \A d \in Conns \ {c} : out'[d] = out[d] /\ buffer'[d] = buffer[d]
    BY <1>6, <2>1 DEF DataTypes
  <2>3. CASE c \in broken
    <3>1. IsPrefixOf(wire[c], Append(out[c], chunk))
      BY <1>1, <2>3, PrefixGrows DEF Conserved, Chunks
    <3> QED
      BY <1>3, <1>4, <2>2, <2>3, <3>1 DEF Conserved, IsPrefixOf
  <2>4. CASE c \notin broken
    <3>1. wire[c] \o Append(buffer[c], chunk) = Append(wire[c] \o buffer[c], chunk)
      <4> DEFINE S == 1..MaxReads
                 s == wire[c]
                 b == buffer[c]
      <4>1. s \in Seq(S) /\ b \in Seq(S) /\ chunk \in S
        BY <1>1 DEF Chunks
      <4> HIDE DEF S, s, b
      <4>2. s \o Append(b, chunk) = Append(s \o b, chunk)
        BY <4>1, AppendBoth
      <4> QED
        BY <4>2 DEF s, b
    <3>2. wire[c] \o Append(buffer[c], chunk) = Append(out[c], chunk)
      BY <2>4, <3>1 DEF Conserved
    <3> QED
      BY <1>3, <1>4, <2>2, <2>4, <3>2 DEF Conserved
  <2> QED
    BY <2>3, <2>4
<1> QED
  BY <1>5, <1>6 DEF Process

\* The step leaves the bytes of every connection alone, and no task starts or
\* ends its function.
LEMMA DataUnchanged ==
  ASSUME DataInv, UNCHANGED <<received, parsed, out, buffer, wire, broken>>,
         \A c \in Conns : Unparsed(c)' = Unparsed(c)
  PROVE  DataInv'
<1>1. ASSUME NEW c \in Conns PROVE InOrder(c)' /\ Conserved(c)'
  BY <1>1 DEF DataInv, InOrder, Conserved, IsPrefixOf
<1> QED
  BY <1>1 DEF DataInv, DataTypes

LEMMA NextDataInv ==
  ASSUME IInv, ConnInv, DataInv, [ServerNext]_serverVars
  PROVE  DataInv'
<1>a. DataTypes /\ task \in [Conns -> TaskState] /\ MaxReads \in Nat
  BY ServerAssumption DEF DataInv, IInv, TypeOK
<1>1. ASSUME NEW c \in Conns, ReadData(c) PROVE DataInv'
  <2>1. coro[c] = "read" /\ task[c] = "none" /\ Run(c)
    BY <1>1 DEF ReadData, Polling, ConnInv, Owned
  <2>2. /\ task' = [task EXCEPT ![c] = "queued"]
        /\ received' = [received EXCEPT ![c] = received[c] + 1]
        /\ UNCHANGED <<parsed, out, buffer, wire, broken>> /\ received[c] < MaxReads
    BY <1>1, <2>1 DEF ReadData, Run
  <2>3. DataTypes'
    BY <1>a, <2>2 DEF DataTypes
  <2>4. ASSUME NEW d \in Conns PROVE InOrder(d)' /\ Conserved(d)'
    <3>1. Conserved(d)'
      BY <2>2 DEF DataInv, Conserved, IsPrefixOf
    <3>2. InOrder(d) /\ Len(parsed[d]) \in Nat
      BY <1>a, LenProperties DEF DataInv, DataTypes, Chunks
    <3>3. InOrder(d)'
      BY <1>a, <2>1, <2>2, <3>2 DEF DataTypes, InOrder, Unparsed
    <3> QED
      BY <3>1, <3>3
  <2> QED
    BY <2>3, <2>4 DEF DataInv
<1>2. ASSUME NEW c \in Conns, ReadInline(c) PROVE DataInv'
  <2>1. coro[c] = "read" /\ task[c] = "none"
    BY <1>2 DEF ReadInline, Polling, ConnInv, Owned
  <2>2. InOrder(c) /\ Conserved(c) /\ Len(parsed[c]) \in Nat
    BY <1>a, LenProperties DEF DataInv, DataTypes, Chunks
  <2>3. /\ received[c] + 1 \in 1..MaxReads /\ received[c] + 1 = Len(parsed[c]) + 1
        /\ received' = [received EXCEPT ![c] = received[c] + 1]
    BY <1>a, <1>2, <2>1, <2>2 DEF ReadInline, InOrder, Unparsed, DataTypes
  <2>a. received'[c] = received[c] + 1
    BY <1>a, <2>3 DEF DataTypes
  <2>4. UNCHANGED <<task, wire, broken>> /\ Process(c, received[c] + 1)
    BY <1>2, <2>1, <2>a DEF ReadInline, schedVars, vars
  <2>5. /\ parsed' \in [Conns -> Chunks] /\ out' \in [Conns -> Chunks]
        /\ buffer' \in [Conns -> Chunks]
        /\ Len(parsed'[c]) = received[c] + 1
        /\ \A i \in 1..(received[c] + 1) : parsed'[c][i] = i
        /\ Conserved(c)'
        /\ \A d \in Conns \ {c} : /\ parsed'[d] = parsed[d] /\ out'[d] = out[d]
                                  /\ buffer'[d] = buffer[d]
    BY <1>a, <2>2, <2>3, <2>4, ProcessKeeps DEF InOrder
  <2>6. DataTypes'
    <3>1. received' \in [Conns -> 0..MaxReads]
      BY <1>a, <2>3 DEF DataTypes
    <3> QED
      BY <1>a, <2>4, <2>5, <3>1 DEF DataTypes
  <2>7. InOrder(c)'
    BY <1>a, <2>1, <2>3, <2>4, <2>5 DEF InOrder, Unparsed, DataTypes
  <2>8. ASSUME NEW d \in Conns \ {c} PROVE InOrder(d)' /\ Conserved(d)'
    <3>1. InOrder(d) /\ Conserved(d) /\ received'[d] = received[d]
      BY <1>a, <2>3 DEF DataInv, DataTypes
    <3>2. InOrder(d)'
      BY <2>4, <2>5, <3>1 DEF InOrder, Unparsed
    <3>3. Conserved(d)'
      BY <2>4, <2>5, <3>1 DEF Conserved, IsPrefixOf
    <3> QED
      BY <3>2, <3>3
  <2> QED
    BY <2>5, <2>6, <2>7, <2>8 DEF DataInv
<1>3. ASSUME NEW w \in Workers, Handle(w) PROVE DataInv'
  <2>1. PICK c \in Conns : c = cur[w] /\ task[c] = "running"
    BY <1>3 DEF Handle, Exec, IInv, HandsExact, InState
  <2>2. InOrder(c) /\ Conserved(c) /\ Len(parsed[c]) \in Nat
    BY <1>a, LenProperties DEF DataInv, DataTypes, Chunks
  <2>3. received[c] \in 1..MaxReads /\ received[c] = Len(parsed[c]) + 1
    BY <1>a, <2>1, <2>2 DEF InOrder, Unparsed, DataTypes
  <2>4. /\ task' = [task EXCEPT ![c] = "returned"] /\ UNCHANGED <<received, wire, broken>>
        /\ Process(c, received[c])
    BY <1>3, <2>1 DEF Handle, Exec
  <2>5. /\ parsed' \in [Conns -> Chunks] /\ out' \in [Conns -> Chunks]
        /\ buffer' \in [Conns -> Chunks]
        /\ Len(parsed'[c]) = received[c]
        /\ \A i \in 1..received[c] : parsed'[c][i] = i
        /\ Conserved(c)'
        /\ \A d \in Conns \ {c} : /\ parsed'[d] = parsed[d] /\ out'[d] = out[d]
                                  /\ buffer'[d] = buffer[d]
    BY <1>a, <2>2, <2>3, <2>4, ProcessKeeps DEF InOrder
  <2>6. DataTypes'
    BY <1>a, <2>4, <2>5 DEF DataTypes
  <2>7. InOrder(c)'
    BY <1>a, <2>3, <2>4, <2>5 DEF InOrder, Unparsed, DataTypes
  <2>8. ASSUME NEW d \in Conns \ {c} PROVE InOrder(d)' /\ Conserved(d)'
    BY <1>a, <2>4, <2>5, <2>8
       DEF DataInv, DataTypes, InOrder, Unparsed, Conserved, IsPrefixOf
  <2> QED
    BY <2>5, <2>6, <2>7, <2>8 DEF DataInv
<1>4. ASSUME NEW c \in Conns, WriteDone(c) PROVE DataInv'
  <2>1. /\ c \notin broken /\ UNCHANGED <<task, received, parsed, out, broken>>
        /\ wire' = [wire EXCEPT ![c] = wire[c] \o buffer[c]]
        /\ buffer' = [buffer EXCEPT ![c] = <<>>]
    BY <1>4 DEF WriteDone, schedVars, vars
  <2>2. wire[c] \in Seq(1..MaxReads) /\ buffer[c] \in Seq(1..MaxReads)
    BY <1>a DEF DataTypes, Chunks
  <2>3. /\ wire[c] \o buffer[c] \in Seq(1..MaxReads) /\ <<>> \in Seq(1..MaxReads)
        /\ (wire[c] \o buffer[c]) \o <<>> = wire[c] \o buffer[c]
    BY <2>2, ConcatProperties, ConcatEmptySeq, EmptySeq
  <2>4. DataTypes'
    BY <1>a, <2>1, <2>3 DEF DataTypes, Chunks
  <2>5. wire'[c] = wire[c] \o buffer[c] /\ buffer'[c] = <<>>
    BY <1>a, <2>1 DEF DataTypes
  <2>6. Conserved(c)'
    BY <2>1, <2>3, <2>5 DEF DataInv, Conserved
  <2>7. ASSUME NEW d \in Conns \ {c} PROVE Conserved(d)'
    BY <1>a, <2>1, <2>7 DEF DataInv, DataTypes, Conserved, IsPrefixOf
  <2>8. ASSUME NEW d \in Conns PROVE InOrder(d)'
    BY <2>1, <2>8 DEF DataInv, InOrder, Unparsed
  <2> QED
    BY <2>4, <2>6, <2>7, <2>8 DEF DataInv
<1>5. ASSUME NEW c \in Conns, WriteFailed(c) PROVE DataInv'
  <2>1. broken' = broken \cup {c} /\ UNCHANGED <<task, received, parsed, out, buffer>>
    BY <1>5 DEF WriteFailed, schedVars, vars
  <2>2. /\ wire' \in [Conns -> Chunks] /\ IsPrefixOf(wire'[c], out[c])
        /\ \A d \in Conns \ {c} : wire'[d] = wire[d]
    <3>1. CASE c \in broken /\ UNCHANGED wire
      BY <1>a, <3>1 DEF DataInv, DataTypes, Conserved
    <3>2. ASSUME c \notin broken, NEW k \in 0..(Len(buffer[c]) - 1),
                 wire' = [wire EXCEPT ![c] = wire[c] \o SubSeq(buffer[c], 1, k)]
          PROVE  /\ wire' \in [Conns -> Chunks] /\ IsPrefixOf(wire'[c], out[c])
                 /\ \A d \in Conns \ {c} : wire'[d] = wire[d]
      <4>1. wire[c] \in Seq(1..MaxReads) /\ buffer[c] \in Seq(1..MaxReads)
        BY <1>a DEF DataTypes, Chunks
      <4>2. k \in 0..Len(buffer[c])
        BY <3>2, <4>1, LenProperties
      <4>3. /\ wire[c] \o SubSeq(buffer[c], 1, k) \in Seq(1..MaxReads)
            /\ IsPrefixOf(wire[c] \o SubSeq(buffer[c], 1, k), wire[c] \o buffer[c])
        BY <4>1, <4>2, PartialWrite, Zenon
      <4>4. wire[c] \o buffer[c] = out[c]
        BY <3>2 DEF DataInv, Conserved
      <4>5. wire'[c] = wire[c] \o SubSeq(buffer[c], 1, k)
        BY <1>a, <3>2 DEF DataTypes
      <4>6. IsPrefixOf(wire'[c], out[c])
        BY <4>3, <4>4, <4>5
      <4> QED
        BY <1>a, <3>2, <4>3, <4>6 DEF DataTypes, Chunks
    <3> QED
      BY <1>5, <3>1, <3>2 DEF WriteFailed
  <2>3. DataTypes'
    BY <1>a, <2>1, <2>2 DEF DataTypes
  <2>4. Conserved(c)'
    BY <2>1, <2>2 DEF Conserved, IsPrefixOf
  <2>5. ASSUME NEW d \in Conns \ {c} PROVE Conserved(d)'
    BY <2>1, <2>2, <2>5 DEF DataInv, Conserved, IsPrefixOf
  <2>6. ASSUME NEW d \in Conns PROVE InOrder(d)'
    BY <2>1, <2>6 DEF DataInv, InOrder, Unparsed
  <2> QED
    BY <2>3, <2>4, <2>5, <2>6 DEF DataInv
<1>6. ASSUME UNCHANGED <<received, parsed, out, buffer, wire, broken>>, UNCHANGED task
      PROVE  DataInv'
  BY <1>6, DataUnchanged DEF Unparsed
<1>7. ASSUME ResumeConn PROVE DataInv'
  <2>1. PICK c \in Conns : c = Head(joiners) /\ task[c] = "joining"
    BY <1>7, PopQueue DEF ResumeConn, JoinPop, IInv, TypeOK, QueuesExact, InState
  <2>2. task' = [task EXCEPT ![c] = "none"]
    BY <1>7, <2>1 DEF ResumeConn, JoinPop
  <2>3. \A d \in Conns : Unparsed(d)' = Unparsed(d)
    BY <1>a, <2>1, <2>2 DEF Unparsed
  <2> QED
    BY <1>7, <2>3, DataUnchanged DEF ResumeConn
<1>8. ASSUME NEW w \in Workers, Take(w), UNCHANGED <<connVars, loop>> PROVE DataInv'
  <2>1. PICK c \in Conns : c = Head(shifters) /\ task[c] = "queued"
    BY <1>8, PopQueue DEF Take, IInv, TypeOK, QueuesExact, InState
  <2>2. task' = [task EXCEPT ![c] = "running"]
    BY <1>8, <2>1 DEF Take
  <2>3. \A d \in Conns : Unparsed(d)' = Unparsed(d)
    BY <1>a, <2>1, <2>2 DEF Unparsed
  <2> QED
    BY <1>8, <2>3, DataUnchanged DEF connVars
<1>9. ASSUME NEW w \in Workers, Complete(w), UNCHANGED <<connVars, loop>> PROVE DataInv'
  <2>1. PICK c \in Conns : c = cur[w] /\ task[c] = "returned"
    BY <1>9 DEF Complete, IInv, HandsExact, InState
  <2>2. task' = [task EXCEPT ![c] = "joining"]
    BY <1>9, <2>1 DEF Complete
  <2>3. \A d \in Conns : Unparsed(d)' = Unparsed(d)
    BY <1>a, <2>1, <2>2 DEF Unparsed
  <2> QED
    BY <1>9, <2>3, DataUnchanged DEF connVars
<1>10. ASSUME NEW w \in Workers, WorkerStep(w) PROVE DataInv'
  BY <1>3, <1>6, <1>8, <1>9, <1>10 DEF WorkerStep, Send, Exit, connVars
<1>11. ASSUME NEW c \in Conns, AcceptConn(c) \/ ReadEnd(c) \/ CloseCb(c) PROVE DataInv'
  BY <1>6, <1>11 DEF AcceptConn, ReadEnd, CloseCb, schedVars, vars
<1>12. ASSUME JoinNext \/ ShutdownNext \/ UNCHANGED serverVars PROVE DataInv'
  BY <1>6, <1>7, <1>12 DEF JoinNext, JoinBegin, JoinEnd, ShutdownNext, StopTimer, RunReturns,
                           DestroyScheduler, Stop, Destroy, LoopWalk, LoopClosed, connVars,
                           serverVars, schedVars, vars
<1> QED
  BY <1>1, <1>2, <1>4, <1>5, <1>10, <1>11, <1>12 DEF ServerNext, ConnNext

LEMMA ServerInvariant == ServerSpec => [](IInv /\ ConnInv /\ DataInv)
<1>1. ServerInit => IInv /\ ConnInv
  BY InitIInv, InitConnInv DEF ServerInit
<1>2. ServerInit => DataInv
  <2> SUFFICES ASSUME ServerInit PROVE DataInv
    OBVIOUS
  <2>1. <<>> \in Seq(1..MaxReads) /\ Len(<<>>) = 0 /\ <<>> \o <<>> = <<>>
    BY EmptySeq, ConcatEmptySeq
  <2>2. DataTypes
    BY <2>1, ServerAssumption DEF ServerInit, DataTypes, Chunks
  <2>3. ASSUME NEW c \in Conns PROVE InOrder(c) /\ Conserved(c)
    BY <2>1, <2>3 DEF ServerInit, Init, InOrder, Unparsed, Conserved
  <2> QED
    BY <2>2, <2>3 DEF DataInv
<1>3. IInv /\ ConnInv /\ DataInv /\ [ServerNext]_serverVars => (IInv /\ ConnInv /\ DataInv)'
  BY ServerStepsScheduler, NextIInv, NextConnInv, NextDataInv
<1> QED
  BY <1>1, <1>2, <1>3, PTL DEF ServerSpec
-----------------------------------------------------------------------------
\* The variables of the server keep their types.
THEOREM ServerTypeCorrect == ServerSpec => []ServerTypeOK
<1>1. IInv /\ ConnInv /\ DataInv => ServerTypeOK
  BY DEF IInv, ConnInv, ConnTypes, DataInv, DataTypes, ServerTypeOK
<1> QED
  BY <1>1, ServerInvariant, PTL

\* In every state of a server that has not aborted, each connection has one
\* owner: libuv reading, libuv writing, or one task.
THEOREM SingleOwner == ServerSpec => []OneOwner
<1>1. ConnInv => OneOwner
  BY DEF ConnInv, Owned, OneOwner
<1> QED
  BY <1>1, ServerInvariant, PTL

\* The session sees every chunk once and in order, whichever workers parse them.
THEOREM ChunksInOrder == ServerSpec => []ParsedInOrder
<1>1. DataInv => ParsedInOrder
  <2> SUFFICES ASSUME DataInv, NEW c \in Conns
               PROVE  /\ parsed[c] = [i \in 1..Len(parsed[c]) |-> i]
                      /\ received[c] = Len(parsed[c]) +
                           (IF task[c] \in {"queued", "running"} THEN 1 ELSE 0)
    BY DEF ParsedInOrder
  <2>1. parsed[c] \in [1..Len(parsed[c]) -> 1..MaxReads]
    BY LenProperties DEF DataInv, DataTypes, Chunks
  <2> QED
    BY <2>1 DEF DataInv, InOrder, Unparsed
<1> QED
  BY <1>1, ServerInvariant, PTL

\* Output is neither lost, nor repeated, nor reordered.
THEOREM OutputKept == ServerSpec => []OutputConserved
<1>1. DataInv => OutputConserved
  BY DEF DataInv, Conserved, IsPrefixOf, OutputConserved
<1> QED
  BY <1>1, ServerInvariant, PTL

\* Nobody modifies conn::_buffer while libuv writes from it.
THEOREM BufferStable == ServerSpec => WriteBufferStable
<1> DEFINE Stable == \A c \in Conns : c \in writing /\ c \in writing' => buffer'[c] = buffer[c]
<1>1. ASSUME IInv, ConnInv, DataInv, [ServerNext]_serverVars PROVE [Stable]_serverVars
  <2> SUFFICES ASSUME NEW c \in Conns, c \in writing, c \in writing'
               PROVE  buffer'[c] = buffer[c]
    OBVIOUS
  <2>a. buffer \in [Conns -> Chunks]
    BY <1>1 DEF DataInv, DataTypes
  <2>1. CASE buffer' = buffer
    BY <2>1
  <2>2. ASSUME NEW d \in Conns, ReadInline(d) \/ WriteDone(d) PROVE buffer'[c] = buffer[c]
    <3>1. Owned(c)
      BY <1>1, <2>2 DEF ReadInline, WriteDone, Polling, ConnInv
    <3>2. d # c
      BY <2>2, <3>1 DEF ReadInline, WriteDone, Owned
    <3> QED
      BY <2>a, <2>2, <3>2 DEF ReadInline, Process, WriteDone
  <2>3. ASSUME NEW w \in Workers, Handle(w) PROVE buffer'[c] = buffer[c]
    <3>1. pc[w] = "run" /\ task[cur[w]] = "running"
      BY <1>1, <2>3 DEF Handle, Exec, IInv, HandsExact, InState
    <3>2. loop # "aborted"
      BY <1>1, <3>1 DEF ConnInv, ShutdownOrder
    <3>3. cur[w] # c
      BY <1>1, <3>1, <3>2 DEF ConnInv, Owned
    <3> QED
      BY <2>a, <2>3, <3>3 DEF Handle, Process
  <2> QED
    BY <1>1, <2>1, <2>2, <2>3
       DEF ServerNext, ConnNext, AcceptConn, ReadData, ReadEnd, WriteFailed, CloseCb, JoinNext,
           ResumeConn, WorkerStep, ShutdownNext, StopTimer, RunReturns, DestroyScheduler,
           LoopWalk, LoopClosed, connVars, serverVars
<1>2. ServerSpec => [][Stable]_serverVars
  <2>1. IInv /\ ConnInv /\ DataInv /\ [ServerNext]_serverVars => [Stable]_serverVars
    BY <1>1
  <2> QED
    BY <2>1, ServerInvariant, PTL DEF ServerSpec
<1> QED
  BY <1>2 DEF WriteBufferStable
=============================================================================
