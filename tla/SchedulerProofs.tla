--------------------------- MODULE SchedulerProofs --------------------------
(***************************************************************************)
(* Proofs about Scheduler, for any set of connections and any set of       *)
(* worker threads.                                                         *)
(*                                                                         *)
(* The safety properties are proved together, from one inductive           *)
(* invariant: the two queues and the workers' hands say the same thing     *)
(* about every task as the state of the task itself.                       *)
(***************************************************************************)
EXTENDS Scheduler, SequenceTheorems, TLAPS

-----------------------------------------------------------------------------
(* Queues of coroutine handles.                                            *)

Members(q) == {q[i] : i \in 1..Len(q)}

Distinct(q) == \A i, j \in 1..Len(q) : q[i] = q[j] => i = j

\* std::queue::push of a handle that is not on the queue.
LEMMA PushQueue ==
  ASSUME NEW S, NEW q \in Seq(S), NEW e \in S, Distinct(q), e \notin Members(q)
  PROVE  /\ Append(q, e) \in Seq(S)
         /\ Distinct(Append(q, e))
         /\ Members(Append(q, e)) = Members(q) \cup {e}
<1> DEFINE r == Append(q, e)
<1>1. /\ r \in Seq(S) /\ Len(r) = Len(q) + 1 /\ Len(q) \in Nat
      /\ \A i \in 1..Len(q) : r[i] = q[i]
      /\ r[Len(q) + 1] = e
  BY AppendProperties, LenProperties
<1> HIDE DEF r
<1>2. Distinct(r)
  BY <1>1 DEF Distinct, Members
<1>3. Members(r) = Members(q) \cup {e}
  BY <1>1 DEF Members
<1> QED
  BY <1>1, <1>2, <1>3 DEF r

\* std::queue::front followed by std::queue::pop.
LEMMA PopQueue ==
  ASSUME NEW S, NEW q \in Seq(S), q # <<>>, Distinct(q)
  PROVE  /\ Head(q) \in S /\ Head(q) \in Members(q)
         /\ Tail(q) \in Seq(S)
         /\ Distinct(Tail(q))
         /\ Members(Tail(q)) = Members(q) \ {Head(q)}
<1> DEFINE t == Tail(q)
<1>1. /\ t \in Seq(S) /\ Len(q) \in Nat \ {0} /\ Len(t) = Len(q) - 1
      /\ \A i \in 1..Len(t) : t[i] = q[i + 1]
      /\ Head(q) \in S
  BY HeadTailProperties, EmptySeq
<1>2. Head(q) = q[1]
  OBVIOUS
<1> HIDE DEF t
<1>3. Distinct(t)
  BY <1>1 DEF Distinct
<1>4. Head(q) \in Members(q)
  BY <1>1, <1>2 DEF Members
<1>5. Members(t) = Members(q) \ {Head(q)}
  <2>1. ASSUME NEW x \in Members(t)
        PROVE  x \in Members(q) \ {q[1]}
    BY <1>1 DEF Members, Distinct
  <2>2. ASSUME NEW x \in Members(q) \ {q[1]}
        PROVE  x \in Members(t)
    <3>1. PICK i \in 1..Len(q) : x = q[i]
      BY DEF Members
    <3>2. i - 1 \in 1..Len(t) /\ t[i - 1] = x
      BY <1>1, <3>1
    <3> QED
      BY <3>2 DEF Members
  <2> QED
    BY <1>2, <2>1, <2>2
<1> QED
  BY <1>1, <1>3, <1>4, <1>5 DEF t
-----------------------------------------------------------------------------
(* The inductive invariant.                                                *)

InState(s) == {c \in Conns : task[c] = s}

\* A queue holds exactly the tasks that are suspended there, each once.
QueuesExact ==
  /\ Distinct(shifters) /\ Members(shifters) = InState("queued")
  /\ Distinct(joiners)  /\ Members(joiners) = InState("joining")

\* What a worker holds: the task it runs, the task it is about to signal
\* (nothing if the coroutine was resumed meanwhile), or nothing.
HandsExact ==
  \A w \in Workers :
    /\ pc[w] = "run"   => cur[w] \in InState("running")
    /\ pc[w] = "final" => cur[w] \in InState("returned")
    /\ pc[w] = "send" /\ cur[w] # NoTask => cur[w] \in InState("joining")
    /\ pc[w] \in {"none", "loop", "exited"} => cur[w] = NoTask

\* No two workers hold the same task.
HandsDistinct ==
  \A v, w \in Workers : v # w /\ cur[v] # NoTask => cur[v] # cur[w]

\* A task that left _shifters and is not on _joiners is in a worker's hands.
HeldWhileRunning ==
  \A c \in Conns : task[c] \in {"running", "returned"} =>
    \E w \in Workers : pc[w] \in {"run", "final"} /\ cur[w] = c

\* Whatever waits on _joiners is announced, or will be by a worker's Send.
Announced ==
  io = "loop" /\ signal = 0 =>
    \A c \in InState("joining") : \E w \in Workers : pc[w] = "send" /\ cur[w] = c

IInv == /\ TypeOK /\ QueuesExact /\ HandsExact /\ HandsDistinct
        /\ HeldWhileRunning /\ Announced

LEMMA InitIInv == Init => IInv
<1> SUFFICES ASSUME Init PROVE IInv
  OBVIOUS
<1>1. TypeOK
  BY DEF Init, TypeOK, TaskState
<1>2. Distinct(<<>>) /\ Members(<<>>) = {}
  BY DEF Distinct, Members
<1>3. QueuesExact /\ HandsExact /\ HandsDistinct /\ HeldWhileRunning /\ Announced
  BY <1>2 DEF Init, QueuesExact, HandsExact, HandsDistinct, HeldWhileRunning,
              Announced, InState
<1> QED
  BY <1>1, <1>3 DEF IInv

LEMMA NextIInv == IInv /\ [Next]_vars => IInv'
<1> SUFFICES ASSUME IInv, [Next]_vars PROVE IInv'
  OBVIOUS
<1> USE NoTaskAssumption
<1>a. TypeOK /\ QueuesExact
  BY DEF IInv
<1>b. HandsExact /\ HandsDistinct
  BY DEF IInv
<1>c. HeldWhileRunning
  BY DEF IInv
<1>d. Announced
  BY DEF IInv
<1>0. ASSUME UNCHANGED <<task, shifters, joiners, pc, cur>>
      PROVE  QueuesExact' /\ HandsExact' /\ HandsDistinct' /\ HeldWhileRunning'
  <2>1. QueuesExact'
    BY <1>a, <1>0 DEF QueuesExact, InState, Distinct, Members
  <2>2. HandsExact' /\ HandsDistinct'
    BY <1>b, <1>0 DEF HandsExact, HandsDistinct, InState
  <2>3. HeldWhileRunning'
    BY <1>c, <1>0 DEF HeldWhileRunning
  <2> QED
    BY <2>1, <2>2, <2>3
<1>1. ASSUME NEW c \in Conns, Run(c) PROVE IInv'
  <2>1. c \notin Members(shifters)
    BY <1>a, <1>1 DEF Run, QueuesExact, InState
  <2>2. /\ shifters' \in Seq(Conns) /\ Distinct(shifters')
        /\ Members(shifters') = Members(shifters) \cup {c}
    <3>1. shifters \in Seq(Conns) /\ Distinct(shifters)
      BY <1>a DEF TypeOK, QueuesExact
    <3>2. shifters' = Append(shifters, c)
      BY <1>1 DEF Run, Enqueue
    <3> QED
      BY <2>1, <3>1, <3>2, PushQueue, Zenon
  <2>3. TypeOK'
    BY <1>a, <1>1, <2>2 DEF Run, TypeOK, TaskState
  <2>4. QueuesExact'
    BY <1>a, <1>1, <2>2 DEF Run, TypeOK, QueuesExact, InState
  <2>5. HandsExact' /\ HandsDistinct'
    BY <1>a, <1>b, <1>1 DEF Run, TypeOK, HandsExact, HandsDistinct, InState
  <2>6. HeldWhileRunning'
    BY <1>a, <1>c, <1>1 DEF Run, TypeOK, HeldWhileRunning
  <2>7. Announced'
    BY <1>a, <1>d, <1>1 DEF Run, TypeOK, Announced, InState
  <2> QED
    BY <2>3, <2>4, <2>5, <2>6, <2>7 DEF IInv
<1>2. ASSUME JoinBegin PROVE IInv'
  <2>1. TypeOK' /\ UNCHANGED <<task, shifters, joiners, pc, cur>> /\ io' = "join"
    BY <1>a, <1>2 DEF JoinBegin, TypeOK
  <2>2. Announced'
    BY <2>1 DEF Announced
  <2> QED
    BY <1>0, <2>1, <2>2 DEF IInv
<1>3. ASSUME JoinPop PROVE IInv'
  <2> DEFINE c == Head(joiners)
  <2>1. /\ c \in Conns /\ c \in Members(joiners)
        /\ joiners' \in Seq(Conns) /\ Distinct(joiners')
        /\ Members(joiners') = Members(joiners) \ {c}
    BY <1>a, <1>3, PopQueue DEF JoinPop, QueuesExact, TypeOK
  <2>2. /\ io = "join" /\ UNCHANGED <<shifters, pc, io, signal, async, life>>
        /\ task' = [task EXCEPT ![c] = "none"]
        /\ cur' = [w \in Workers |-> IF cur[w] = c THEN NoTask ELSE cur[w]]
    BY <1>3 DEF JoinPop
  <2>3. task[c] = "joining"
    BY <1>a, <2>1 DEF QueuesExact, InState
  <2> HIDE DEF c
  <2>4. TypeOK'
    BY <1>a, <2>1, <2>2 DEF TypeOK, TaskState
  <2>5. QueuesExact'
    BY <1>a, <2>1, <2>2, <2>3 DEF TypeOK, QueuesExact, InState
  <2>6. HandsExact' /\ HandsDistinct'
    BY <1>a, <1>b, <2>1, <2>2, <2>3 DEF TypeOK, HandsExact, HandsDistinct, InState
  <2>7. HeldWhileRunning'
    <3> SUFFICES ASSUME NEW d \in Conns, task'[d] \in {"running", "returned"}
                 PROVE  \E w \in Workers : pc'[w] \in {"run", "final"} /\ cur'[w] = d
      BY DEF HeldWhileRunning
    <3>1. d # c /\ task[d] \in {"running", "returned"}
      BY <1>a, <2>1, <2>2, <2>3 DEF TypeOK
    <3>2. PICK w \in Workers : pc[w] \in {"run", "final"} /\ cur[w] = d
      BY <1>c, <3>1 DEF HeldWhileRunning
    <3> QED
      BY <2>2, <3>1, <3>2
  <2>8. Announced'
    BY <1>a, <1>d, <2>1, <2>2, <2>3 DEF TypeOK, Announced, InState
  <2> QED
    BY <2>4, <2>5, <2>6, <2>7, <2>8 DEF IInv
<1>4. ASSUME JoinEnd PROVE IInv'
  <2>1. TypeOK' /\ UNCHANGED <<task, shifters, joiners, pc, cur>>
    BY <1>a, <1>4 DEF JoinEnd, TypeOK
  <2>2. Members(joiners) = {}
    BY <1>4 DEF JoinEnd, Members
  <2>3. InState("joining") = {}
    BY <1>a, <2>2 DEF QueuesExact
  <2>4. Announced'
    BY <2>1, <2>3 DEF Announced, InState
  <2> QED
    BY <1>0, <2>1, <2>4 DEF IInv
<1>5. ASSUME NEW w \in Workers, Take(w) PROVE IInv'
  <2> DEFINE c == Head(shifters)
  <2>1. /\ c \in Conns /\ c \in Members(shifters)
        /\ shifters' \in Seq(Conns) /\ Distinct(shifters')
        /\ Members(shifters') = Members(shifters) \ {c}
    BY <1>a, <1>5, PopQueue DEF Take, QueuesExact, TypeOK
  <2>2. /\ pc[w] = "loop" /\ UNCHANGED <<joiners, io, signal, async, life>>
        /\ task' = [task EXCEPT ![c] = "running"]
        /\ cur' = [cur EXCEPT ![w] = c]
        /\ pc' = [pc EXCEPT ![w] = "run"]
    BY <1>5 DEF Take
  <2>3. task[c] = "queued"
    BY <1>a, <2>1 DEF QueuesExact, InState
  <2> HIDE DEF c
  <2>4. TypeOK'
    BY <1>a, <2>1, <2>2 DEF TypeOK, TaskState
  <2>5. QueuesExact'
    BY <1>a, <2>1, <2>2, <2>3 DEF TypeOK, QueuesExact, InState
  <2>6. \A v \in Workers : cur[v] # c
    BY <1>a, <1>b, <2>1, <2>3 DEF TypeOK, HandsExact, InState
  <2>7. HandsExact' /\ HandsDistinct'
    BY <1>a, <1>b, <2>1, <2>2, <2>3, <2>6 DEF TypeOK, HandsExact, HandsDistinct, InState
  <2>8. HeldWhileRunning'
    BY <1>a, <1>c, <2>1, <2>2, <2>3 DEF TypeOK, HeldWhileRunning
  <2>9. Announced'
    BY <1>a, <1>d, <2>1, <2>2, <2>3 DEF TypeOK, Announced, InState
  <2> QED
    BY <2>4, <2>5, <2>7, <2>8, <2>9 DEF IInv
<1>6. ASSUME NEW w \in Workers, Exec(w) PROVE IInv'
  <2>1. cur[w] \in Conns /\ task[cur[w]] = "running"
    BY <1>b, <1>6 DEF Exec, HandsExact, InState
  <2>2. TypeOK'
    BY <1>a, <1>6, <2>1 DEF Exec, TypeOK, TaskState
  <2>3. QueuesExact'
    BY <1>a, <1>6, <2>1 DEF Exec, TypeOK, QueuesExact, InState
  <2>4. HandsExact' /\ HandsDistinct'
    BY <1>a, <1>b, <1>6, <2>1 DEF Exec, TypeOK, HandsExact, HandsDistinct, InState
  <2>5. HeldWhileRunning'
    <3> SUFFICES ASSUME NEW d \in Conns, task'[d] \in {"running", "returned"}
                 PROVE  \E v \in Workers : pc'[v] \in {"run", "final"} /\ cur'[v] = d
      BY DEF HeldWhileRunning
    <3>1. task[d] \in {"running", "returned"}
      BY <1>a, <1>6, <2>1 DEF Exec, TypeOK
    <3>2. PICK v \in Workers : pc[v] \in {"run", "final"} /\ cur[v] = d
      BY <1>c, <3>1 DEF HeldWhileRunning
    <3> QED
      BY <1>a, <1>6, <3>2 DEF Exec, TypeOK
  <2>6. Announced'
    BY <1>a, <1>d, <1>6, <2>1 DEF Exec, TypeOK, Announced, InState
  <2> QED
    BY <2>2, <2>3, <2>4, <2>5, <2>6 DEF IInv
<1>7. ASSUME NEW w \in Workers, Complete(w) PROVE IInv'
  <2> DEFINE c == cur[w]
  <2>1. c \in Conns /\ task[c] = "returned"
    BY <1>b, <1>7 DEF Complete, HandsExact, InState
  <2>2. c \notin Members(joiners)
    BY <1>a, <2>1 DEF QueuesExact, InState
  <2>3. /\ joiners' \in Seq(Conns) /\ Distinct(joiners')
        /\ Members(joiners') = Members(joiners) \cup {c}
    <3>1. joiners \in Seq(Conns) /\ Distinct(joiners)
      BY <1>a DEF TypeOK, QueuesExact
    <3>2. joiners' = Append(joiners, c)
      BY <1>7 DEF Complete
    <3>3. c \in Conns
      BY <2>1
    <3> HIDE DEF c
    <3> QED
      BY <2>2, <3>1, <3>2, <3>3, PushQueue, Zenon
  <2>4. TypeOK'
    BY <1>a, <1>7, <2>1, <2>3 DEF Complete, TypeOK, TaskState
  <2>5. QueuesExact'
    BY <1>a, <1>7, <2>1, <2>3 DEF Complete, TypeOK, QueuesExact, InState
  <2>6. HandsExact' /\ HandsDistinct'
    BY <1>a, <1>b, <1>7, <2>1 DEF Complete, TypeOK, HandsExact, HandsDistinct, InState
  <2>7. HeldWhileRunning'
    <3> SUFFICES ASSUME NEW d \in Conns, task'[d] \in {"running", "returned"}
                 PROVE  \E v \in Workers : pc'[v] \in {"run", "final"} /\ cur'[v] = d
      BY DEF HeldWhileRunning
    <3>1. d # c /\ task[d] \in {"running", "returned"}
      BY <1>a, <1>7, <2>1 DEF Complete, TypeOK
    <3>2. PICK v \in Workers : pc[v] \in {"run", "final"} /\ cur[v] = d
      BY <1>c, <3>1 DEF HeldWhileRunning
    <3> QED
      BY <1>a, <1>7, <3>1, <3>2 DEF Complete, TypeOK
  <2>8. Announced'
    BY <1>a, <1>b, <1>d, <1>7, <2>1, <2>3 DEF Complete, TypeOK, HandsDistinct, Announced, InState
  <2> QED
    BY <2>4, <2>5, <2>6, <2>7, <2>8 DEF IInv
<1>8. ASSUME NEW w \in Workers, Send(w) PROVE IInv'
  <2>1. TypeOK'
    BY <1>a, <1>8 DEF Send, TypeOK
  <2>2. QueuesExact' /\ HandsExact' /\ HandsDistinct'
    BY <1>a, <1>b, <1>8 DEF Send, TypeOK, QueuesExact, HandsExact, HandsDistinct, InState
  <2>3. HeldWhileRunning'
    BY <1>a, <1>c, <1>8 DEF Send, TypeOK, HeldWhileRunning, InState
  <2>4. Announced'
    <3>1. CASE signal' = 1
      BY <3>1 DEF Announced
    <3>2. CASE cur[w] = NoTask /\ signal' = signal
      <4> SUFFICES ASSUME io = "loop", signal = 0, NEW c \in InState("joining")
                   PROVE  \E v \in Workers : pc'[v] = "send" /\ cur'[v] = c
        BY <1>8, <3>2 DEF Send, Announced, InState
      <4>1. PICK v \in Workers : pc[v] = "send" /\ cur[v] = c
        BY <1>d DEF Announced
      <4>2. v # w
        BY <3>2, <4>1 DEF InState
      <4> QED
        BY <1>a, <1>8, <4>1, <4>2 DEF Send, TypeOK
    <3> QED
      BY <1>8, <3>1, <3>2 DEF Send
  <2> QED
    BY <2>1, <2>2, <2>3, <2>4 DEF IInv
<1>9. ASSUME NEW w \in Workers, Exit(w) PROVE IInv'
  <2>1. TypeOK'
    BY <1>a, <1>9 DEF Exit, TypeOK
  <2>2. QueuesExact'
    BY <1>a, <1>9 DEF Exit, QueuesExact, InState, Distinct, Members
  <2>3. HandsExact' /\ HandsDistinct'
    BY <1>a, <1>b, <1>9 DEF Exit, TypeOK, HandsExact, HandsDistinct, InState
  <2>4. HeldWhileRunning'
    BY <1>a, <1>c, <1>9 DEF Exit, TypeOK, HeldWhileRunning
  <2>5. Announced'
    BY <1>a, <1>d, <1>9 DEF Exit, TypeOK, Announced, InState
  <2> QED
    BY <2>1, <2>2, <2>3, <2>4, <2>5 DEF IInv
<1>10. ASSUME Stop \/ Destroy \/ UNCHANGED vars PROVE IInv'
  <2>1. TypeOK' /\ UNCHANGED <<task, shifters, joiners, pc, cur, io, signal>>
    BY <1>a, <1>10 DEF Stop, Destroy, vars, TypeOK
  <2>2. Announced'
    BY <1>d, <2>1 DEF Announced, InState
  <2> QED
    BY <1>0, <2>1, <2>2 DEF IInv
<1> QED
  BY <1>1, <1>2, <1>3, <1>4, <1>5, <1>6, <1>7, <1>8, <1>9, <1>10
     DEF Next, IoNext, WorkerNext

LEMMA SpecIInv == Spec => []IInv
  BY InitIInv, NextIInv, PTL DEF Spec
-----------------------------------------------------------------------------
(* The theorems.                                                           *)

\* The variables of the scheduler keep their types: in particular no null and
\* no dangling handle is ever on a queue.
THEOREM TypeCorrect == Spec => []TypeOK
  BY SpecIInv, PTL DEF IInv

\* No connection is processed by two workers at once, however many there are.
THEOREM RunsExclusively == Spec => []ExclusiveRun
<1>1. IInv => ExclusiveRun
  <2> SUFFICES ASSUME IInv, NEW w \in Workers, Busy(w)
               PROVE  /\ cur[w] \in Conns
                      /\ task[cur[w]] = IF pc[w] = "run" THEN "running" ELSE "returned"
                      /\ \A v \in Workers \ {w} : Busy(v) => cur[v] # cur[w]
    BY DEF ExclusiveRun
  <2>1. /\ cur[w] \in Conns
        /\ task[cur[w]] = IF pc[w] = "run" THEN "running" ELSE "returned"
    BY DEF IInv, HandsExact, InState, Busy
  <2>2. \A v \in Workers \ {w} : cur[v] # cur[w]
    BY <2>1, NoTaskAssumption DEF IInv, HandsDistinct
  <2> QED
    BY <2>1, <2>2
<1> QED
  BY <1>1, SpecIInv, PTL

\* _shifters and _joiners only hold live handles in the right state, each once.
THEOREM QueuesCorrect == Spec => []QueuesHoldLiveTasks
<1>1. IInv => QueuesHoldLiveTasks
  <2> SUFFICES ASSUME IInv PROVE QueuesHoldLiveTasks
    OBVIOUS
  <2>1. Holds(shifters, "queued")
    BY DEF IInv, QueuesExact, Holds, Members, Distinct, InState
  <2>2. Holds(joiners, "joining")
    BY DEF IInv, QueuesExact, Holds, Members, Distinct, InState
  <2> QED
    BY <2>1, <2>2 DEF QueuesHoldLiveTasks
<1> QED
  BY <1>1, SpecIInv, PTL

\* Every unfinished task is on a queue or in the hands of a worker.
THEOREM TasksKept == Spec => []NoTaskLost
<1>1. IInv => NoTaskLost
  <2> SUFFICES ASSUME IInv, NEW c \in Conns
               PROVE  /\ task[c] = "queued" => \E i \in 1..Len(shifters) : shifters[i] = c
                      /\ task[c] \in {"running", "returned"} =>
                           \E w \in Workers : Busy(w) /\ cur[w] = c
                      /\ task[c] = "joining" => \E i \in 1..Len(joiners) : joiners[i] = c
    BY DEF NoTaskLost
  <2>1. task[c] = "queued" => c \in Members(shifters)
    BY DEF IInv, QueuesExact, InState
  <2>2. task[c] = "joining" => c \in Members(joiners)
    BY DEF IInv, QueuesExact, InState
  <2>3. task[c] \in {"running", "returned"} => \E w \in Workers : Busy(w) /\ cur[w] = c
    BY DEF IInv, HeldWhileRunning, Busy
  <2> QED
    BY <2>1, <2>2, <2>3 DEF Members
<1> QED
  BY <1>1, SpecIInv, PTL

\* A coroutine on _joiners is announced to the loop or about to be: the unlocked
\* emptiness test, merged signals and a signal lost to a freed completion
\* function never leave it behind.
THEOREM WakeupsKept == Spec => []NoLostWakeup
<1>1. IInv => NoLostWakeup
  <2> SUFFICES ASSUME IInv, io = "loop", signal = 0, NEW i \in 1..Len(joiners)
               PROVE  \E w \in Workers : pc[w] = "send" /\ cur[w] = joiners[i]
    BY DEF NoLostWakeup
  <2>1. joiners[i] \in InState("joining")
    BY DEF IInv, QueuesExact, Members
  <2> QED
    BY <2>1 DEF IInv, Announced
<1> QED
  BY <1>1, SpecIInv, PTL
-----------------------------------------------------------------------------
(* The scheduler implements TaskExecutor.                                  *)

LEMMA StepExecutor ==
  ASSUME IInv, [Next]_vars
  PROVE  [Executor!AbsNext]_jobs
<1> USE DEF jobs
<1>a. /\ task \in [Conns -> TaskState] /\ HandsExact
      /\ shifters \in Seq(Conns) /\ joiners \in Seq(Conns) /\ QueuesExact
  BY DEF IInv, TypeOK
<1>1. ASSUME NEW c \in Conns, Run(c) PROVE Executor!Submit(c)
  BY <1>a, <1>1 DEF Run, Executor!Submit, TaskState
<1>2. ASSUME JoinPop PROVE Executor!AbsNext
  <2>1. Head(joiners) \in Conns /\ task[Head(joiners)] = "joining"
    BY <1>a, <1>2, PopQueue DEF JoinPop, QueuesExact, InState
  <2>2. PICK c \in Conns : c = Head(joiners)
    BY <2>1
  <2>3. Executor!Resume(c)
    BY <1>a, <1>2, <2>1, <2>2 DEF JoinPop, Executor!Resume, TaskState
  <2> QED
    BY <2>3 DEF Executor!AbsNext
<1>3. ASSUME NEW w \in Workers, Exec(w) PROVE Executor!AbsNext
  <2>1. cur[w] \in Conns /\ task[cur[w]] = "running"
    BY <1>a, <1>3 DEF Exec, HandsExact, InState
  <2>2. PICK c \in Conns : c = cur[w]
    BY <2>1
  <2>3. Executor!Execute(c)
    BY <1>a, <1>3, <2>1, <2>2 DEF Exec, Executor!Execute, TaskState
  <2> QED
    BY <2>3 DEF Executor!AbsNext
<1>4. ASSUME NEW w \in Workers, Take(w) PROVE jobs' = jobs
  <2>1. Head(shifters) \in Conns /\ task[Head(shifters)] = "queued"
    BY <1>a, <1>4, PopQueue DEF Take, QueuesExact, InState
  <2> QED
    BY <1>a, <1>4, <2>1 DEF Take, TaskState
<1>5. ASSUME NEW w \in Workers, Complete(w) PROVE jobs' = jobs
  <2>1. cur[w] \in Conns /\ task[cur[w]] = "returned"
    BY <1>a, <1>5 DEF Complete, HandsExact, InState
  <2> QED
    BY <1>a, <1>5, <2>1 DEF Complete, TaskState
<1>6. ASSUME \/ JoinBegin \/ JoinEnd \/ Stop \/ Destroy \/ UNCHANGED vars
             \/ \E w \in Workers : Send(w) \/ Exit(w)
      PROVE  jobs' = jobs
  <2>1. task' = task
    BY <1>6 DEF JoinBegin, JoinEnd, Stop, Destroy, vars, Send, Exit
  <2> QED
    BY <2>1
<1>7. \A c \in Conns : Run(c) => Executor!AbsNext
  BY <1>1 DEF Executor!AbsNext
<1> HIDE DEF jobs
<1> QED
  BY <1>2, <1>3, <1>4, <1>5, <1>6, <1>7 DEF Next, IoNext, WorkerNext

\* The scheduler implements the abstract executor for any number of connections
\* and workers: fn runs exactly once per co_await and only then, exactly once,
\* is the awaiting coroutine resumed.
THEOREM SchedulerImplementsExecutor == Spec => ImplementsExecutor
<1>1. Init => Executor!AbsInit
  BY DEF Init, Executor!AbsInit, jobs
<1>2. IInv /\ [Next]_vars => [Executor!AbsNext]_jobs
  BY StepExecutor
<1>3. Spec => Executor!AbsInit /\ [][Executor!AbsNext]_jobs
  BY <1>1, <1>2, SpecIInv, PTL DEF Spec
<1> QED
  BY <1>3 DEF ImplementsExecutor, Executor!AbsSpec
=============================================================================
