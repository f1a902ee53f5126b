---------------------- MODULE OperationQueueRefinement ----------------------
(***************************************************************************)
(* OperationQueue implements SerialExecutor: every behaviour of the queue  *)
(* with its threads, semaphores and posted calls is, seen through Phase    *)
(* and WorkerState, one of the executor, for every set of operations and   *)
(* of threads.                                                             *)
(*                                                                         *)
(* That a step of the worker is the step of the executor it should be      *)
(* depends on how the histories and the queue fit together: which          *)
(* operations wait, have run, were answered, and which one the worker is   *)
(* at.  QueueInv says nothing of this; HistoryInv does.                    *)
(***************************************************************************)
EXTENDS OperationQueueProofs

NoDuplicates(s) == \A i, j \in DOMAIN s : s[i] = s[j] => i = j

\* The worker is between running o and having its callback made.
Awaits(o) == \E t \in Threads :
  /\ op[t] = o
  /\ o \in Elements(ran)
  /\ pc[t] \in {"callback", "waitCallback"}

\* An operation is queued once, until it was run or skipped; answered later.
WaitingInv ==
  /\ NoDuplicates(mOperations)
  /\ Elements(mOperations) \subseteq Elements(added)
  /\ Elements(ran) \subseteq Elements(added)
  /\ Elements(called) \subseteq Elements(added)
  /\ Elements(mOperations) \cap Elements(called) = {}
  /\ \A o \in Elements(mOperations) \cap Elements(ran) :
       \E t \in Threads : op[t] = o /\ pc[t] \in {"running", "remove"}

\* What has become of the operation the worker is at.
CurrentAt(t) ==
  LET o == op[t] IN
  /\ pc[t] \notin Serving \cup Answering => o = NULL
  /\ pc[t] \in {"before", "waitBefore", "main"} => o \notin Elements(ran)
  /\ pc[t] = "running" => o \in Elements(ran)
  /\ pc[t] = "remove" =>
       o \in Elements(ran) \/ (mCancelled[o] /\ o \notin RunWhenCancelled)
  /\ pc[t] \in {"callback", "waitCallback"} =>
       o \in Elements(added) \ (Elements(mOperations) \cup Elements(called))
  /\ pc[t] = "callback" => o \in Elements(ran) \/ mCancelled[o]
  /\ pc[t] = "waitCallback" => o \in Elements(ran)

CurrentInv == \A t \in Threads : CurrentAt(t)

HistoryInv == WaitingInv /\ CurrentInv

-----------------------------------------------------------------------------
LEMMA AppendElements ==
  ASSUME NEW S, NEW s \in Seq(S), NEW x \in S
  PROVE  /\ Elements(Append(s, x)) = Elements(s) \cup {x}
         /\ Append(s, x) # <<>>
         /\ NoDuplicates(s) /\ x \notin Elements(s) => NoDuplicates(Append(s, x))
<1>1. Elements(Append(s, x)) = Elements(s) \cup {x}
  <2>1. \A i \in DOMAIN Append(s, x) : Append(s, x)[i] \in Elements(s) \cup {x}
    BY AppendFacts, ElementFacts DEF Elements
  <2>2. \A i \in DOMAIN s : s[i] \in Elements(Append(s, x))
    BY AppendFacts, ElementFacts DEF Elements
  <2>3. x \in Elements(Append(s, x))
    BY AppendFacts, ElementFacts DEF Elements
  <2> QED
    BY <2>1, <2>2, <2>3 DEF Elements
<1>2. NoDuplicates(s) /\ x \notin Elements(s) => NoDuplicates(Append(s, x))
  BY AppendFacts, ElementFacts DEF Elements, NoDuplicates
<1>3. Append(s, x) # <<>>
  BY AppendFacts, ElementFacts
<1> QED
  BY <1>1, <1>2, <1>3

LEMMA TailElements ==
  ASSUME NEW S, NEW s \in Seq(S), s # <<>>, NoDuplicates(s)
  PROVE  /\ Head(s) \in Elements(s)
         /\ Elements(Tail(s)) = Elements(s) \ {Head(s)}
         /\ NoDuplicates(Tail(s))
<1>1. Head(s) \in Elements(s)
  BY TailFacts, ElementFacts DEF Elements
<1>2. \A i \in DOMAIN Tail(s) : Tail(s)[i] \in Elements(s) \ {Head(s)}
  BY TailFacts, ElementFacts DEF Elements, NoDuplicates
<1>3. ASSUME NEW i \in DOMAIN s, s[i] # Head(s)
      PROVE  s[i] \in Elements(Tail(s))
  <2>1. i - 1 \in DOMAIN Tail(s) /\ Tail(s)[i - 1] = s[i]
    BY <1>3, TailFacts, ElementFacts
  <2> QED
    BY <2>1 DEF Elements
<1>4. NoDuplicates(Tail(s))
  BY TailFacts, ElementFacts DEF NoDuplicates
<1> QED
  BY <1>1, <1>2, <1>3, <1>4 DEF Elements

LEMMA NoElements == Elements(<<>>) = {} /\ NoDuplicates(<<>>)
BY DEF Elements, NoDuplicates

\* The phase of an operation, from the sets it is in.
PhaseOf(o) ==
  IF o \notin Elements(added) THEN "new"
  ELSE IF o \in Elements(mOperations)
       THEN IF o \in Elements(ran) THEN "running" ELSE "waiting"
  ELSE IF o \in Elements(called) THEN "called"
  ELSE IF Awaits(o) THEN "finished" ELSE "dropped"

PhasesFollow == \A o \in Operations : Phase(o) = PhaseOf(o)

LEMMA PhaseFacts == HistoryInv => PhasesFollow
<1> SUFFICES ASSUME HistoryInv, NEW o \in Operations
             PROVE  Phase(o) = PhaseOf(o)
  BY DEF PhasesFollow
<1>0. /\ Elements(mOperations) \subseteq Elements(added)
      /\ Elements(called) \subseteq Elements(added)
      /\ Elements(mOperations) \cap Elements(called) = {}
  BY DEF HistoryInv, WaitingInv
<1>1. CASE o \notin Elements(added)
  BY <1>0, <1>1 DEF Phase, PhaseOf
<1>2. CASE o \in Elements(added) /\ o \in Elements(mOperations)
  <2>1. o \in Elements(ran) <=> \E t \in Threads : op[t] = o /\ o \in Elements(ran)
    BY <1>2 DEF HistoryInv, WaitingInv
  <2> QED
    BY <1>0, <1>2, <2>1 DEF Phase, PhaseOf
<1>3. CASE /\ o \in Elements(added) /\ o \notin Elements(mOperations)
           /\ o \in Elements(called)
  BY <1>0, <1>3 DEF Phase, PhaseOf
<1>4. CASE /\ o \in Elements(added) /\ o \notin Elements(mOperations)
           /\ o \notin Elements(called)
  BY <1>0, <1>4 DEF Phase, PhaseOf, Awaits
<1> QED
  BY <1>1, <1>2, <1>3, <1>4

LEMMA PhaseFactsAfter == HistoryInv' => PhasesFollow'
BY PhaseFacts, PTL

\* The same of the worker, with t the only one or none.
WorkerOf(t) ==
  IF pc[t] \in {"stopping", "waitStopped"} THEN "stopping"
  ELSE IF mQuitting THEN "quitting" ELSE "started"

WorkersFollow ==
  /\ ~mStarted => WorkerState = "none"
  /\ \A t \in Threads : Live(t) => mStarted /\ WorkerState = WorkerOf(t)

LEMMA WorkerFacts == SingleWorker => WorkersFollow
<1> SUFFICES ASSUME SingleWorker PROVE WorkersFollow
  OBVIOUS
<1>1. ~mStarted => WorkerState = "none"
  <2>1. ~mStarted => ~ \E t \in Threads : pc[t] \in {"stopping", "waitStopped"}
    BY DEF SingleWorker, Live
  <2> QED
    BY <2>1 DEF WorkerState
<1>2. ASSUME NEW t \in Threads, Live(t)
      PROVE  mStarted /\ WorkerState = WorkerOf(t)
  <2>1. mStarted
    BY <1>2 DEF SingleWorker
  <2>2. (\E u \in Threads : pc[u] \in {"stopping", "waitStopped"})
          <=> pc[t] \in {"stopping", "waitStopped"}
    BY <1>2 DEF SingleWorker, Live
  <2>3. (\A u \in Threads : pc[u] \notin {"stopping", "waitStopped"})
          <=> pc[t] \notin {"stopping", "waitStopped"}
    BY <2>2
  <2> QED
    BY <2>1, <2>2, <2>3 DEF WorkerState, WorkerOf
<1> QED
  BY <1>1, <1>2 DEF WorkersFollow

LEMMA WorkerFactsAfter == SingleWorker' => WorkersFollow'
BY WorkerFacts, PTL

-----------------------------------------------------------------------------
\* The worker's operation is one.
LEMMA OpIsOperation ==
  ASSUME QueueInv, NEW t \in Threads, pc[t] \in Serving \cup Answering
  PROVE  op[t] \in Operations
<1>1. CASE pc[t] \in Answering
  BY <1>1 DEF QueueInv, OpInv
<1>2. CASE pc[t] \in Serving
  <2>1. mOperations \in Seq(Operations) /\ mOperations # <<>> /\ op[t] = Head(mOperations)
    BY <1>2 DEF QueueInv, TypeOK, OpInv
  <2> QED
    BY <2>1, TailFacts
<1> QED
  BY <1>1, <1>2

\* What a serving worker is at is the head of the queue.
LEMMA OpIsHead ==
  ASSUME QueueInv, WaitingInv, NEW t \in Threads, pc[t] \in Serving
  PROVE  /\ mOperations \in Seq(Operations)
         /\ mOperations # <<>>
         /\ op[t] = Head(mOperations)
         /\ op[t] \in Elements(mOperations)
         /\ op[t] \in Elements(added)
         /\ op[t] \notin Elements(called)
<1>1. mOperations \in Seq(Operations) /\ mOperations # <<>> /\ op[t] = Head(mOperations)
  BY DEF QueueInv, TypeOK, OpInv
<1>2. op[t] \in Elements(mOperations)
  BY <1>1, TailElements DEF WaitingInv
<1> QED
  BY <1>1, <1>2 DEF WaitingInv

\* Steps that leave the histories alone and do not take the worker away from
\* the operation it runs.
LEMMA WaitingKept ==
  ASSUME WaitingInv, UNCHANGED <<mOperations, added, outcomeVars>>,
         \A t \in Threads : pc[t] \in {"running", "remove"} =>
           op'[t] = op[t] /\ pc'[t] \in {"running", "remove"}
  PROVE  WaitingInv'
BY DEF WaitingInv, outcomeVars

LEMMA WaitingStep ==
  ASSUME QueueInv, HistoryInv, Next
  PROVE  WaitingInv'
<1>0. TypeOK /\ SingleWorker /\ OpInv /\ WaitingInv /\ CurrentInv
  BY DEF QueueInv, HistoryInv
<1>1. ASSUME NEW o \in Operations, AddOperation(o)
      PROVE  WaitingInv'
  <2>1. /\ Elements(mOperations') = Elements(mOperations) \cup {o}
        /\ Elements(added') = Elements(added) \cup {o}
        /\ o \notin Elements(added)
    BY <1>0, <1>1, AppendElements DEF AddOperation, TypeOK
  <2>2. NoDuplicates(mOperations')
    BY <1>0, <1>1, AppendElements DEF AddOperation, TypeOK, WaitingInv
  <2>3. UNCHANGED <<ran, called, op>>
    BY <1>1 DEF AddOperation, outcomeVars
  <2>4. \A t \in Threads : pc[t] # "dead" => pc'[t] = pc[t]
    BY <1>0, <1>1 DEF AddOperation, StartThread, TypeOK
  <2> QED
    BY <1>0, <2>1, <2>2, <2>3, <2>4 DEF WaitingInv
<1>2. ASSUME NEW o \in Operations, Cancel(o)
      PROVE  WaitingInv'
  BY <1>0, <1>2, WaitingKept DEF Cancel, queueVars, threadVars
<1>3. ASSUME CancelAllOperations
      PROVE  WaitingInv'
  BY <1>0, <1>3, WaitingKept DEF CancelAllOperations, queueVars, threadVars
<1>4. ASSUME ReleaseQueue
      PROVE  WaitingInv'
  BY <1>0, <1>4, WaitingKept DEF ReleaseQueue, queueVars, threadVars
<1>5. ASSUME NEW t \in Threads, BeforeMain(t)
      PROVE  WaitingInv'
  <2>1. pc[t] = "waitBefore"
    BY <1>5, DispatchWaits DEF BeforeMain, QueueInv
  <2> QED
    BY <1>0, <1>5, <2>1, WaitingKept
       DEF BeforeMain, GoTo, TypeOK, queueVars, clientVars
<1>6. ASSUME NEW t \in Threads, CallbackOnMainThread(t)
      PROVE  WaitingInv'
  <2>1. pc[t] = "waitCallback"
    BY <1>6, DispatchWaits DEF CallbackOnMainThread, QueueInv
  <2>2. op[t] \in Operations
    BY <2>1, OpIsOperation DEF Answering
  <2>3. Elements(called') \subseteq Elements(called) \cup {op[t]}
    BY <1>0, <1>6, <2>2, AppendElements DEF CallbackOnMainThread, TypeOK
  <2>4. op[t] \in Elements(added) \ Elements(mOperations)
    BY <1>0, <2>1 DEF CurrentInv, CurrentAt
  <2>5. UNCHANGED <<mOperations, added, ran, op>>
    BY <1>6 DEF CallbackOnMainThread, queueVars, clientVars
  <2>6. \A u \in Threads : pc[u] \in {"running", "remove"} => pc'[u] = pc[u]
    BY <1>0, <1>6, <2>1 DEF CallbackOnMainThread, GoTo, TypeOK
  <2> QED
    BY <1>0, <2>3, <2>4, <2>5, <2>6 DEF WaitingInv
<1>7. ASSUME NEW t \in Threads, CheckRunningOnMainThread(t)
      PROVE  WaitingInv'
  BY <1>0, <1>7, WaitingKept
     DEF CheckRunningOnMainThread, queueVars, threadVars, clientVars
<1>8. ASSUME NEW t \in Threads, StoppedOnMainThread(t)
      PROVE  WaitingInv'
  <2>1. pc[t] = "waitStopped"
    BY <1>8, DispatchWaits DEF StoppedOnMainThread, QueueInv
  <2>2. \A u \in Threads : u # t => pc[u] = "dead"
    BY <1>0, <2>1 DEF SingleWorker, Live
  <2> QED
    BY <1>0, <1>8, <2>1, <2>2, WaitingKept DEF StoppedOnMainThread, clientVars
<1>9. ASSUME NEW t \in Threads, DownOperationSem(t)
      PROVE  WaitingInv'
  BY <1>0, <1>9, WaitingKept DEF DownOperationSem, GoTo, TypeOK, clientVars
<1>10. ASSUME NEW t \in Threads, PeekOperation(t)
      PROVE  WaitingInv'
  BY <1>0, <1>10, WaitingKept DEF PeekOperation, GoTo, TypeOK, queueVars, clientVars
<1>11. ASSUME NEW t \in Threads, StopRunning(t)
      PROVE  WaitingInv'
  BY <1>0, <1>11, WaitingKept DEF StopRunning, GoTo, TypeOK, clientVars
<1>12. ASSUME NEW t \in Threads, PostBeforeMain(t)
      PROVE  WaitingInv'
  BY <1>0, <1>12, WaitingKept DEF PostBeforeMain, GoTo, TypeOK, queueVars, clientVars
<1>13. ASSUME NEW t \in Threads, EnterMain(t)
      PROVE  WaitingInv'
  <2>1. UNCHANGED <<mOperations, added, called, op>>
    BY <1>13 DEF EnterMain, queueVars, clientVars
  <2>2. CASE UNCHANGED ran
    BY <1>0, <1>13, <2>1, <2>2, WaitingKept DEF EnterMain, GoTo, TypeOK, outcomeVars
  <2>3. CASE ran' = Append(ran, op[t]) /\ GoTo(t, "running")
    <3>1. op[t] \in Elements(added) /\ op[t] \in Operations
      BY <1>0, <1>13, OpIsHead, OpIsOperation DEF EnterMain, Serving
    <3>2. Elements(ran') = Elements(ran) \cup {op[t]}
      BY <1>0, <2>3, <3>1, AppendElements DEF TypeOK
    <3>3. /\ pc'[t] = "running"
          /\ \A u \in Threads : u # t => pc'[u] = pc[u]
      BY <1>0, <2>3 DEF GoTo, TypeOK
    <3>4. pc[t] = "main"
      BY <1>13 DEF EnterMain
    <3> QED
      BY <1>0, <2>1, <3>1, <3>2, <3>3, <3>4 DEF WaitingInv
  <2> QED
    BY <1>13, <2>2, <2>3 DEF EnterMain
<1>14. ASSUME NEW t \in Threads, LeaveMain(t)
      PROVE  WaitingInv'
  BY <1>0, <1>14, WaitingKept DEF LeaveMain, GoTo, TypeOK, queueVars, clientVars
<1>15. ASSUME NEW t \in Threads, RemoveOperation(t)
      PROVE  WaitingInv'
  <2>1. pc[t] \in Serving /\ op[t] = Head(mOperations) /\ mOperations # <<>>
    BY <1>0, <1>15, OpIsHead DEF RemoveOperation, Serving
  <2>2. /\ Elements(mOperations') = Elements(mOperations) \ {op[t]}
        /\ NoDuplicates(mOperations')
    BY <1>0, <1>15, <2>1, TailElements DEF RemoveOperation, TypeOK, WaitingInv
  <2>3. UNCHANGED <<added, ran, called, op>>
    BY <1>15 DEF RemoveOperation, clientVars, outcomeVars
  <2>4. \A u \in Threads : u # t => pc'[u] = pc[u]
    BY <1>0, <1>15 DEF RemoveOperation, GoTo, TypeOK
  <2> QED
    BY <1>0, <2>2, <2>3, <2>4 DEF WaitingInv
<1>16. ASSUME NEW t \in Threads, PostCallback(t)
      PROVE  WaitingInv'
  BY <1>0, <1>16, WaitingKept DEF PostCallback, GoTo, TypeOK, queueVars, clientVars
<1>17. ASSUME NEW t \in Threads, PostCheckRunning(t)
      PROVE  WaitingInv'
  BY <1>0, <1>17, WaitingKept DEF PostCheckRunning, GoTo, TypeOK, queueVars, clientVars
<1>18. ASSUME CheckRunningAfterDelay
      PROVE  WaitingInv'
  BY <1>0, <1>18, WaitingKept DEF CheckRunningAfterDelay, threadVars, clientVars
<1> QED
  BY <1>1, <1>2, <1>3, <1>4, <1>5, <1>6, <1>7, <1>8, <1>9,
     <1>10, <1>11, <1>12, <1>13, <1>14, <1>15, <1>16, <1>17, <1>18
     DEF Next, Client, MainThread, Worker

-----------------------------------------------------------------------------
\* A thread that is not at work knows of no operation.
LEMMA RestsWithoutOperation ==
  ASSUME NEW t \in Threads, pc'[t] \notin Serving \cup Answering, op'[t] = NULL
  PROVE  CurrentAt(t)'
BY DEF CurrentAt, Serving, Answering

\* Only the worker's own operation is looked at.
LEMMA OneWorkerMoves ==
  ASSUME SingleWorker, CurrentInv, NEW t \in Threads, Live(t),
         \A u \in Threads : u # t => pc'[u] = pc[u] /\ op'[u] = op[u],
         CurrentAt(t)'
  PROVE  CurrentInv'
<1> SUFFICES ASSUME NEW u \in Threads, u # t PROVE CurrentAt(u)'
  BY DEF CurrentInv
<1>1. pc[u] = "dead" /\ op[u] = NULL
  BY DEF SingleWorker, Live, CurrentInv, CurrentAt, Serving, Answering
<1>2. pc'[u] = "dead" /\ op'[u] = NULL
  BY <1>1
<1> QED
  BY <1>2, RestsWithoutOperation DEF Serving, Answering

\* Where the worker is and what it is at do not change, and its operation
\* stays where it was; another may be added, and cancels may come.
LEMMA WorkerRests ==
  ASSUME QueueInv, CurrentInv, UNCHANGED <<op, outcomeVars>>,
         \A t \in Threads : pc[t] # "dead" => pc'[t] = pc[t],
         \A t \in Threads : pc[t] = "dead" => pc'[t] \in {"dead", "down"},
         \A o \in Elements(added) : o \in Elements(mOperations') => o \in Elements(mOperations),
         Elements(added) \subseteq Elements(added'),
         \A o \in Operations : mCancelled[o] => mCancelled'[o]
  PROVE  CurrentInv'
<1> SUFFICES ASSUME NEW t \in Threads PROVE CurrentAt(t)'
  BY DEF CurrentInv
<1>1. CurrentAt(t)
  BY DEF CurrentInv
<1>2. CASE pc[t] = "dead"
  BY <1>1, <1>2 DEF CurrentAt, Serving, Answering
<1>3. CASE pc[t] # "dead"
  <2>1. pc'[t] = pc[t] /\ op'[t] = op[t]
    BY <1>3
  <2>2. pc[t] \in Serving \cup Answering => op[t] \in Operations
    BY OpIsOperation
  <2>3. Elements(ran') = Elements(ran) /\ Elements(called') = Elements(called)
    BY DEF outcomeVars
  <2> QED
    BY <1>1, <2>1, <2>2, <2>3 DEF CurrentAt, Serving, Answering
<1> QED
  BY <1>2, <1>3

LEMMA CurrentStep ==
  ASSUME QueueInv, HistoryInv, Next
  PROVE  CurrentInv'
<1>0. TypeOK /\ SingleWorker /\ OpInv /\ WaitingInv /\ CurrentInv
  BY DEF QueueInv, HistoryInv
<1>1. ASSUME NEW o \in Operations, AddOperation(o)
      PROVE  CurrentInv'
  <2>1. /\ Elements(mOperations') = Elements(mOperations) \cup {o}
        /\ Elements(added') = Elements(added) \cup {o}
        /\ o \notin Elements(added)
    BY <1>0, <1>1, AppendElements DEF AddOperation, TypeOK
  <2>2. UNCHANGED <<op, outcomeVars, mCancelled>>
    BY <1>1 DEF AddOperation
  <2>3. \A t \in Threads : /\ pc[t] # "dead" => pc'[t] = pc[t]
                           /\ pc[t] = "dead" => pc'[t] \in {"dead", "down"}
    BY <1>0, <1>1 DEF AddOperation, StartThread, TypeOK
  <2> QED
    BY <1>0, <2>1, <2>2, <2>3, WorkerRests
<1>2. ASSUME NEW o \in Operations, Cancel(o)
      PROVE  CurrentInv'
  <2>1. \A x \in Operations : mCancelled[x] => mCancelled'[x]
    BY <1>0, <1>2 DEF Cancel, TypeOK
  <2> QED
    BY <1>0, <1>2, <2>1, WorkerRests DEF Cancel, queueVars, threadVars
<1>3. ASSUME CancelAllOperations
      PROVE  CurrentInv'
  <2>1. \A x \in Operations : mCancelled[x] => mCancelled'[x]
    BY <1>0, <1>3 DEF CancelAllOperations, TypeOK
  <2> QED
    BY <1>0, <1>3, <2>1, WorkerRests DEF CancelAllOperations, queueVars, threadVars
<1>4. ASSUME ReleaseQueue
      PROVE  CurrentInv'
  BY <1>0, <1>4, WorkerRests DEF ReleaseQueue, queueVars, threadVars
<1>5. ASSUME NEW t \in Threads, BeforeMain(t)
      PROVE  CurrentInv'
  <2>1. pc[t] = "waitBefore" /\ CurrentAt(t)
    BY <1>0, <1>5, DispatchWaits DEF BeforeMain, QueueInv, CurrentInv
  <2>2. /\ pc'[t] = "main" /\ \A u \in Threads : u # t => pc'[u] = pc[u]
        /\ UNCHANGED <<mOperations, added, ran, called, op, mCancelled>>
    BY <1>0, <1>5 DEF BeforeMain, GoTo, TypeOK, queueVars, clientVars, outcomeVars
  <2>3. CurrentAt(t)'
    BY <2>1, <2>2 DEF CurrentAt, Serving, Answering
  <2> QED
    BY <1>0, <2>1, <2>2, <2>3, OneWorkerMoves DEF Live
<1>6. ASSUME NEW t \in Threads, CallbackOnMainThread(t)
      PROVE  CurrentInv'
  <2>1. pc[t] = "waitCallback"
    BY <1>6, DispatchWaits DEF CallbackOnMainThread, QueueInv
  <2>2. /\ pc'[t] = "check" /\ \A u \in Threads : u # t => pc'[u] = pc[u]
        /\ UNCHANGED op
    BY <1>0, <1>6 DEF CallbackOnMainThread, GoTo, TypeOK
  <2>3. CurrentAt(t)'
    BY <2>2 DEF CurrentAt, Serving, Answering
  <2> QED
    BY <1>0, <2>1, <2>2, <2>3, OneWorkerMoves DEF Live
<1>7. ASSUME NEW t \in Threads, CheckRunningOnMainThread(t)
      PROVE  CurrentInv'
  BY <1>0, <1>7, WorkerRests
     DEF CheckRunningOnMainThread, queueVars, threadVars, clientVars
<1>8. ASSUME NEW t \in Threads, StoppedOnMainThread(t)
      PROVE  CurrentInv'
  <2>1. pc[t] = "waitStopped"
    BY <1>8, DispatchWaits DEF StoppedOnMainThread, QueueInv
  <2>2. \A u \in Threads : u # t => pc[u] = "dead"
    BY <1>0, <2>1 DEF SingleWorker, Live
  <2>3. \A u \in Threads : op[u] = NULL
    BY <1>0, <2>1, <2>2 DEF CurrentInv, CurrentAt, Serving, Answering
  <2>4. \A u \in Threads : pc'[u] \in {"dead", "down"} /\ op'[u] = NULL
    BY <1>0, <1>8, <2>2, <2>3 DEF StoppedOnMainThread, StartThread, GoTo, TypeOK
  <2> QED
    BY <2>4, RestsWithoutOperation DEF CurrentInv, Serving, Answering
<1>9. ASSUME NEW t \in Threads, DownOperationSem(t)
      PROVE  CurrentInv'
  <2>1. pc[t] = "down" /\ op[t] = NULL
    BY <1>0, <1>9 DEF DownOperationSem, CurrentInv, CurrentAt, Serving, Answering
  <2>2. /\ pc'[t] = "peek" /\ \A u \in Threads : u # t => pc'[u] = pc[u]
        /\ UNCHANGED op
    BY <1>0, <1>9 DEF DownOperationSem, GoTo, TypeOK
  <2>3. CurrentAt(t)'
    BY <2>1, <2>2, RestsWithoutOperation DEF Serving, Answering
  <2> QED
    BY <1>0, <2>1, <2>2, <2>3, OneWorkerMoves DEF Live
<1>10. ASSUME NEW t \in Threads, PeekOperation(t)
      PROVE  CurrentInv'
  <2>1. pc[t] = "peek"
    BY <1>10 DEF PeekOperation
  <2>2. /\ \A u \in Threads : u # t => pc'[u] = pc[u] /\ op'[u] = op[u]
        /\ UNCHANGED ran
    BY <1>0, <1>10 DEF PeekOperation, GoTo, TypeOK, outcomeVars
  <2>3. CASE mOperations = <<>> /\ mQuitting
    <3>1. pc'[t] = "stopping" /\ op'[t] = NULL
      BY <1>0, <1>10, <2>3 DEF PeekOperation, GoTo, TypeOK
    <3> QED
      BY <1>0, <2>1, <2>2, <3>1, RestsWithoutOperation, OneWorkerMoves
         DEF Live, Serving, Answering
  <2>4. CASE mOperations # <<>>
    <3>1. pc'[t] = "before" /\ op'[t] = Head(mOperations)
      BY <1>0, <1>10, <2>4 DEF PeekOperation, GoTo, TypeOK
    <3>2. Head(mOperations) \in Elements(mOperations)
      BY <1>0, <2>4, TailElements DEF TypeOK, WaitingInv
    <3>3. Head(mOperations) \notin Elements(ran)
      <4> SUFFICES ASSUME Head(mOperations) \in Elements(ran) PROVE FALSE
        OBVIOUS
      <4>1. PICK u \in Threads : pc[u] \in {"running", "remove"}
        BY <1>0, <3>2 DEF WaitingInv
      <4> QED
        BY <1>0, <2>1, <4>1 DEF SingleWorker, Live
    <3>4. CurrentAt(t)'
      BY <2>2, <3>1, <3>3 DEF CurrentAt, Serving, Answering
    <3> QED
      BY <1>0, <2>1, <2>2, <3>4, OneWorkerMoves DEF Live
  <2>5. mOperations = <<>> => mQuitting
    <3> SUFFICES ASSUME mOperations = <<>>, ~mQuitting PROVE FALSE
      OBVIOUS
    <3>1. mOperationSem + 1 = Len(mOperations) + 0
      BY <1>0, <2>1, TokensOfWorker DEF QueueInv, Live, Holding, N
    <3> QED
      BY <1>0, <3>1, ElementFacts DEF TypeOK
  <2> QED
    BY <2>3, <2>4, <2>5
<1>11. ASSUME NEW t \in Threads, StopRunning(t)
      PROVE  CurrentInv'
  <2>1. pc[t] = "stopping" /\ op[t] = NULL
    BY <1>0, <1>11 DEF StopRunning, CurrentInv, CurrentAt, Serving, Answering
  <2>2. /\ pc'[t] = "waitStopped" /\ \A u \in Threads : u # t => pc'[u] = pc[u]
        /\ UNCHANGED op
    BY <1>0, <1>11 DEF StopRunning, GoTo, TypeOK
  <2>3. CurrentAt(t)'
    BY <2>1, <2>2, RestsWithoutOperation DEF Serving, Answering
  <2> QED
    BY <1>0, <2>1, <2>2, <2>3, OneWorkerMoves DEF Live
<1>12. ASSUME NEW t \in Threads, PostBeforeMain(t)
      PROVE  CurrentInv'
  <2>1. pc[t] = "before" /\ CurrentAt(t)
    BY <1>0, <1>12 DEF PostBeforeMain, CurrentInv
  <2>2. /\ pc'[t] = "waitBefore" /\ \A u \in Threads : u # t => pc'[u] = pc[u]
        /\ UNCHANGED <<op, ran>>
    BY <1>0, <1>12 DEF PostBeforeMain, GoTo, TypeOK, outcomeVars
  <2>3. CurrentAt(t)'
    BY <2>1, <2>2 DEF CurrentAt, Serving, Answering
  <2> QED
    BY <1>0, <2>1, <2>2, <2>3, OneWorkerMoves DEF Live
<1>13. ASSUME NEW t \in Threads, EnterMain(t)
      PROVE  CurrentInv'
  <2>1. pc[t] = "main" /\ op[t] \in Operations
    BY <1>13, OpIsOperation DEF EnterMain, Serving
  <2>2. /\ \A u \in Threads : u # t => pc'[u] = pc[u]
        /\ UNCHANGED <<op, mCancelled>>
    BY <1>0, <1>13 DEF EnterMain, GoTo, TypeOK, clientVars
  <2>3. CASE ran' = Append(ran, op[t]) /\ GoTo(t, "running")
    <3>1. op[t] \in Elements(ran') /\ pc'[t] = "running"
      BY <1>0, <2>1, <2>3, AppendElements DEF GoTo, TypeOK
    <3>2. CurrentAt(t)'
      BY <2>2, <3>1 DEF CurrentAt, Serving, Answering
    <3> QED
      BY <1>0, <2>1, <2>2, <3>2, OneWorkerMoves DEF Live
  <2>4. CASE mCancelled[op[t]] /\ op[t] \notin RunWhenCancelled /\ GoTo(t, "remove")
    <3>1. pc'[t] = "remove"
      BY <1>0, <2>4 DEF GoTo, TypeOK
    <3>2. CurrentAt(t)'
      BY <2>2, <2>4, <3>1 DEF CurrentAt, Serving, Answering
    <3> QED
      BY <1>0, <2>1, <2>2, <3>2, OneWorkerMoves DEF Live
  <2> QED
    BY <1>13, <2>3, <2>4 DEF EnterMain
<1>14. ASSUME NEW t \in Threads, LeaveMain(t)
      PROVE  CurrentInv'
  <2>1. pc[t] = "running" /\ CurrentAt(t)
    BY <1>0, <1>14 DEF LeaveMain, CurrentInv
  <2>2. /\ pc'[t] = "remove" /\ \A u \in Threads : u # t => pc'[u] = pc[u]
        /\ UNCHANGED <<op, ran>>
    BY <1>0, <1>14 DEF LeaveMain, GoTo, TypeOK, outcomeVars
  <2>3. CurrentAt(t)'
    BY <2>1, <2>2 DEF CurrentAt, Serving, Answering
  <2> QED
    BY <1>0, <2>1, <2>2, <2>3, OneWorkerMoves DEF Live
<1>15. ASSUME NEW t \in Threads, RemoveOperation(t)
      PROVE  CurrentInv'
  <2>1. /\ pc[t] = "remove" /\ CurrentAt(t)
        /\ op[t] = Head(mOperations) /\ mOperations # <<>>
        /\ op[t] \in Elements(added) /\ op[t] \notin Elements(called)
    BY <1>0, <1>15, OpIsHead DEF RemoveOperation, Serving, CurrentInv
  <2>2. /\ pc'[t] = "callback" /\ \A u \in Threads : u # t => pc'[u] = pc[u]
        /\ UNCHANGED <<op, added, ran, called, mCancelled>>
    BY <1>0, <1>15 DEF RemoveOperation, GoTo, TypeOK, clientVars, outcomeVars
  <2>3. op[t] \notin Elements(mOperations')
    BY <1>0, <1>15, <2>1, TailElements DEF RemoveOperation, TypeOK, WaitingInv
  <2>4. CurrentAt(t)'
    BY <2>1, <2>2, <2>3 DEF CurrentAt, Serving, Answering
  <2> QED
    BY <1>0, <2>1, <2>2, <2>4, OneWorkerMoves DEF Live
<1>16. ASSUME NEW t \in Threads, PostCallback(t)
      PROVE  CurrentInv'
  <2>1. pc[t] = "callback" /\ CurrentAt(t)
    BY <1>0, <1>16 DEF PostCallback, CurrentInv
  <2>2. /\ \A u \in Threads : u # t => pc'[u] = pc[u]
        /\ pc'[t] = "check" \/ (pc'[t] = "waitCallback" /\ ~mCancelled[op[t]])
        /\ UNCHANGED <<op, mOperations, added, ran, called, mCancelled>>
    BY <1>0, <1>16 DEF PostCallback, GoTo, TypeOK, queueVars, clientVars, outcomeVars
  <2>3. CurrentAt(t)'
    BY <2>1, <2>2 DEF CurrentAt, Serving, Answering
  <2> QED
    BY <1>0, <2>1, <2>2, <2>3, OneWorkerMoves DEF Live
<1>17. ASSUME NEW t \in Threads, PostCheckRunning(t)
      PROVE  CurrentInv'
  <2>1. pc[t] = "check"
    BY <1>17 DEF PostCheckRunning
  <2>2. /\ \A u \in Threads : u # t => pc'[u] = pc[u] /\ op'[u] = op[u]
        /\ pc'[t] = "down" /\ op'[t] = NULL
    BY <1>0, <1>17 DEF PostCheckRunning, GoTo, TypeOK
  <2> QED
    BY <1>0, <2>1, <2>2, RestsWithoutOperation, OneWorkerMoves
       DEF Live, Serving, Answering
<1>18. ASSUME CheckRunningAfterDelay
      PROVE  CurrentInv'
  BY <1>0, <1>18, WorkerRests DEF CheckRunningAfterDelay, threadVars, clientVars
<1> QED
  BY <1>1, <1>2, <1>3, <1>4, <1>5, <1>6, <1>7, <1>8, <1>9,
     <1>10, <1>11, <1>12, <1>13, <1>14, <1>15, <1>16, <1>17, <1>18
     DEF Next, Client, MainThread, Worker

LEMMA HistoryInit == Init => HistoryInv
BY NoElements
   DEF Init, HistoryInv, WaitingInv, CurrentInv, CurrentAt, Serving, Answering

LEMMA HistoryStep == QueueInv /\ HistoryInv /\ [Next]_vars => HistoryInv'
<1>1. ASSUME QueueInv, HistoryInv, Next
      PROVE  HistoryInv'
  BY <1>1, WaitingStep, CurrentStep DEF HistoryInv
<1>2. ASSUME HistoryInv, UNCHANGED vars
      PROVE  HistoryInv'
  <2>1. UNCHANGED <<mOperations, added, ran, called, pc, op, mCancelled>>
    BY <1>2 DEF vars, queueVars, threadVars, clientVars, outcomeVars
  <2> QED
    BY <1>2, <2>1 DEF HistoryInv, WaitingInv, CurrentInv, CurrentAt
<1> QED
  BY <1>1, <1>2

-----------------------------------------------------------------------------
\* The executor's variables, one operation's phase at a time.
LEMMA MovesOne ==
  ASSUME NEW o \in Operations, NEW from, NEW to,
         Phase(o) = from, Phase(o)' = to,
         \A x \in Operations : x # o => Phase(x)' = Phase(x)
  PROVE  Executor!Move(o, from, to)
BY DEF Executor!Move

LEMMA PhasesKept ==
  ASSUME PhasesFollow, PhasesFollow',
         UNCHANGED <<mOperations, added, ran, called>>,
         \A o \in Operations : Awaits(o)' <=> Awaits(o)
  PROVE  \A o \in Operations : Phase(o)' = Phase(o)
BY DEF PhasesFollow, PhaseOf

\* Only the worker's own operation awaits its callback.
AwaitsFollow ==
  \A t \in Threads : Live(t) =>
    \A o \in Operations :
      Awaits(o) <=> /\ op[t] = o /\ o \in Elements(ran)
                    /\ pc[t] \in {"callback", "waitCallback"}

LEMMA AwaitsFacts == SingleWorker => AwaitsFollow
BY DEF SingleWorker, Live, AwaitsFollow, Awaits

LEMMA AwaitsFactsAfter == SingleWorker' => AwaitsFollow'
BY AwaitsFacts, PTL

\* What the steps below are proved from.
Known ==
  /\ QueueInv /\ HistoryInv
  /\ PhasesFollow /\ WorkersFollow /\ AwaitsFollow

LEMMA KnownFacts == QueueInv /\ HistoryInv => Known
BY PhaseFacts, WorkerFacts, AwaitsFacts DEF Known, QueueInv

LEMMA KnownFactsAfter == QueueInv' /\ HistoryInv' => Known'
BY KnownFacts, PTL

\* The worker goes on without the executor noticing.
LEMMA WorkerStutters ==
  ASSUME Known, Known', NEW t \in Threads, Live(t), Live(t)',
         UNCHANGED <<mOperations, added, ran, called, mCancelled, mQuitting>>,
         pc[t] \in {"stopping", "waitStopped"} <=> pc'[t] \in {"stopping", "waitStopped"},
         pc[t] \in {"callback", "waitCallback"} /\ op[t] \in Elements(ran)
           <=> pc'[t] \in {"callback", "waitCallback"} /\ op[t] \in Elements(ran),
         pc[t] \in {"callback", "waitCallback"} \/ pc'[t] \in {"callback", "waitCallback"}
           => op'[t] = op[t]
  PROVE  UNCHANGED Executor!vars
<1>1. \A o \in Operations : Awaits(o)' <=> Awaits(o)
  BY DEF Known, AwaitsFollow
<1>2. \A o \in Operations : Phase(o)' = Phase(o)
  BY <1>1, PhasesKept DEF Known
<1>3. WorkerState' = WorkerState
  BY DEF Known, WorkersFollow, WorkerOf
<1> QED
  BY <1>2, <1>3 DEF Executor!vars

\* While the worker stays where it is the executor's worker and phases do.
LEMMA WorkerStays ==
  ASSUME UNCHANGED <<mOperations, added, ran, called, op, pc, mStarted, mQuitting>>
  PROVE  /\ [o \in Operations |-> Phase(o)]' = [o \in Operations |-> Phase(o)]
         /\ WorkerState' = WorkerState
<1>1. \A o \in Operations : Phase(o)' = Phase(o)
  BY DEF Phase
<1>2. WorkerState' = WorkerState
  BY DEF WorkerState
<1> QED
  BY <1>1, <1>2

LEMMA AddRefines ==
  ASSUME Known, Known', NEW o \in Operations, AddOperation(o)
  PROVE  Executor!Add(o)
<1>0. TypeOK /\ SingleWorker /\ WaitingInv
  BY DEF Known, QueueInv, HistoryInv
<1>1. /\ Elements(mOperations') = Elements(mOperations) \cup {o}
      /\ Elements(added') = Elements(added) \cup {o}
      /\ o \notin Elements(added)
  BY <1>0, AppendElements DEF AddOperation, TypeOK
<1>2. UNCHANGED <<ran, called, op, mCancelled>> /\ mOperations' = Append(mOperations, o)
  BY DEF AddOperation, outcomeVars
<1>3. \A t \in Threads : pc'[t] = pc[t] \/ (pc[t] = "dead" /\ pc'[t] = "down")
  BY <1>0 DEF AddOperation, StartThread, TypeOK
<1>4. \A x \in Operations : Awaits(x)' <=> Awaits(x)
  BY <1>2, <1>3 DEF Awaits
<1>5. Executor!Move(o, "new", "waiting")
  <2>1. Phase(o) = "new" /\ Phase(o)' = "waiting"
    BY <1>0, <1>1, <1>2 DEF Known, PhasesFollow, PhaseOf, WaitingInv
  <2>2. \A x \in Operations : x # o => Phase(x)' = Phase(x)
    BY <1>1, <1>2, <1>4 DEF Known, PhasesFollow, PhaseOf
  <2> QED
    BY <2>1, <2>2, MovesOne
<1>6. CASE mStarted
  <2>1. PICK t \in Threads : Live(t)
    BY <1>0, <1>6 DEF SingleWorker
  <2>2. UNCHANGED <<pc, mQuitting>>
    BY <1>6 DEF AddOperation
  <2>3. WorkerState' = WorkerState /\ WorkerState # "none"
    BY <2>1, <2>2 DEF Known, WorkersFollow, WorkerOf, Live
  <2> QED
    BY <1>2, <1>5, <2>3 DEF Executor!Add
<1>7. CASE ~mStarted
  <2>1. WorkerState = "none"
    BY <1>7 DEF Known, WorkersFollow
  <2>2. ~mQuitting' /\ \E t \in Threads : pc'[t] = "down"
    BY <1>0, <1>7 DEF AddOperation, StartThread, TypeOK
  <2>3. WorkerState' = "started"
    BY <2>2 DEF Known, WorkersFollow, WorkerOf, Live
  <2> QED
    BY <1>2, <1>5, <2>1, <2>3 DEF Executor!Add
<1> QED
  BY <1>6, <1>7

LEMMA CallbackRefines ==
  ASSUME Known, Known', NEW t \in Threads, CallbackOnMainThread(t)
  PROVE  \E o \in Operations : Executor!Call(o) \/ Executor!Drop(o)
<1>0. TypeOK /\ SingleWorker /\ CurrentAt(t)
  BY DEF Known, QueueInv, HistoryInv, CurrentInv
<1> PICK o \in Operations : o = op[t]
  BY DispatchWaits, OpIsOperation DEF CallbackOnMainThread, Known, Answering
<1>1. pc[t] = "waitCallback" /\ o = op[t]
  BY DispatchWaits DEF CallbackOnMainThread, Known
<1>2. /\ UNCHANGED <<mOperations, added, ran, op, mCancelled, mQuitting>>
      /\ pc'[t] = "check" /\ Live(t) /\ Live(t)'
  BY <1>0, <1>1
     DEF CallbackOnMainThread, GoTo, TypeOK, queueVars, clientVars, Live
<1>3. WorkerState' = WorkerState
  BY <1>1, <1>2 DEF Known, WorkersFollow, WorkerOf
<1>4. /\ Phase(o) = "finished"
      /\ o \in Elements(added) \ (Elements(mOperations) \cup Elements(called))
  BY <1>0, <1>1, <1>2 DEF Known, PhasesFollow, PhaseOf, AwaitsFollow, CurrentAt
<1>5. \A x \in Operations : ~Awaits(x)' /\ (x # o => ~Awaits(x))
  BY <1>1, <1>2 DEF Known, AwaitsFollow
<1>6. CASE ~mCancelled[o]
  <2>1. Elements(called') = Elements(called) \cup {o}
    BY <1>0, <1>1, <1>6, AppendElements DEF CallbackOnMainThread, TypeOK
  <2>2. Phase(o)' = "called" /\ \A x \in Operations : x # o => Phase(x)' = Phase(x)
    BY <1>1, <1>2, <1>4, <1>5, <2>1 DEF Known, PhasesFollow, PhaseOf
  <2>3. Executor!Move(o, "finished", "called")
    BY <1>1, <1>4, <2>2, MovesOne
  <2>4. Executor!Call(o)
    BY <1>2, <1>3, <1>6, <2>3 DEF Executor!Call
  <2> QED
    BY <1>1, <2>4
<1>7. CASE mCancelled[o]
  <2>1. called' = called
    BY <1>7 DEF CallbackOnMainThread
  <2>2. Phase(o)' = "dropped" /\ \A x \in Operations : x # o => Phase(x)' = Phase(x)
    BY <1>1, <1>2, <1>4, <1>5, <2>1 DEF Known, PhasesFollow, PhaseOf
  <2>3. Executor!Move(o, "finished", "dropped")
    BY <1>1, <1>4, <2>2, MovesOne
  <2>4. Executor!Drop(o)
    BY <1>1, <1>2, <1>3, <1>7, <2>3 DEF Executor!Drop
  <2> QED
    BY <1>1, <2>4
<1> QED
  BY <1>6, <1>7

LEMMA StoppedRefines ==
  ASSUME Known, Known', NEW t \in Threads, StoppedOnMainThread(t)
  PROVE  Executor!Stopped
<1>0. TypeOK /\ SingleWorker /\ pc[t] = "waitStopped"
  BY DispatchWaits DEF StoppedOnMainThread, Known, QueueInv
<1>1. /\ WorkerState = "stopping"
      /\ \A o \in Operations : ~Awaits(o)
  BY <1>0 DEF Known, WorkersFollow, WorkerOf, AwaitsFollow, Live
<1>2. UNCHANGED <<mOperations, added, ran, called, mCancelled>>
  BY DEF StoppedOnMainThread, clientVars, outcomeVars
<1>3. \A u \in Threads : pc'[u] \in {"dead", "down"}
  BY ZenonT(40), <1>0 DEF StoppedOnMainThread, StartThread, GoTo, TypeOK,
     SingleWorker, Live
<1>4. \A o \in Operations : ~Awaits(o)'
  BY <1>3 DEF Awaits
<1>5. \A o \in Operations : Phase(o)' = Phase(o)
  BY <1>1, <1>2, <1>4, PhasesKept DEF Known
<1>6. WorkerState' = IF mOperations = <<>> THEN "none" ELSE "started"
  <2>1. CASE mOperations = <<>>
    BY <2>1 DEF StoppedOnMainThread, Known, WorkersFollow
  <2>2. CASE mOperations # <<>>
    <3>1. ~mQuitting' /\ \E u \in Threads : pc'[u] = "down"
      BY <1>0, <2>2 DEF StoppedOnMainThread, StartThread, TypeOK
    <3> QED
      BY <2>2, <3>1 DEF Known, WorkersFollow, WorkerOf, Live
  <2> QED
    BY <2>1, <2>2
<1> QED
  BY <1>1, <1>2, <1>5, <1>6 DEF Executor!Stopped

LEMMA PeekRefines ==
  ASSUME Known, Known', NEW t \in Threads, PeekOperation(t)
  PROVE  Executor!Stop \/ UNCHANGED Executor!vars
<1>0. TypeOK /\ SingleWorker /\ pc[t] = "peek"
  BY DEF PeekOperation, Known, QueueInv
<1>1. UNCHANGED <<mOperations, added, ran, called, mCancelled, mQuitting>>
  BY DEF PeekOperation, queueVars, clientVars, outcomeVars
<1>2. CASE mOperations = <<>> /\ mQuitting
  <2>1. pc'[t] = "stopping"
    BY <1>0, <1>2 DEF PeekOperation, GoTo, TypeOK
  <2>2. WorkerState = "quitting" /\ WorkerState' = "stopping"
    BY <1>0, <1>2, <2>1 DEF Known, WorkersFollow, WorkerOf, Live
  <2>3. \A o \in Operations : ~Awaits(o) /\ ~Awaits(o)'
    BY <1>0, <2>1 DEF Known, AwaitsFollow, Live
  <2>4. \A o \in Operations : Phase(o)' = Phase(o)
    BY <1>1, <2>3, PhasesKept DEF Known
  <2>5. Executor!Idle
    BY <1>2, <2>3, NoElements DEF Executor!Idle, Known, PhasesFollow, PhaseOf
  <2> QED
    BY <1>1, <1>2, <2>2, <2>4, <2>5 DEF Executor!Stop
<1>3. CASE ~(mOperations = <<>> /\ mQuitting)
  <2>1. pc'[t] = "before"
    BY <1>0, <1>3 DEF PeekOperation, GoTo, TypeOK
  <2> QED
    BY <1>0, <1>1, <2>1, WorkerStutters DEF Live
<1> QED
  BY <1>2, <1>3

\* While the worker is past the queue's head and not at its callback, nothing
\* else runs.
LEMMA IdleButForHead ==
  ASSUME Known, NEW t \in Threads, pc[t] \in {"main", "remove"},
         op[t] \notin Elements(ran)
  PROVE  Executor!AtHead(op[t])
<1>1. ASSUME NEW x \in Operations
      PROVE  Phase(x) \notin {"running", "finished"}
  <2>1. ~Awaits(x)
    BY DEF Known, AwaitsFollow, Live
  <2>2. x \in Elements(mOperations) => x \notin Elements(ran)
    BY DEF Known, QueueInv, SingleWorker, Live, HistoryInv, WaitingInv
  <2> QED
    BY <2>1, <2>2 DEF Known, PhasesFollow, PhaseOf
<1>2. WorkerState \in {"started", "quitting"}
  BY DEF Known, WorkersFollow, WorkerOf, Live
<1>3. mOperations # <<>> /\ op[t] = Head(mOperations)
  BY OpIsHead DEF Known, HistoryInv, Serving
<1> QED
  BY <1>1, <1>2, <1>3 DEF Executor!AtHead, Executor!Idle

LEMMA EnterRefines ==
  ASSUME Known, Known', NEW t \in Threads, EnterMain(t)
  PROVE  \E o \in Operations : Executor!Begin(o) \/ UNCHANGED Executor!vars
<1> PICK o \in Operations : o = op[t]
  BY OpIsOperation DEF EnterMain, Known, Serving
<1>0. TypeOK /\ SingleWorker /\ pc[t] = "main" /\ o \notin Elements(ran)
  BY DEF EnterMain, Known, QueueInv, HistoryInv, CurrentInv, CurrentAt
<1>1. o = op[t] /\ o \in Elements(mOperations) /\ o \in Elements(added)
  BY <1>0, OpIsHead DEF Known, HistoryInv, Serving
<1>2. UNCHANGED <<mOperations, added, called, op, mCancelled, mQuitting>>
  BY DEF EnterMain, queueVars, clientVars
<1>3. CASE /\ ~mCancelled[o] \/ o \in RunWhenCancelled
           /\ ran' = Append(ran, o) /\ GoTo(t, "running")
  <2>1. Elements(ran') = Elements(ran) \cup {o} /\ pc'[t] = "running"
    BY <1>0, <1>1, <1>3, AppendElements DEF GoTo, TypeOK
  <2>2. \A x \in Operations : ~Awaits(x) /\ ~Awaits(x)'
    BY <1>0, <2>1 DEF Known, AwaitsFollow, Live
  <2>3. /\ Phase(o) = "waiting" /\ Phase(o)' = "running"
        /\ \A x \in Operations : x # o => Phase(x)' = Phase(x)
    BY <1>0, <1>1, <1>2, <2>1, <2>2 DEF Known, PhasesFollow, PhaseOf
  <2>4. Executor!Move(o, "waiting", "running")
    BY <1>1, <2>3, MovesOne
  <2>5. WorkerState' = WorkerState
    BY <1>0, <1>2, <2>1 DEF Known, WorkersFollow, WorkerOf, Live
  <2>6. Executor!AtHead(o)
    BY <1>0, IdleButForHead
  <2>7. Executor!Begin(o)
    BY <1>2, <1>3, <2>4, <2>5, <2>6 DEF Executor!Begin
  <2> QED
    BY <1>1, <2>7
<1>4. CASE UNCHANGED ran /\ GoTo(t, "remove")
  <2>1. pc'[t] = "remove"
    BY <1>0, <1>4 DEF GoTo, TypeOK
  <2>2. UNCHANGED Executor!vars
    BY <1>0, <1>2, <1>4, <2>1, WorkerStutters DEF Live
  <2> QED
    BY <1>1, <2>2
<1> QED
  BY <1>3, <1>4 DEF EnterMain

LEMMA RemoveRefines ==
  ASSUME Known, Known', NEW t \in Threads, RemoveOperation(t)
  PROVE  \E o \in Operations : Executor!Finish(o) \/ Executor!Skip(o)
<1> PICK o \in Operations : o = op[t]
  BY OpIsOperation DEF RemoveOperation, Known, Serving
<1>0. TypeOK /\ SingleWorker /\ pc[t] = "remove" /\ CurrentAt(t) /\ WaitingInv
  BY DEF RemoveOperation, Known, QueueInv, HistoryInv, CurrentInv
<1>1. /\ o = op[t] /\ o \in Elements(mOperations)
      /\ o \in Elements(added) /\ o \notin Elements(called)
      /\ o = Head(mOperations) /\ mOperations # <<>>
  BY <1>0, OpIsHead DEF Known, Serving
<1>2. /\ UNCHANGED <<added, ran, called, op, mCancelled, mQuitting>>
      /\ mOperations' = Tail(mOperations)
      /\ pc'[t] = "callback"
  BY <1>0 DEF RemoveOperation, GoTo, TypeOK, clientVars, outcomeVars
<1>3. Elements(mOperations') = Elements(mOperations) \ {o}
  BY <1>0, <1>1, <1>2, TailElements DEF TypeOK, WaitingInv
<1>4. WorkerState' = WorkerState
  BY <1>0, <1>2 DEF Known, WorkersFollow, WorkerOf, Live
<1>5. \A x \in Operations : /\ ~Awaits(x)
                            /\ Awaits(x)' <=> x = o /\ o \in Elements(ran)
  BY <1>0, <1>2 DEF Known, AwaitsFollow, Live
<1>6. \A x \in Operations : x # o => Phase(x)' = Phase(x)
  BY <1>2, <1>3, <1>5 DEF Known, PhasesFollow, PhaseOf
<1>7. CASE o \in Elements(ran)
  <2>1. Phase(o) = "running" /\ Phase(o)' = "finished"
    BY <1>1, <1>2, <1>3, <1>5, <1>7 DEF Known, PhasesFollow, PhaseOf
  <2>2. Executor!Move(o, "running", "finished")
    BY <1>1, <1>6, <2>1, MovesOne
  <2>3. Executor!Finish(o)
    BY <1>2, <1>4, <2>2 DEF Executor!Finish
  <2> QED
    BY <1>1, <2>3
<1>8. CASE o \notin Elements(ran)
  <2>1. Phase(o) = "waiting" /\ Phase(o)' = "dropped"
    BY <1>1, <1>2, <1>3, <1>5, <1>8 DEF Known, PhasesFollow, PhaseOf
  <2>2. Executor!Move(o, "waiting", "dropped")
    BY <1>1, <1>6, <2>1, MovesOne
  <2>3. mCancelled[o] /\ o \notin RunWhenCancelled
    BY <1>0, <1>8 DEF CurrentAt
  <2>4. Executor!AtHead(o)
    BY <1>0, <1>8, IdleButForHead
  <2>5. Executor!Skip(o)
    BY <1>1, <1>2, <1>4, <2>2, <2>3, <2>4 DEF Executor!Skip
  <2> QED
    BY <1>1, <2>5
<1> QED
  BY <1>7, <1>8

LEMMA PostCallbackRefines ==
  ASSUME Known, Known', NEW t \in Threads, PostCallback(t)
  PROVE  \E o \in Operations : Executor!Drop(o) \/ UNCHANGED Executor!vars
<1> PICK o \in Operations : o = op[t]
  BY OpIsOperation DEF PostCallback, Known, Answering
<1>0. TypeOK /\ SingleWorker /\ pc[t] = "callback" /\ CurrentAt(t) /\ o = op[t]
  BY DEF PostCallback, Known, QueueInv, HistoryInv, CurrentInv
<1>1. UNCHANGED <<mOperations, added, ran, called, op, mCancelled, mQuitting>>
  BY DEF PostCallback, queueVars, clientVars, outcomeVars
<1>2. pc'[t] \in {"check", "waitCallback"}
  BY <1>0 DEF PostCallback, GoTo, TypeOK
<1>3. CASE pc'[t] = "waitCallback" \/ o \notin Elements(ran)
  <2>1. UNCHANGED Executor!vars
    BY <1>0, <1>1, <1>2, <1>3, WorkerStutters DEF Live
  <2> QED
    BY <1>0, <2>1
<1>4. CASE pc'[t] = "check" /\ o \in Elements(ran)
  <2>1. mCancelled[o]
    BY <1>0, <1>4 DEF PostCallback, GoTo, TypeOK
  <2>2. \A x \in Operations : ~Awaits(x)' /\ (Awaits(x) <=> x = o)
    BY <1>0, <1>4 DEF Known, AwaitsFollow, Live
  <2>3. /\ Phase(o) = "finished" /\ Phase(o)' = "dropped"
        /\ \A x \in Operations : x # o => Phase(x)' = Phase(x)
    BY <1>0, <1>1, <2>2 DEF Known, PhasesFollow, PhaseOf, CurrentAt
  <2>4. Executor!Move(o, "finished", "dropped")
    BY <1>0, <2>3, MovesOne
  <2>5. WorkerState' = WorkerState
    BY <1>0, <1>1, <1>4 DEF Known, WorkersFollow, WorkerOf, Live
  <2>6. Executor!Drop(o)
    BY <1>0, <1>1, <2>1, <2>4, <2>5 DEF Executor!Drop
  <2> QED
    BY <1>0, <2>6
<1> QED
  BY <1>2, <1>3, <1>4

LEMMA DelayRefines ==
  ASSUME Known, Known', CheckRunningAfterDelay
  PROVE  Executor!Quit \/ UNCHANGED Executor!vars
<1>0. TypeOK /\ SingleWorker /\ StopInv
  BY DEF Known, QueueInv
<1>1. UNCHANGED <<mOperations, added, ran, called, op, pc, mStarted, mCancelled>>
  BY DEF CheckRunningAfterDelay, threadVars, clientVars, outcomeVars
<1>2. CASE UNCHANGED mQuitting
  BY <1>1, <1>2, WorkerStays DEF Executor!vars
<1>3. CASE ~mQuitting /\ mOperations = <<>> /\ mQuitting' = TRUE
  <2>1. mStarted
    BY <1>0, <1>3 DEF CheckRunningAfterDelay, StopInv, TypeOK
  <2>2. PICK t \in Threads : Live(t)
    BY <1>0, <2>1 DEF SingleWorker
  <2>3. pc[t] \notin {"stopping", "waitStopped"}
    BY <1>0, <1>3 DEF StopInv
  <2>4. WorkerState = "started" /\ WorkerState' = "quitting"
    BY <1>1, <1>3, <2>2, <2>3 DEF Known, WorkersFollow, WorkerOf, Live
  <2>5. \A o \in Operations : Awaits(o)' <=> Awaits(o)
    BY <1>1 DEF Awaits
  <2>6. \A o \in Operations : Phase(o)' = Phase(o)
    BY <1>1, <2>5, PhasesKept DEF Known
  <2> QED
    BY <1>1, <1>3, <2>4, <2>6 DEF Executor!Quit
<1> QED
  BY <1>2, <1>3 DEF CheckRunningAfterDelay

\* Every step of the queue is a step of the executor, or none.
LEMMA StepRefines ==
  ASSUME Known, Known', [Next]_vars
  PROVE  [Executor!Next]_(Executor!vars)
<1>0. TypeOK /\ SingleWorker
  BY DEF Known, QueueInv
<1>1. ASSUME NEW o \in Operations, AddOperation(o)
      PROVE  Executor!Next
  BY <1>1, AddRefines DEF Executor!Next
<1>2. ASSUME NEW S \in SUBSET Operations,
             mCancelled' = [o \in Operations |-> mCancelled[o] \/ o \in S],
             UNCHANGED <<queueVars, threadVars, added, outcomeVars>>
      PROVE  Executor!Next
  <2>1. /\ [o \in Operations |-> Phase(o)]' = [o \in Operations |-> Phase(o)]
        /\ WorkerState' = WorkerState
    BY <1>2, WorkerStays DEF queueVars, threadVars, outcomeVars
  <2>2. {o \in Operations : mCancelled'[o]} = {o \in Operations : mCancelled[o]} \cup S
    BY <1>2
  <2>3. Executor!Cancel(S)
    BY <1>2, <2>1, <2>2 DEF Executor!Cancel, queueVars
  <2> QED
    BY <1>2, <2>3 DEF Executor!Next
<1>3. ASSUME NEW o \in Operations, Cancel(o)
      PROVE  Executor!Next
  <2>1. mCancelled' = [x \in Operations |-> mCancelled[x] \/ x \in {o}]
    BY <1>0, <1>3 DEF Cancel, TypeOK
  <2> QED
    BY <1>2, <1>3, <2>1 DEF Cancel
<1>4. ASSUME CancelAllOperations
      PROVE  Executor!Next
  <2>1. Elements(mOperations) \subseteq Operations
    BY <1>0, ElementFacts DEF TypeOK, Elements
  <2> QED
    BY <1>2, <1>4, <2>1 DEF CancelAllOperations
<1>5. ASSUME UNCHANGED <<mOperations, mStarted, mQuitting, threadVars,
                         mCancelled, added, outcomeVars>>
      PROVE  UNCHANGED Executor!vars
  BY <1>5, WorkerStays DEF Executor!vars, threadVars, outcomeVars
<1>6. ASSUME ReleaseQueue
      PROVE  UNCHANGED Executor!vars
  BY <1>5, <1>6 DEF ReleaseQueue, queueVars
<1>7. ASSUME NEW t \in Threads, CheckRunningOnMainThread(t)
      PROVE  UNCHANGED Executor!vars
  BY <1>5, <1>7 DEF CheckRunningOnMainThread, queueVars, clientVars
<1>8. ASSUME NEW t \in Threads, BeforeMain(t)
      PROVE  UNCHANGED Executor!vars
  <2>1. pc[t] = "waitBefore"
    BY <1>8, DispatchWaits DEF BeforeMain, Known
  <2> QED
    BY <1>0, <1>8, <2>1, WorkerStutters
       DEF BeforeMain, GoTo, TypeOK, Live, queueVars, clientVars, outcomeVars
<1>9. ASSUME NEW t \in Threads, CallbackOnMainThread(t)
      PROVE  Executor!Next
  BY <1>9, CallbackRefines DEF Executor!Next, Executor!Serve, Executor!Execute
<1>10. ASSUME NEW t \in Threads, StoppedOnMainThread(t)
      PROVE  Executor!Next
  BY <1>10, StoppedRefines DEF Executor!Next, Executor!Serve
<1>11. ASSUME NEW t \in Threads,
              DownOperationSem(t) \/ StopRunning(t) \/ PostBeforeMain(t) \/ LeaveMain(t)
      PROVE  UNCHANGED Executor!vars
  <2>1. CASE DownOperationSem(t)
    BY <1>0, <2>1, WorkerStutters
       DEF DownOperationSem, GoTo, TypeOK, Live, clientVars, outcomeVars
  <2>2. CASE StopRunning(t)
    BY <1>0, <2>2, WorkerStutters
       DEF StopRunning, GoTo, TypeOK, Live, clientVars, outcomeVars
  <2>3. CASE PostBeforeMain(t)
    BY <1>0, <2>3, WorkerStutters
       DEF PostBeforeMain, GoTo, TypeOK, Live, queueVars, clientVars, outcomeVars
  <2>4. CASE LeaveMain(t)
    BY <1>0, <2>4, WorkerStutters
       DEF LeaveMain, GoTo, TypeOK, Live, queueVars, clientVars, outcomeVars
  <2> QED
    BY <1>11, <2>1, <2>2, <2>3, <2>4
<1>12. ASSUME NEW t \in Threads, PeekOperation(t)
      PROVE  Executor!Next \/ UNCHANGED Executor!vars
  BY <1>12, PeekRefines DEF Executor!Next, Executor!Serve
<1>13. ASSUME NEW t \in Threads, EnterMain(t)
      PROVE  Executor!Next \/ UNCHANGED Executor!vars
  BY <1>13, EnterRefines DEF Executor!Next, Executor!Serve, Executor!Execute
<1>14. ASSUME NEW t \in Threads, RemoveOperation(t)
      PROVE  Executor!Next
  BY <1>14, RemoveRefines DEF Executor!Next, Executor!Serve, Executor!Execute
<1>15. ASSUME NEW t \in Threads, PostCallback(t)
      PROVE  Executor!Next \/ UNCHANGED Executor!vars
  BY <1>15, PostCallbackRefines DEF Executor!Next, Executor!Serve, Executor!Execute
<1>16. ASSUME NEW t \in Threads, PostCheckRunning(t)
      PROVE  UNCHANGED Executor!vars
  BY <1>0, <1>16, WorkerStutters
     DEF PostCheckRunning, GoTo, TypeOK, Live, queueVars, clientVars, outcomeVars
<1>17. ASSUME CheckRunningAfterDelay
      PROVE  Executor!Next \/ UNCHANGED Executor!vars
  BY <1>17, DelayRefines DEF Executor!Next, Executor!Serve
<1>18. ASSUME UNCHANGED vars
      PROVE  UNCHANGED Executor!vars
  BY <1>5, <1>18 DEF vars, queueVars, clientVars
<1> QED
  BY <1>1, <1>3, <1>4, <1>6, <1>7, <1>8, <1>9, <1>10, <1>11, <1>12, <1>13,
     <1>14, <1>15, <1>16, <1>17, <1>18
     DEF Next, Client, MainThread, Worker

LEMMA InitRefines == Init => Executor!Init
<1> SUFFICES ASSUME Init PROVE Executor!Init
  OBVIOUS
<1>1. Known
  BY QueueInit, HistoryInit, KnownFacts
<1>2. \A o \in Operations : Phase(o) = "new"
  BY <1>1, NoElements DEF Known, PhasesFollow, PhaseOf, Init
<1>3. WorkerState = "none"
  BY <1>1 DEF Known, WorkersFollow, Init
<1> QED
  BY <1>2, <1>3 DEF Executor!Init, Init

\* An operation waits in the queue once, has run when it should have, and is
\* answered after it left the queue.
THEOREM HistoryInvariant == Spec => [](QueueInv /\ HistoryInv)
BY QueueInit, QueueStep, HistoryInit, HistoryStep, PTL DEF Spec

\* The queue implements the serial executor, whatever the threads, the main
\* thread and the client do: operations run one at a time in the order they
\* were added, a cancelled one is skipped or not answered, the worker comes
\* and goes in the executor's three steps.  (The safety of
\* ImplementsSerialExecutor; its fairness is checked by TLC.)
THEOREM QueueRefinesExecutor == Spec => Executor!Spec
<1>1. QueueInv /\ HistoryInv => Known
  BY KnownFacts
<1>2. Known /\ Known' /\ [Next]_vars => [Executor!Next]_(Executor!vars)
  BY StepRefines
<1> QED
  BY <1>1, <1>2, InitRefines, HistoryInvariant, PTL DEF Spec, Executor!Spec
=============================================================================
