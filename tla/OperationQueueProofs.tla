------------------------ MODULE OperationQueueProofs ------------------------
(***************************************************************************)
(* Proofs about OperationQueue, for every set of operations and threads.   *)
(*                                                                         *)
(* SingleWorker and WokenWithOperation are not inductive: that a woken     *)
(* worker has an operation depends on the balance of the semaphore, which  *)
(* depends on where the worker is, on which calls it has posted, and on    *)
(* the delayed check never being due for a queue that is not to quit and   *)
(* has no worker.  QueueInv states those facts.                            *)
(***************************************************************************)
EXTENDS OperationQueue, FiniteSetTheorems, TLAPS

\* The worker waits for the calls it posts, the delayed check excepted.
Blocking == {"beforeMain", "callbackOnMainThread", "stoppedOnMainThread"}

\* Where a worker has taken a token of mOperationSem it has not used up:
\* by removing the operation, or by clearing mQuitting or mStarted.
Holding == {"peek", "before", "waitBefore", "main", "running", "remove",
            "stopping", "waitStopped"}
Serving == {"before", "waitBefore", "main", "running", "remove"}
Answering == {"callback", "waitCallback", "check"}

OpInv == \A t \in Threads :
  /\ pc[t] \in Serving => mOperations # <<>> /\ op[t] = Head(mOperations)
  /\ pc[t] \in Answering => op[t] \in Operations

CallInv ==
  /\ \A i \in DOMAIN mainQueue :
       LET call == mainQueue[i].call
           at == pc[mainQueue[i].thread]
       IN  /\ call = "beforeMain" => at = "waitBefore"
           /\ call = "callbackOnMainThread" => at = "waitCallback"
           /\ call = "stoppedOnMainThread" => at = "waitStopped"
  /\ \A i, j \in DOMAIN mainQueue :
       mainQueue[i].call \in Blocking /\ mainQueue[j].call \in Blocking
         => i = j

StopInv ==
  /\ \A t \in Threads : pc[t] \in {"stopping", "waitStopped"} => mQuitting
  /\ checkTimers = N(pendingCheckRunning)
  /\ ~mStarted /\ ~mQuitting => checkTimers = 0 /\ mainQueue = <<>>

\* One token per queued operation and one for the request to quit.
TokenInv ==
  mOperationSem + N(\E t \in Threads : pc[t] \in Holding)
    = Len(mOperations) + N(mStarted /\ mQuitting)

QueueInv ==
  /\ TypeOK
  /\ SingleWorker
  /\ OpInv
  /\ CallInv
  /\ StopInv
  /\ TokenInv

-----------------------------------------------------------------------------
\* What Append does, and what taking the head leaves.
LEMMA AppendFacts ==
  ASSUME NEW S, NEW s \in Seq(S), NEW x \in S
  PROVE  /\ Append(s, x) \in Seq(S)
         /\ Len(Append(s, x)) = Len(s) + 1
         /\ DOMAIN Append(s, x) = 1 .. Len(s) + 1
         /\ \A i \in 1 .. Len(s) : Append(s, x)[i] = s[i]
         /\ Append(s, x)[Len(s) + 1] = x
         /\ s # <<>> => Head(Append(s, x)) = Head(s)
  OBVIOUS

LEMMA ElementFacts ==
  ASSUME NEW S, NEW s \in Seq(S)
  PROVE  /\ Len(s) \in Nat
         /\ DOMAIN s = 1 .. Len(s)
         /\ \A i \in DOMAIN s : s[i] \in S
  OBVIOUS

LEMMA TailFacts ==
  ASSUME NEW S, NEW s \in Seq(S), s # <<>>
  PROVE  /\ Tail(s) \in Seq(S)
         /\ Head(s) \in S
         /\ Len(Tail(s)) = Len(s) - 1
         /\ DOMAIN Tail(s) = 1 .. Len(s) - 1
         /\ \A i \in 1 .. Len(s) - 1 : Tail(s)[i] = s[i + 1]
         /\ Head(s) = s[1]
         /\ Len(s) >= 1
  OBVIOUS

\* Posting adds one call behind those waiting.
LEMMA PostFacts ==
  ASSUME NEW call \in Calls, NEW t \in Threads, Post(call, t),
         mainQueue \in Seq([call : Calls, thread : Threads])
  PROVE  /\ mainQueue' \in Seq([call : Calls, thread : Threads])
         /\ DOMAIN mainQueue' = 1 .. Len(mainQueue) + 1
         /\ DOMAIN mainQueue = 1 .. Len(mainQueue)
         /\ \A i \in 1 .. Len(mainQueue) : mainQueue'[i] = mainQueue[i]
         /\ mainQueue'[Len(mainQueue) + 1].call = call
         /\ mainQueue'[Len(mainQueue) + 1].thread = t
<1>1. [call |-> call, thread |-> t] \in [call : Calls, thread : Threads]
  OBVIOUS
<1> QED
  BY <1>1, AppendFacts DEF Post

\* Dispatching takes the oldest call and keeps the others in their order.
LEMMA DispatchFacts ==
  ASSUME NEW call \in Calls, NEW t \in Threads, Dispatch(call, t),
         mainQueue \in Seq([call : Calls, thread : Threads])
  PROVE  /\ mainQueue' \in Seq([call : Calls, thread : Threads])
         /\ 1 \in DOMAIN mainQueue
         /\ mainQueue[1].call = call
         /\ mainQueue[1].thread = t
         /\ \A i \in DOMAIN mainQueue' :
              /\ i + 1 \in DOMAIN mainQueue
              /\ mainQueue'[i] = mainQueue[i + 1]
              /\ i \in Nat \ {0}
<1>1. mainQueue # <<>> /\ mainQueue' = Tail(mainQueue)
  BY DEF Dispatch
<1>2. Head(mainQueue) = mainQueue[1] /\ Len(mainQueue) >= 1
  BY <1>1, TailFacts
<1>3. mainQueue[1] = [call |-> call, thread |-> t]
  BY <1>2 DEF Dispatch
<1> QED
  BY <1>1, <1>2, <1>3, TailFacts

\* Every action keeps the variables in their types.
LEMMA TypeStep ==
  ASSUME QueueInv, Next
  PROVE  TypeOK'
<1>0. TypeOK /\ OpInv /\ CallInv /\ StopInv
  BY DEF QueueInv
<1>1. ASSUME NEW o \in Operations, AddOperation(o)
      PROVE  TypeOK'
  <2>1. mOperations' \in Seq(Operations)
    BY <1>0, <1>1 DEF AddOperation, TypeOK
  <2>2. mOperationSem' \in Nat
    BY <1>0, <1>1 DEF AddOperation, TypeOK
  <2>3. added' \in Seq(Operations)
    BY <1>0, <1>1 DEF AddOperation, TypeOK
  <2>4. mStarted' \in BOOLEAN
    BY <1>0, <1>1 DEF AddOperation, StartThread, TypeOK
  <2>5. mQuitting' \in BOOLEAN
    BY <1>0, <1>1 DEF AddOperation, StartThread, TypeOK
  <2>6. mCounter' \in Int
    BY <1>0, <1>1 DEF AddOperation, StartThread, TypeOK
  <2>7. pc' \in [Threads -> PCs]
    BY <1>0, <1>1 DEF AddOperation, StartThread, TypeOK, GoTo, PCs
  <2>8. UNCHANGED <<mStopSem, pendingCheckRunning, checkTimers, owned,
                    mainQueue, op, needsCheckRunning, mCancelled, ran, called>>
    BY <1>1 DEF AddOperation, checkVars, clientVars, outcomeVars, queueVars,
        threadVars
  <2>9. QED
    BY <1>0, <2>1, <2>2, <2>3, <2>4, <2>5, <2>6, <2>7, <2>8 DEF TypeOK
<1>2. ASSUME NEW o \in Operations, Cancel(o)
      PROVE  TypeOK'
  BY <1>0, <1>2 DEF Cancel, TypeOK, queueVars, checkVars, threadVars,
     clientVars, outcomeVars
<1>3. ASSUME CancelAllOperations
      PROVE  TypeOK'
  <2>1. mCancelled' \in [Operations -> BOOLEAN]
    BY <1>0, <1>3 DEF CancelAllOperations, TypeOK
  <2>2. UNCHANGED <<mOperations, mOperationSem, mStarted, mStopSem, mQuitting,
                    pendingCheckRunning, checkTimers, mCounter, owned,
                    mainQueue, pc, op, needsCheckRunning, added, ran, called>>
    BY <1>3 DEF CancelAllOperations, checkVars, clientVars, outcomeVars,
        queueVars, threadVars
  <2>3. QED
    BY <1>0, <2>1, <2>2 DEF TypeOK
<1>4. ASSUME ReleaseQueue
      PROVE  TypeOK'
  <2>1. owned' \in BOOLEAN
    BY <1>0, <1>4 DEF ReleaseQueue, TypeOK
  <2>2. mCounter' \in Int
    BY <1>0, <1>4 DEF ReleaseQueue, TypeOK
  <2>3. UNCHANGED <<mOperations, mOperationSem, mStarted, mStopSem, mQuitting,
                    pendingCheckRunning, checkTimers, mainQueue, pc, op,
                    needsCheckRunning, mCancelled, added, ran, called>>
    BY <1>4 DEF ReleaseQueue, checkVars, clientVars, outcomeVars, queueVars,
        threadVars
  <2>4. QED
    BY <1>0, <2>1, <2>2, <2>3 DEF TypeOK
<1>5. ASSUME NEW t \in Threads, BeforeMain(t)
      PROVE  TypeOK'
  BY <1>0, <1>5 DEF BeforeMain, TypeOK, Dispatch, GoTo, PCs, queueVars,
     checkVars, threadVars, clientVars, outcomeVars
<1>6. ASSUME NEW t \in Threads, CallbackOnMainThread(t)
      PROVE  TypeOK'
  BY SMTT(30), <1>0, <1>6 DEF CallbackOnMainThread, TypeOK, Dispatch, GoTo,
     PCs, OpInv, CallInv, Answering, queueVars, checkVars, threadVars,
     clientVars,
     outcomeVars
<1>7. ASSUME NEW t \in Threads, CheckRunningOnMainThread(t)
      PROVE  TypeOK'
  BY <1>0, <1>7 DEF CheckRunningOnMainThread, TypeOK, Dispatch, StopInv, N,
     queueVars, checkVars, threadVars, clientVars, outcomeVars
<1>8. ASSUME NEW t \in Threads, StoppedOnMainThread(t)
      PROVE  TypeOK'
  <2>1. mainQueue' \in Seq([call : Calls, thread : Threads])
    BY <1>0, <1>8 DEF StoppedOnMainThread, TypeOK, Dispatch
  <2>2. mStopSem' \in Nat
    BY <1>0, <1>8 DEF StoppedOnMainThread, TypeOK
  <2>3. mStarted' \in BOOLEAN
    BY <1>0, <1>8 DEF StoppedOnMainThread, StartThread, TypeOK
  <2>4. mQuitting' \in BOOLEAN
    BY <1>0, <1>8 DEF StoppedOnMainThread, StartThread, TypeOK
  <2>5. mCounter' \in Int
    BY <1>0, <1>8 DEF StoppedOnMainThread, StartThread, TypeOK
  <2>6. pc' \in [Threads -> PCs]
    BY <1>0, <1>8 DEF StoppedOnMainThread, StartThread, TypeOK, GoTo, PCs
  <2>7. UNCHANGED <<mOperations, mOperationSem, pendingCheckRunning,
                    checkTimers, owned, op, needsCheckRunning, mCancelled,
                    added, ran, called>>
    BY <1>8 DEF StoppedOnMainThread, checkVars, clientVars, outcomeVars,
        queueVars, threadVars
  <2>8. QED
    BY <1>0, <2>1, <2>2, <2>3, <2>4, <2>5, <2>6, <2>7 DEF TypeOK
<1>9. ASSUME NEW t \in Threads, DownOperationSem(t)
      PROVE  TypeOK'
  BY <1>0, <1>9 DEF DownOperationSem, TypeOK, GoTo, PCs, queueVars, checkVars,
     threadVars, clientVars, outcomeVars
<1>10. ASSUME NEW t \in Threads, PeekOperation(t)
      PROVE  TypeOK'
  BY <1>0, <1>10 DEF PeekOperation, TypeOK, GoTo, PCs, queueVars, checkVars,
     threadVars, clientVars, outcomeVars
<1>11. ASSUME NEW t \in Threads, StopRunning(t)
      PROVE  TypeOK'
  BY <1>0, <1>11 DEF StopRunning, TypeOK, Post, Calls, GoTo, PCs, queueVars,
     checkVars, threadVars, clientVars, outcomeVars
<1>12. ASSUME NEW t \in Threads, PostBeforeMain(t)
      PROVE  TypeOK'
  BY <1>0, <1>12 DEF PostBeforeMain, TypeOK, Post, Calls, GoTo, PCs,
     queueVars, checkVars, threadVars, clientVars, outcomeVars
<1>13. ASSUME NEW t \in Threads, EnterMain(t)
      PROVE  TypeOK'
  <2>1. ran' \in Seq(Operations)
    <3>1. mOperations \in Seq(Operations) /\ mOperations # <<>>
      BY <1>0, <1>13 DEF EnterMain, TypeOK, OpInv, Serving
    <3>2. op[t] \in Operations
      BY <1>0, <1>13, <3>1, TailFacts DEF EnterMain, OpInv, Serving
    <3>3. ran \in Seq(Operations)
      BY <1>0 DEF TypeOK
    <3> QED
      BY <1>13, <3>2, <3>3 DEF EnterMain
  <2>2. pc' \in [Threads -> PCs]
    BY <1>0, <1>13 DEF EnterMain, TypeOK, GoTo, PCs
  <2>3. UNCHANGED <<mOperations, mOperationSem, mStarted, mStopSem, mQuitting,
                    pendingCheckRunning, checkTimers, mCounter, owned,
                    mainQueue, op, needsCheckRunning, mCancelled, added,
                    called>>
    BY <1>13 DEF EnterMain, checkVars, clientVars, outcomeVars, queueVars,
        threadVars
  <2>4. QED
    BY <1>0, <2>1, <2>2, <2>3 DEF TypeOK
<1>14. ASSUME NEW t \in Threads, LeaveMain(t)
      PROVE  TypeOK'
  BY <1>0, <1>14 DEF LeaveMain, TypeOK, GoTo, PCs, queueVars, checkVars,
     threadVars, clientVars, outcomeVars
<1>15. ASSUME NEW t \in Threads, RemoveOperation(t)
      PROVE  TypeOK'
  <2>1. mOperations' \in Seq(Operations)
    <3>1. mOperations \in Seq(Operations) /\ mOperations # <<>>
      BY <1>0, <1>15 DEF RemoveOperation, TypeOK, OpInv, Serving
    <3> QED
      BY <1>15, <3>1, TailFacts DEF RemoveOperation
  <2>2. needsCheckRunning' \in [Threads -> BOOLEAN]
    BY <1>0, <1>15 DEF RemoveOperation, TypeOK
  <2>3. pc' \in [Threads -> PCs]
    BY <1>0, <1>15 DEF RemoveOperation, TypeOK, GoTo, PCs
  <2>4. UNCHANGED <<mOperationSem, mStarted, mStopSem, mQuitting,
                    pendingCheckRunning, checkTimers, mCounter, owned,
                    mainQueue, op, mCancelled, added, ran, called>>
    BY <1>15 DEF RemoveOperation, checkVars, clientVars, outcomeVars,
        queueVars, threadVars
  <2>5. QED
    BY <1>0, <2>1, <2>2, <2>3, <2>4 DEF TypeOK
<1>16. ASSUME NEW t \in Threads, PostCallback(t)
      PROVE  TypeOK'
  <2>1. mainQueue' \in Seq([call : Calls, thread : Threads])
    <3>1. mainQueue \in Seq([call : Calls, thread : Threads])
      BY <1>0 DEF TypeOK
    <3>2. UNCHANGED mainQueue \/ Post("callbackOnMainThread", t)
      BY <1>16 DEF PostCallback
    <3> QED
      BY <3>1, <3>2, PostFacts DEF Calls
  <2>2. pc' \in [Threads -> PCs]
    BY <1>0, <1>16 DEF PostCallback, TypeOK, GoTo, PCs
  <2>3. UNCHANGED <<mOperations, mOperationSem, mStarted, mStopSem, mQuitting,
                    pendingCheckRunning, checkTimers, mCounter, owned, op,
                    needsCheckRunning, mCancelled, added, ran, called>>
    BY <1>16 DEF PostCallback, checkVars, clientVars, outcomeVars, queueVars,
        threadVars
  <2>4. QED
    BY <1>0, <2>1, <2>2, <2>3 DEF TypeOK
<1>17. ASSUME NEW t \in Threads, PostCheckRunning(t)
      PROVE  TypeOK'
  <2>1. mCounter' \in Int
    BY <1>0, <1>17 DEF PostCheckRunning, TypeOK
  <2>2. mainQueue' \in Seq([call : Calls, thread : Threads])
    <3>1. mainQueue \in Seq([call : Calls, thread : Threads])
      BY <1>0 DEF TypeOK
    <3>2. UNCHANGED mainQueue \/ Post("checkRunningOnMainThread", t)
      BY <1>17 DEF PostCheckRunning
    <3> QED
      BY <3>1, <3>2, PostFacts DEF Calls
  <2>3. op' \in [Threads -> Operations \cup {NULL}]
    BY <1>0, <1>17 DEF PostCheckRunning, TypeOK
  <2>4. needsCheckRunning' \in [Threads -> BOOLEAN]
    BY <1>0, <1>17 DEF PostCheckRunning, TypeOK
  <2>5. pc' \in [Threads -> PCs]
    BY <1>0, <1>17 DEF PostCheckRunning, TypeOK, GoTo, PCs
  <2>6. UNCHANGED <<mOperations, mOperationSem, mStarted, mStopSem, mQuitting,
                    pendingCheckRunning, checkTimers, owned, mCancelled,
                    added, ran, called>>
    BY <1>17 DEF PostCheckRunning, checkVars, clientVars, outcomeVars,
        queueVars
  <2>7. QED
    BY <1>0, <2>1, <2>2, <2>3, <2>4, <2>5, <2>6 DEF TypeOK
<1>18. ASSUME CheckRunningAfterDelay
      PROVE  TypeOK'
  <2>1. checkTimers' \in Nat
    BY <1>0, <1>18 DEF CheckRunningAfterDelay, TypeOK
  <2>2. pendingCheckRunning' \in BOOLEAN
    BY <1>0, <1>18 DEF CheckRunningAfterDelay, TypeOK
  <2>3. mCounter' \in Int
    BY <1>0, <1>18 DEF CheckRunningAfterDelay, TypeOK
  <2>4. mOperationSem' \in Nat
    BY <1>0, <1>18 DEF CheckRunningAfterDelay, TypeOK
  <2>5. mQuitting' \in BOOLEAN
    BY <1>0, <1>18 DEF CheckRunningAfterDelay, TypeOK
  <2>6. UNCHANGED <<mOperations, mStarted, mStopSem, owned, mainQueue, pc, op,
                    needsCheckRunning, mCancelled, added, ran, called>>
    BY <1>18 DEF CheckRunningAfterDelay, clientVars, outcomeVars, queueVars,
        threadVars
  <2>7. QED
    BY <1>0, <2>1, <2>2, <2>3, <2>4, <2>5, <2>6 DEF TypeOK
<1> QED
  BY <1>1, <1>2, <1>3, <1>4, <1>5, <1>6, <1>7, <1>8, <1>9,
     <1>10, <1>11, <1>12, <1>13, <1>14, <1>15, <1>16, <1>17, <1>18
     DEF Next, Client, MainThread, Worker

LEMMA CallTypes ==
  ASSUME TypeOK
  PROVE  /\ mainQueue \in Seq([call : Calls, thread : Threads])
         /\ Len(mainQueue) \in Nat
         /\ DOMAIN mainQueue = 1 .. Len(mainQueue)
         /\ \A i \in DOMAIN mainQueue : mainQueue[i].thread \in Threads
<1>1. mainQueue \in Seq([call : Calls, thread : Threads])
  BY DEF TypeOK
<1>2. \A i \in DOMAIN mainQueue :
        mainQueue[i] \in [call : Calls, thread : Threads]
  BY <1>1, ElementFacts
<1> QED
  BY <1>1, <1>2, ElementFacts

\* Where a worker is when a call it waits for reaches the main thread.
LEMMA DispatchWaits ==
  ASSUME QueueInv, NEW t \in Threads
  PROVE  /\ Dispatch("beforeMain", t) => pc[t] = "waitBefore"
         /\ Dispatch("callbackOnMainThread", t) => pc[t] = "waitCallback"
         /\ Dispatch("stoppedOnMainThread", t) => pc[t] = "waitStopped"
<1>1. mainQueue \in Seq([call : Calls, thread : Threads]) /\ CallInv
  BY DEF QueueInv, TypeOK
<1>2. ASSUME NEW call \in Calls, Dispatch(call, t)
      PROVE  /\ 1 \in DOMAIN mainQueue
             /\ mainQueue[1].call = call
             /\ mainQueue[1].thread = t
  BY <1>1, <1>2, DispatchFacts
<1> QED
  BY <1>1, <1>2 DEF CallInv, Calls

\* Only a queue without a worker starts one, and only the worker stops.
LEMMA WorkerStep ==
  ASSUME QueueInv, Next
  PROVE  SingleWorker'
<1>0. pc \in [Threads -> PCs] /\ mStarted \in BOOLEAN /\ SingleWorker
  BY DEF QueueInv, TypeOK
<1>1. ASSUME NEW o \in Operations, AddOperation(o)
      PROVE  SingleWorker'
  BY <1>0, <1>1 DEF AddOperation, StartThread, SingleWorker, Live, GoTo,
     checkVars, clientVars, outcomeVars, queueVars, threadVars
<1>2. ASSUME NEW o \in Operations, Cancel(o)
      PROVE  SingleWorker'
  BY <1>0, <1>2 DEF Cancel, SingleWorker, Live, GoTo, checkVars, clientVars,
     outcomeVars, queueVars, threadVars
<1>3. ASSUME CancelAllOperations
      PROVE  SingleWorker'
  BY <1>0, <1>3 DEF CancelAllOperations, SingleWorker, Live, GoTo, checkVars,
     clientVars, outcomeVars, queueVars, threadVars
<1>4. ASSUME ReleaseQueue
      PROVE  SingleWorker'
  BY <1>0, <1>4 DEF ReleaseQueue, SingleWorker, Live, GoTo, checkVars,
     clientVars, outcomeVars, queueVars, threadVars
<1>5. ASSUME NEW t \in Threads, BeforeMain(t)
      PROVE  SingleWorker'
  BY <1>0, <1>5, DispatchWaits DEF BeforeMain, SingleWorker, Live, GoTo,
     checkVars, clientVars, outcomeVars, queueVars, threadVars
<1>6. ASSUME NEW t \in Threads, CallbackOnMainThread(t)
      PROVE  SingleWorker'
  BY <1>0, <1>6, DispatchWaits DEF CallbackOnMainThread, SingleWorker, Live,
     GoTo, checkVars, clientVars, outcomeVars, queueVars, threadVars
<1>7. ASSUME NEW t \in Threads, CheckRunningOnMainThread(t)
      PROVE  SingleWorker'
  BY <1>0, <1>7 DEF CheckRunningOnMainThread, SingleWorker, Live, GoTo,
     clientVars, outcomeVars, queueVars, threadVars
<1>8. ASSUME NEW t \in Threads, StoppedOnMainThread(t)
      PROVE  SingleWorker'
  <2>1. pc[t] = "waitStopped" /\ \A u \in Threads : Live(u) => u = t
    BY <1>0, <1>8, DispatchWaits DEF StoppedOnMainThread, SingleWorker, Live
  <2>2. CASE mOperations = <<>>
    <3>1. mStarted' = FALSE /\ pc' = [pc EXCEPT ![t] = "dead"]
      BY <1>8, <2>2 DEF StoppedOnMainThread, GoTo
    <3> QED
      BY <1>0, <2>1, <3>1 DEF SingleWorker, Live
  <2>3. CASE mOperations # <<>>
    <3>1. PICK u \in Threads :
            pc' = [[pc EXCEPT ![t] = "dead"] EXCEPT ![u] = "down"]
      BY <1>8, <2>3 DEF StoppedOnMainThread, StartThread
    <3>2. mStarted' = TRUE
      BY <1>8, <2>3 DEF StoppedOnMainThread, StartThread
    <3> QED
      BY <1>0, <2>1, <3>1, <3>2 DEF SingleWorker, Live
  <2> QED
    BY <2>2, <2>3
<1>9. ASSUME NEW t \in Threads, DownOperationSem(t)
      PROVE  SingleWorker'
  BY <1>0, <1>9 DEF DownOperationSem, SingleWorker, Live, GoTo, checkVars,
     clientVars, outcomeVars, queueVars, threadVars
<1>10. ASSUME NEW t \in Threads, PeekOperation(t)
      PROVE  SingleWorker'
  BY <1>0, <1>10 DEF PeekOperation, SingleWorker, Live, GoTo, checkVars,
     clientVars, outcomeVars, queueVars, threadVars
<1>11. ASSUME NEW t \in Threads, StopRunning(t)
      PROVE  SingleWorker'
  BY <1>0, <1>11 DEF StopRunning, SingleWorker, Live, GoTo, checkVars,
     clientVars, outcomeVars, queueVars, threadVars
<1>12. ASSUME NEW t \in Threads, PostBeforeMain(t)
      PROVE  SingleWorker'
  BY <1>0, <1>12 DEF PostBeforeMain, SingleWorker, Live, GoTo, checkVars,
     clientVars, outcomeVars, queueVars, threadVars
<1>13. ASSUME NEW t \in Threads, EnterMain(t)
      PROVE  SingleWorker'
  BY <1>0, <1>13 DEF EnterMain, SingleWorker, Live, GoTo, checkVars,
     clientVars, outcomeVars, queueVars, threadVars
<1>14. ASSUME NEW t \in Threads, LeaveMain(t)
      PROVE  SingleWorker'
  BY <1>0, <1>14 DEF LeaveMain, SingleWorker, Live, GoTo, checkVars,
     clientVars, outcomeVars, queueVars, threadVars
<1>15. ASSUME NEW t \in Threads, RemoveOperation(t)
      PROVE  SingleWorker'
  BY <1>0, <1>15 DEF RemoveOperation, SingleWorker, Live, GoTo, checkVars,
     clientVars, outcomeVars, queueVars, threadVars
<1>16. ASSUME NEW t \in Threads, PostCallback(t)
      PROVE  SingleWorker'
  BY <1>0, <1>16 DEF PostCallback, SingleWorker, Live, GoTo, checkVars,
     clientVars, outcomeVars, queueVars, threadVars
<1>17. ASSUME NEW t \in Threads, PostCheckRunning(t)
      PROVE  SingleWorker'
  BY <1>0, <1>17 DEF PostCheckRunning, SingleWorker, Live, GoTo, checkVars,
     clientVars, outcomeVars, queueVars
<1>18. ASSUME CheckRunningAfterDelay
      PROVE  SingleWorker'
  BY <1>0, <1>18 DEF CheckRunningAfterDelay, SingleWorker, Live, GoTo,
     clientVars, outcomeVars, queueVars, threadVars
<1> QED
  BY <1>1, <1>2, <1>3, <1>4, <1>5, <1>6, <1>7, <1>8, <1>9,
     <1>10, <1>11, <1>12, <1>13, <1>14, <1>15, <1>16, <1>17, <1>18
     DEF Next, Client, MainThread, Worker

\* The operation a worker serves stays at the head until the worker removes it.
LEMMA OperationStep ==
  ASSUME QueueInv, Next
  PROVE  OpInv'
<1>0. TypeOK /\ SingleWorker /\ OpInv
  BY DEF QueueInv
<1>1. ASSUME NEW o \in Operations, AddOperation(o)
      PROVE  OpInv'
  <2>1. /\ mOperations' = Append(mOperations, o)
        /\ op' = op
        /\ \A t \in Threads : pc'[t] = pc[t] \/ pc'[t] = "down"
    BY <1>0, <1>1 DEF AddOperation, StartThread, TypeOK
  <2>2. mOperations' # <<>>
        /\ (mOperations # <<>> => Head(mOperations') = Head(mOperations))
    BY <1>0, <2>1, AppendFacts DEF TypeOK
  <2> QED
    BY <1>0, <2>1, <2>2 DEF OpInv, Serving, Answering
<1>2. ASSUME NEW o \in Operations, Cancel(o)
      PROVE  OpInv'
  BY <1>0, <1>2 DEF Cancel, OpInv, Serving, Answering, GoTo, TypeOK,
     checkVars, clientVars, outcomeVars, queueVars, threadVars
<1>3. ASSUME CancelAllOperations
      PROVE  OpInv'
  BY <1>0, <1>3 DEF CancelAllOperations, OpInv, Serving, Answering, GoTo,
     TypeOK, checkVars, clientVars, outcomeVars, queueVars, threadVars
<1>4. ASSUME ReleaseQueue
      PROVE  OpInv'
  BY <1>0, <1>4 DEF ReleaseQueue, OpInv, Serving, Answering, GoTo, TypeOK,
     checkVars, clientVars, outcomeVars, queueVars, threadVars
<1>5. ASSUME NEW t \in Threads, BeforeMain(t)
      PROVE  OpInv'
  BY <1>0, <1>5, DispatchWaits DEF BeforeMain, OpInv, Serving, Answering,
     GoTo, TypeOK, checkVars, clientVars, outcomeVars, queueVars, threadVars
<1>6. ASSUME NEW t \in Threads, CallbackOnMainThread(t)
      PROVE  OpInv'
  BY <1>0, <1>6, DispatchWaits DEF CallbackOnMainThread, OpInv, Serving,
     Answering, GoTo, TypeOK, checkVars, clientVars, outcomeVars, queueVars,
     threadVars
<1>7. ASSUME NEW t \in Threads, CheckRunningOnMainThread(t)
      PROVE  OpInv'
  BY <1>0, <1>7 DEF CheckRunningOnMainThread, OpInv, Serving, Answering, GoTo,
     TypeOK, clientVars, outcomeVars, queueVars, threadVars
<1>8. ASSUME NEW t \in Threads, StoppedOnMainThread(t)
      PROVE  OpInv'
  BY <1>0, <1>8, DispatchWaits DEF StoppedOnMainThread, StartThread, OpInv,
     Serving, Answering, GoTo, TypeOK, checkVars, clientVars, outcomeVars,
     queueVars, threadVars
<1>9. ASSUME NEW t \in Threads, DownOperationSem(t)
      PROVE  OpInv'
  BY <1>0, <1>9 DEF DownOperationSem, OpInv, Serving, Answering, GoTo, TypeOK,
     checkVars, clientVars, outcomeVars, queueVars, threadVars
<1>10. ASSUME NEW t \in Threads, PeekOperation(t)
      PROVE  OpInv'
  <2>1. mOperations = <<>> => mQuitting
    <3>1. TokenInv /\ mOperationSem \in Nat /\ pc[t] \in Holding
      BY <1>10 DEF QueueInv, TypeOK, PeekOperation, Holding
    <3>2. mOperations = <<>> => Len(mOperations) = 0
      OBVIOUS
    <3> QED
      BY <3>1, <3>2 DEF TokenInv, N
  <2>2. CASE mOperations = <<>>
    BY <1>0, <1>10, <2>1, <2>2
       DEF PeekOperation, OpInv, Serving, Answering, GoTo, TypeOK, queueVars
  <2>3. CASE mOperations # <<>>
    BY <1>0, <1>10, <2>3
       DEF PeekOperation, OpInv, Serving, Answering, GoTo, TypeOK, queueVars
  <2> QED
    BY <2>2, <2>3
<1>11. ASSUME NEW t \in Threads, StopRunning(t)
      PROVE  OpInv'
  BY <1>0, <1>11 DEF StopRunning, OpInv, Serving, Answering, GoTo, TypeOK,
     checkVars, clientVars, outcomeVars, queueVars, threadVars
<1>12. ASSUME NEW t \in Threads, PostBeforeMain(t)
      PROVE  OpInv'
  BY <1>0, <1>12 DEF PostBeforeMain, OpInv, Serving, Answering, GoTo, TypeOK,
     checkVars, clientVars, outcomeVars, queueVars, threadVars
<1>13. ASSUME NEW t \in Threads, EnterMain(t)
      PROVE  OpInv'
  BY <1>0, <1>13 DEF EnterMain, OpInv, Serving, Answering, GoTo, TypeOK,
     checkVars, clientVars, outcomeVars, queueVars, threadVars
<1>14. ASSUME NEW t \in Threads, LeaveMain(t)
      PROVE  OpInv'
  BY <1>0, <1>14 DEF LeaveMain, OpInv, Serving, Answering, GoTo, TypeOK,
     checkVars, clientVars, outcomeVars, queueVars, threadVars
<1>15. ASSUME NEW t \in Threads, RemoveOperation(t)
      PROVE  OpInv'
  BY SMTT(30), <1>0, <1>15 DEF RemoveOperation, OpInv, Serving, Answering,
     GoTo, TypeOK, SingleWorker, Live, checkVars, clientVars, outcomeVars,
     queueVars,
     threadVars
<1>16. ASSUME NEW t \in Threads, PostCallback(t)
      PROVE  OpInv'
  BY <1>0, <1>16 DEF PostCallback, OpInv, Serving, Answering, GoTo, TypeOK,
     checkVars, clientVars, outcomeVars, queueVars, threadVars
<1>17. ASSUME NEW t \in Threads, PostCheckRunning(t)
      PROVE  OpInv'
  BY <1>0, <1>17 DEF PostCheckRunning, OpInv, Serving, Answering, GoTo,
     TypeOK, checkVars, clientVars, outcomeVars, queueVars
<1>18. ASSUME CheckRunningAfterDelay
      PROVE  OpInv'
  BY <1>0, <1>18 DEF CheckRunningAfterDelay, OpInv, Serving, Answering, GoTo,
     TypeOK, clientVars, outcomeVars, queueVars, threadVars
<1> QED
  BY <1>1, <1>2, <1>3, <1>4, <1>5, <1>6, <1>7, <1>8, <1>9,
     <1>10, <1>11, <1>12, <1>13, <1>14, <1>15, <1>16, <1>17, <1>18
     DEF Next, Client, MainThread, Worker

\* A worker that posts a call it waits for is the only one, and has no other.
LEMMA PostKeepsCalls ==
  ASSUME QueueInv, NEW t \in Threads, NEW call \in Calls, Post(call, t),
         pc[t] \in {"stopping", "before", "callback", "check"},
         NEW label, pc' = [pc EXCEPT ![t] = label],
         call = "beforeMain" => label = "waitBefore",
         call = "callbackOnMainThread" => label = "waitCallback",
         call = "stoppedOnMainThread" => label = "waitStopped"
  PROVE  CallInv'
<1>0. TypeOK /\ SingleWorker /\ CallInv
  BY DEF QueueInv
<1>1. /\ DOMAIN mainQueue' = 1 .. Len(mainQueue) + 1
      /\ DOMAIN mainQueue = 1 .. Len(mainQueue)
      /\ Len(mainQueue) \in Nat
      /\ \A i \in 1 .. Len(mainQueue) : mainQueue'[i] = mainQueue[i]
      /\ mainQueue'[Len(mainQueue) + 1].call = call
      /\ mainQueue'[Len(mainQueue) + 1].thread = t
  BY <1>0, CallTypes, PostFacts
<1>2. \A i \in DOMAIN mainQueue : mainQueue[i].call \notin Blocking
  <2> SUFFICES ASSUME NEW i \in DOMAIN mainQueue,
                      mainQueue[i].call \in Blocking
               PROVE  FALSE
    OBVIOUS
  <2>1. mainQueue[i].thread \in Threads
    BY <1>0, CallTypes
  <2>2. pc[mainQueue[i].thread] \in {"waitBefore", "waitCallback", "waitStopped"}
    BY <1>0 DEF CallInv, Blocking
  <2> QED
    BY <1>0, <2>1, <2>2 DEF SingleWorker, Live
<1>3. \A i \in 1 .. Len(mainQueue) + 1 :
        i = Len(mainQueue) + 1 \/ i \in 1 .. Len(mainQueue)
  BY <1>1
<1>4. pc'[t] = label
  BY <1>0 DEF TypeOK
<1>5. \A i \in DOMAIN mainQueue' :
        mainQueue'[i].call \in Blocking => i = Len(mainQueue) + 1
  BY <1>1, <1>2, <1>3
<1> QED
  BY <1>1, <1>4, <1>5 DEF CallInv, Blocking

\* Once a call is dispatched that a worker waited for, none is left.
LEMMA DispatchKeepsCalls ==
  ASSUME QueueInv, NEW t \in Threads, NEW call \in Calls, Dispatch(call, t),
         call \in Blocking \/ UNCHANGED pc
  PROVE  CallInv'
<1>0. TypeOK /\ CallInv
  BY DEF QueueInv
<1>1. /\ 1 \in DOMAIN mainQueue
      /\ mainQueue[1].call = call
      /\ \A i \in DOMAIN mainQueue' :
           /\ i + 1 \in DOMAIN mainQueue
           /\ mainQueue'[i] = mainQueue[i + 1]
           /\ i \in Nat \ {0}
  BY <1>0, DispatchFacts DEF TypeOK
<1>2. CASE call \in Blocking
  <2>1. \A i \in DOMAIN mainQueue' : mainQueue'[i].call \notin Blocking
    BY <1>0, <1>1, <1>2 DEF CallInv
  <2> QED
    BY <2>1 DEF CallInv, Blocking
<1>3. CASE UNCHANGED pc
  <2>1. \A i, j \in DOMAIN mainQueue' : i + 1 = j + 1 => i = j
    BY <1>1
  <2> QED
    BY <1>0, <1>1, <1>3, <2>1 DEF CallInv
<1> QED
  BY <1>2, <1>3

\* While the queue of calls is not touched, a worker that waits for a call
\* stays where it waits.
LEMMA OthersKeepCalls ==
  ASSUME QueueInv, UNCHANGED mainQueue,
         \A t \in Threads :
           pc[t] \in {"waitBefore", "waitCallback", "waitStopped"}
             => pc'[t] = pc[t]
  PROVE  CallInv'
<1>1. CallInv /\ \A i \in DOMAIN mainQueue : mainQueue[i].thread \in Threads
  BY CallTypes DEF QueueInv
<1> QED
  BY <1>1 DEF CallInv

\* At most one call is waited for, and by the worker that posted it.
LEMMA CallStep ==
  ASSUME QueueInv, Next
  PROVE  CallInv'
<1>0. TypeOK /\ SingleWorker /\ CallInv
  BY DEF QueueInv
<1>1. ASSUME NEW o \in Operations, AddOperation(o)
      PROVE  CallInv'
  BY <1>0, <1>1, OthersKeepCalls DEF AddOperation, StartThread, GoTo, TypeOK,
     SingleWorker, Live, checkVars, clientVars, outcomeVars, queueVars,
     threadVars
<1>2. ASSUME NEW o \in Operations, Cancel(o)
      PROVE  CallInv'
  BY <1>0, <1>2, OthersKeepCalls DEF Cancel, GoTo, TypeOK, checkVars,
     clientVars, outcomeVars, queueVars, threadVars
<1>3. ASSUME CancelAllOperations
      PROVE  CallInv'
  BY <1>0, <1>3, OthersKeepCalls DEF CancelAllOperations, GoTo, TypeOK,
     checkVars, clientVars, outcomeVars, queueVars, threadVars
<1>4. ASSUME ReleaseQueue
      PROVE  CallInv'
  BY <1>0, <1>4, OthersKeepCalls DEF ReleaseQueue, GoTo, TypeOK, checkVars,
     clientVars, outcomeVars, queueVars, threadVars
<1>5. ASSUME NEW t \in Threads, BeforeMain(t)
      PROVE  CallInv'
  BY <1>0, <1>5, DispatchKeepsCalls DEF BeforeMain, GoTo, Calls, Blocking
<1>6. ASSUME NEW t \in Threads, CallbackOnMainThread(t)
      PROVE  CallInv'
  BY <1>0, <1>6, DispatchKeepsCalls DEF CallbackOnMainThread, GoTo, Calls, Blocking
<1>7. ASSUME NEW t \in Threads, CheckRunningOnMainThread(t)
      PROVE  CallInv'
  BY <1>0, <1>7, DispatchKeepsCalls
     DEF CheckRunningOnMainThread, Calls, threadVars
<1>8. ASSUME NEW t \in Threads, StoppedOnMainThread(t)
      PROVE  CallInv'
  BY <1>0, <1>8, DispatchKeepsCalls DEF StoppedOnMainThread, GoTo, Calls, Blocking
<1>9. ASSUME NEW t \in Threads, DownOperationSem(t)
      PROVE  CallInv'
  BY <1>0, <1>9, OthersKeepCalls DEF DownOperationSem, GoTo, TypeOK,
     checkVars, clientVars, outcomeVars, queueVars, threadVars
<1>10. ASSUME NEW t \in Threads, PeekOperation(t)
      PROVE  CallInv'
  BY <1>0, <1>10, OthersKeepCalls DEF PeekOperation, GoTo, TypeOK, checkVars,
     clientVars, outcomeVars, queueVars, threadVars
<1>11. ASSUME NEW t \in Threads, StopRunning(t)
      PROVE  CallInv'
  BY <1>0, <1>11, PostKeepsCalls DEF StopRunning, GoTo, Calls, Blocking
<1>12. ASSUME NEW t \in Threads, PostBeforeMain(t)
      PROVE  CallInv'
  BY <1>0, <1>12, PostKeepsCalls DEF PostBeforeMain, GoTo, Calls, Blocking
<1>13. ASSUME NEW t \in Threads, EnterMain(t)
      PROVE  CallInv'
  BY <1>0, <1>13, OthersKeepCalls DEF EnterMain, GoTo, TypeOK, checkVars,
     clientVars, outcomeVars, queueVars, threadVars
<1>14. ASSUME NEW t \in Threads, LeaveMain(t)
      PROVE  CallInv'
  BY <1>0, <1>14, OthersKeepCalls DEF LeaveMain, GoTo, TypeOK, checkVars,
     clientVars, outcomeVars, queueVars, threadVars
<1>15. ASSUME NEW t \in Threads, RemoveOperation(t)
      PROVE  CallInv'
  BY <1>0, <1>15, OthersKeepCalls DEF RemoveOperation, GoTo, TypeOK,
     checkVars, clientVars, outcomeVars, queueVars, threadVars
<1>16. ASSUME NEW t \in Threads, PostCallback(t)
      PROVE  CallInv'
  <2>1. CASE UNCHANGED mainQueue
    BY <1>0, <1>16, <2>1, OthersKeepCalls DEF PostCallback, GoTo, TypeOK
  <2>2. CASE /\ Post("callbackOnMainThread", t)
             /\ GoTo(t, "waitCallback")
    BY <1>16, <2>2, PostKeepsCalls DEF PostCallback, GoTo, Calls
  <2> QED
    BY <1>16, <2>1, <2>2 DEF PostCallback
<1>17. ASSUME NEW t \in Threads, PostCheckRunning(t)
      PROVE  CallInv'
  <2>1. CASE UNCHANGED mainQueue
    BY <1>0, <1>17, <2>1, OthersKeepCalls DEF PostCheckRunning, GoTo, TypeOK
  <2>2. CASE Post("checkRunningOnMainThread", t)
    BY <1>17, <2>2, PostKeepsCalls DEF PostCheckRunning, GoTo, Calls
  <2> QED
    BY <1>17, <2>1, <2>2 DEF PostCheckRunning
<1>18. ASSUME CheckRunningAfterDelay
      PROVE  CallInv'
  BY <1>0, <1>18, OthersKeepCalls DEF CheckRunningAfterDelay, GoTo, TypeOK,
     clientVars, outcomeVars, queueVars, threadVars
<1> QED
  BY <1>1, <1>2, <1>3, <1>4, <1>5, <1>6, <1>7, <1>8, <1>9,
     <1>10, <1>11, <1>12, <1>13, <1>14, <1>15, <1>16, <1>17, <1>18
     DEF Next, Client, MainThread, Worker

\* The worker stops only when told to, the delayed check is scheduled at most
\* once, and a queue whose worker is gone has been told to quit.
LEMMA StopStep ==
  ASSUME QueueInv, Next
  PROVE  StopInv'
<1>0. TypeOK /\ SingleWorker /\ StopInv
  BY DEF QueueInv
<1>1. ASSUME NEW o \in Operations, AddOperation(o)
      PROVE  StopInv'
  BY <1>0, <1>1 DEF AddOperation, StartThread, StopInv, SingleWorker, Live,
     GoTo, TypeOK, N, checkVars, clientVars, outcomeVars, queueVars,
     threadVars
<1>2. ASSUME NEW o \in Operations, Cancel(o)
      PROVE  StopInv'
  BY <1>0, <1>2 DEF Cancel, StopInv, SingleWorker, Live, GoTo, TypeOK, N,
     checkVars, clientVars, outcomeVars, queueVars, threadVars
<1>3. ASSUME CancelAllOperations
      PROVE  StopInv'
  BY <1>0, <1>3 DEF CancelAllOperations, StopInv, SingleWorker, Live, GoTo,
     TypeOK, N, checkVars, clientVars, outcomeVars, queueVars, threadVars
<1>4. ASSUME ReleaseQueue
      PROVE  StopInv'
  BY <1>0, <1>4 DEF ReleaseQueue, StopInv, SingleWorker, Live, GoTo, TypeOK,
     N, checkVars, clientVars, outcomeVars, queueVars, threadVars
<1>5. ASSUME NEW t \in Threads, BeforeMain(t)
      PROVE  StopInv'
  BY <1>0, <1>5, DispatchWaits DEF BeforeMain, StopInv, SingleWorker, Live,
     GoTo, TypeOK, N, checkVars, clientVars, outcomeVars, queueVars,
     threadVars
<1>6. ASSUME NEW t \in Threads, CallbackOnMainThread(t)
      PROVE  StopInv'
  BY <1>0, <1>6, DispatchWaits DEF CallbackOnMainThread, StopInv,
     SingleWorker, Live, GoTo, TypeOK, N, checkVars, clientVars, outcomeVars,
     queueVars, threadVars
<1>7. ASSUME NEW t \in Threads, CheckRunningOnMainThread(t)
      PROVE  StopInv'
  BY <1>0, <1>7 DEF CheckRunningOnMainThread, StopInv, SingleWorker, Live,
     GoTo, TypeOK, N, Dispatch, clientVars, outcomeVars, queueVars, threadVars
<1>8. ASSUME NEW t \in Threads, StoppedOnMainThread(t)
      PROVE  StopInv'
  <2>1. pc[t] = "waitStopped" /\ mQuitting /\ mStarted
    BY <1>0, <1>8, DispatchWaits
       DEF StoppedOnMainThread, StopInv, SingleWorker, Live
  <2>2. \A u \in Threads : u # t => pc[u] = "dead"
    BY <1>0, <2>1 DEF SingleWorker, Live
  <2>3. CASE mOperations = <<>>
    <3>1. pc' = [pc EXCEPT ![t] = "dead"] /\ UNCHANGED <<mQuitting, checkVars>>
      BY <1>8, <2>3 DEF StoppedOnMainThread, GoTo
    <3> QED
      BY <1>0, <2>1, <3>1 DEF StopInv, TypeOK, checkVars
  <2>4. CASE mOperations # <<>>
    <3>1. \A u \in Threads : pc'[u] \in {"dead", "down"}
      BY <1>0, <1>8, <2>2, <2>4 DEF StoppedOnMainThread, StartThread, TypeOK
    <3>2. mStarted' /\ UNCHANGED checkVars
      BY <1>8, <2>4 DEF StoppedOnMainThread, StartThread
    <3> QED
      BY <1>0, <3>1, <3>2 DEF StopInv, checkVars
  <2> QED
    BY <2>3, <2>4
<1>9. ASSUME NEW t \in Threads, DownOperationSem(t)
      PROVE  StopInv'
  BY <1>0, <1>9 DEF DownOperationSem, StopInv, SingleWorker, Live, GoTo,
     TypeOK, N, checkVars, clientVars, outcomeVars, queueVars, threadVars
<1>10. ASSUME NEW t \in Threads, PeekOperation(t)
      PROVE  StopInv'
  BY <1>0, <1>10 DEF PeekOperation, StopInv, SingleWorker, Live, GoTo, TypeOK,
     N, checkVars, clientVars, outcomeVars, queueVars, threadVars
<1>11. ASSUME NEW t \in Threads, StopRunning(t)
      PROVE  StopInv'
  BY <1>0, <1>11 DEF StopRunning, StopInv, SingleWorker, Live, GoTo, TypeOK,
     N, checkVars, clientVars, outcomeVars, queueVars, threadVars
<1>12. ASSUME NEW t \in Threads, PostBeforeMain(t)
      PROVE  StopInv'
  BY <1>0, <1>12 DEF PostBeforeMain, StopInv, SingleWorker, Live, GoTo,
     TypeOK, N, checkVars, clientVars, outcomeVars, queueVars, threadVars
<1>13. ASSUME NEW t \in Threads, EnterMain(t)
      PROVE  StopInv'
  BY <1>0, <1>13 DEF EnterMain, StopInv, SingleWorker, Live, GoTo, TypeOK, N,
     checkVars, clientVars, outcomeVars, queueVars, threadVars
<1>14. ASSUME NEW t \in Threads, LeaveMain(t)
      PROVE  StopInv'
  BY <1>0, <1>14 DEF LeaveMain, StopInv, SingleWorker, Live, GoTo, TypeOK, N,
     checkVars, clientVars, outcomeVars, queueVars, threadVars
<1>15. ASSUME NEW t \in Threads, RemoveOperation(t)
      PROVE  StopInv'
  BY <1>0, <1>15 DEF RemoveOperation, StopInv, SingleWorker, Live, GoTo,
     TypeOK, N, checkVars, clientVars, outcomeVars, queueVars, threadVars
<1>16. ASSUME NEW t \in Threads, PostCallback(t)
      PROVE  StopInv'
  BY <1>0, <1>16 DEF PostCallback, StopInv, SingleWorker, Live, GoTo, TypeOK,
     N, checkVars, clientVars, outcomeVars, queueVars, threadVars
<1>17. ASSUME NEW t \in Threads, PostCheckRunning(t)
      PROVE  StopInv'
  BY <1>0, <1>17 DEF PostCheckRunning, StopInv, SingleWorker, Live, GoTo,
     TypeOK, N, checkVars, clientVars, outcomeVars, queueVars
<1>18. ASSUME CheckRunningAfterDelay
      PROVE  StopInv'
  BY <1>0, <1>18 DEF CheckRunningAfterDelay, StopInv, SingleWorker, Live,
     GoTo, TypeOK, N, clientVars, outcomeVars, queueVars, threadVars
<1> QED
  BY <1>1, <1>2, <1>3, <1>4, <1>5, <1>6, <1>7, <1>8, <1>9,
     <1>10, <1>11, <1>12, <1>13, <1>14, <1>15, <1>16, <1>17, <1>18
     DEF Next, Client, MainThread, Worker

\* The balance as seen from the only worker, before and after a step.
LEMMA TokensOfWorker ==
  ASSUME TypeOK, SingleWorker, NEW t \in Threads, Live(t)
  PROVE  TokenInv <=> mOperationSem + N(pc[t] \in Holding)
                        = Len(mOperations) + N(mQuitting)
<1>1. (\E u \in Threads : pc[u] \in Holding) <=> pc[t] \in Holding
  BY DEF SingleWorker, Live, Holding
<1>2. mStarted
  BY DEF SingleWorker
<1> QED
  BY <1>1, <1>2 DEF TokenInv, N

LEMMA TokensOfWorkerAfter ==
  ASSUME SingleWorker', NEW t \in Threads, Live(t)'
  PROVE  TokenInv' <=> mOperationSem' + N(pc'[t] \in Holding)
                         = Len(mOperations') + N(mQuitting')
<1>1. (\E u \in Threads : pc'[u] \in Holding) <=> pc'[t] \in Holding
  BY DEF SingleWorker, Live, Holding
<1>2. mStarted'
  BY DEF SingleWorker
<1> QED
  BY <1>1, <1>2 DEF TokenInv, N

\* A worker that moves between two places of the same kind keeps the balance.
LEMMA MoveKeepsTokens ==
  ASSUME QueueInv, SingleWorker', NEW t \in Threads, Live(t), Live(t)',
         UNCHANGED <<mOperations, mOperationSem, mQuitting>>,
         pc[t] \in Holding <=> pc'[t] \in Holding
  PROVE  TokenInv'
BY TokensOfWorker, TokensOfWorkerAfter DEF QueueInv

\* Steps that leave the workers, the queue and its tokens alone.
LEMMA OthersKeepTokens ==
  ASSUME QueueInv, UNCHANGED <<pc, mStarted, mOperations, mOperationSem, mQuitting>>
  PROVE  TokenInv'
BY DEF QueueInv, TokenInv

\* Tokens are posted and taken as operations and requests to quit are.
LEMMA TokenStep ==
  ASSUME QueueInv, Next
  PROVE  TokenInv'
<1>0. TypeOK /\ SingleWorker /\ OpInv /\ StopInv /\ TokenInv /\ SingleWorker'
  BY WorkerStep DEF QueueInv
<1>1. ASSUME NEW o \in Operations, AddOperation(o)
      PROVE  TokenInv'
  <2>1. /\ mOperationSem' = mOperationSem + 1
        /\ Len(mOperations') = Len(mOperations) + 1
        /\ mOperationSem \in Nat
        /\ Len(mOperations) \in Nat
    BY <1>0, <1>1, AppendFacts, ElementFacts DEF AddOperation, TypeOK
  <2>2. CASE mStarted
    <3>1. UNCHANGED <<pc, mStarted, mQuitting>>
      BY <1>1, <2>2 DEF AddOperation
    <3> QED
      BY <1>0, <2>1, <3>1 DEF TokenInv, N
  <2>3. CASE ~mStarted
    <3>1. \A t \in Threads : pc[t] \notin Holding
      BY <1>0, <2>3 DEF SingleWorker, Live, Holding
    <3>2. ~mQuitting' /\ \A t \in Threads : pc'[t] \notin Holding
      BY <1>0, <1>1, <2>3, <3>1 DEF AddOperation, StartThread, TypeOK, Holding
    <3> QED
      BY <1>0, <2>1, <2>3, <3>1, <3>2 DEF TokenInv, N
  <2> QED
    BY <2>2, <2>3
<1>2. ASSUME NEW o \in Operations, Cancel(o)
      PROVE  TokenInv'
  BY <1>2, OthersKeepTokens
     DEF Cancel, queueVars, threadVars
<1>3. ASSUME CancelAllOperations
      PROVE  TokenInv'
  BY <1>3, OthersKeepTokens
     DEF CancelAllOperations, queueVars, threadVars
<1>4. ASSUME ReleaseQueue
      PROVE  TokenInv'
  BY <1>4, OthersKeepTokens
     DEF ReleaseQueue, queueVars, threadVars
<1>5. ASSUME NEW t \in Threads, BeforeMain(t)
      PROVE  TokenInv'
  <2>1. Live(t) /\ Live(t)' /\ (pc[t] \in Holding <=> pc'[t] \in Holding)
    BY <1>0, <1>5, DispatchWaits DEF BeforeMain, GoTo, TypeOK, Live, Holding
  <2>2. UNCHANGED <<mOperations, mOperationSem, mQuitting>>
    BY <1>5 DEF BeforeMain, queueVars
  <2> QED
    BY <1>0, <2>1, <2>2, MoveKeepsTokens
<1>6. ASSUME NEW t \in Threads, CallbackOnMainThread(t)
      PROVE  TokenInv'
  <2>1. Live(t) /\ Live(t)' /\ (pc[t] \in Holding <=> pc'[t] \in Holding)
    BY <1>0, <1>6, DispatchWaits DEF CallbackOnMainThread, GoTo, TypeOK, Live, Holding
  <2>2. UNCHANGED <<mOperations, mOperationSem, mQuitting>>
    BY <1>6 DEF CallbackOnMainThread, queueVars
  <2> QED
    BY <1>0, <2>1, <2>2, MoveKeepsTokens
<1>7. ASSUME NEW t \in Threads, CheckRunningOnMainThread(t)
      PROVE  TokenInv'
  BY <1>7, OthersKeepTokens
     DEF CheckRunningOnMainThread, queueVars, threadVars
<1>8. ASSUME NEW t \in Threads, StoppedOnMainThread(t)
      PROVE  TokenInv'
  <2>1. pc[t] = "waitStopped" /\ mQuitting
    BY <1>0, <1>8, DispatchWaits DEF StoppedOnMainThread, StopInv
  <2>2. \A u \in Threads : u # t => pc[u] = "dead"
    BY <1>0, <2>1 DEF SingleWorker, Live
  <2>3. /\ mOperationSem = Len(mOperations)
        /\ mOperationSem \in Nat
        /\ Len(mOperations) \in Nat
    <3>1. mOperationSem + 1 = Len(mOperations) + 1
      BY <1>0, <2>1, TokensOfWorker DEF Live, Holding, N
    <3> QED
      BY <1>0, <3>1, ElementFacts DEF TypeOK
  <2>4. UNCHANGED <<mOperations, mOperationSem>>
    BY <1>8 DEF StoppedOnMainThread
  <2>5. \A u \in Threads : pc'[u] \notin Holding
    BY <1>0, <1>8, <2>2
       DEF StoppedOnMainThread, StartThread, GoTo, TypeOK, Holding
  <2>6. ~(mStarted' /\ mQuitting')
    BY <1>8 DEF StoppedOnMainThread, StartThread
  <2> QED
    BY <2>3, <2>4, <2>5, <2>6 DEF TokenInv, N
<1>9. ASSUME NEW t \in Threads, DownOperationSem(t)
      PROVE  TokenInv'
  <2>1. Live(t) /\ Live(t)' /\ pc[t] \notin Holding /\ pc'[t] \in Holding
    BY <1>0, <1>9 DEF DownOperationSem, GoTo, TypeOK, Live, Holding
  <2>2. mOperationSem' = mOperationSem - 1 /\ mOperationSem \in Nat
    BY <1>0, <1>9 DEF DownOperationSem, TypeOK
  <2>3. UNCHANGED <<mOperations, mQuitting>> /\ Len(mOperations) \in Nat
    BY <1>0, <1>9, ElementFacts DEF DownOperationSem, TypeOK
  <2> QED
    BY <1>0, <2>1, <2>2, <2>3, TokensOfWorker, TokensOfWorkerAfter DEF N
<1>10. ASSUME NEW t \in Threads, PeekOperation(t)
      PROVE  TokenInv'
  <2>1. Live(t) /\ Live(t)' /\ (pc[t] \in Holding <=> pc'[t] \in Holding)
    BY <1>0, <1>10 DEF PeekOperation, GoTo, TypeOK, Live, Holding
  <2>2. UNCHANGED <<mOperations, mOperationSem, mQuitting>>
    BY <1>10 DEF PeekOperation, queueVars
  <2> QED
    BY <1>0, <2>1, <2>2, MoveKeepsTokens
<1>11. ASSUME NEW t \in Threads, StopRunning(t)
      PROVE  TokenInv'
  <2>1. Live(t) /\ Live(t)' /\ (pc[t] \in Holding <=> pc'[t] \in Holding)
    BY <1>0, <1>11 DEF StopRunning, GoTo, TypeOK, Live, Holding
  <2>2. UNCHANGED <<mOperations, mOperationSem, mQuitting>>
    BY <1>11 DEF StopRunning, queueVars
  <2> QED
    BY <1>0, <2>1, <2>2, MoveKeepsTokens
<1>12. ASSUME NEW t \in Threads, PostBeforeMain(t)
      PROVE  TokenInv'
  <2>1. Live(t) /\ Live(t)' /\ (pc[t] \in Holding <=> pc'[t] \in Holding)
    BY <1>0, <1>12 DEF PostBeforeMain, GoTo, TypeOK, Live, Holding
  <2>2. UNCHANGED <<mOperations, mOperationSem, mQuitting>>
    BY <1>12 DEF PostBeforeMain, queueVars
  <2> QED
    BY <1>0, <2>1, <2>2, MoveKeepsTokens
<1>13. ASSUME NEW t \in Threads, EnterMain(t)
      PROVE  TokenInv'
  <2>1. Live(t) /\ Live(t)' /\ (pc[t] \in Holding <=> pc'[t] \in Holding)
    BY <1>0, <1>13 DEF EnterMain, GoTo, TypeOK, Live, Holding
  <2>2. UNCHANGED <<mOperations, mOperationSem, mQuitting>>
    BY <1>13 DEF EnterMain, queueVars
  <2> QED
    BY <1>0, <2>1, <2>2, MoveKeepsTokens
<1>14. ASSUME NEW t \in Threads, LeaveMain(t)
      PROVE  TokenInv'
  <2>1. Live(t) /\ Live(t)' /\ (pc[t] \in Holding <=> pc'[t] \in Holding)
    BY <1>0, <1>14 DEF LeaveMain, GoTo, TypeOK, Live, Holding
  <2>2. UNCHANGED <<mOperations, mOperationSem, mQuitting>>
    BY <1>14 DEF LeaveMain, queueVars
  <2> QED
    BY <1>0, <2>1, <2>2, MoveKeepsTokens
<1>15. ASSUME NEW t \in Threads, RemoveOperation(t)
      PROVE  TokenInv'
  <2>1. Live(t) /\ Live(t)' /\ pc[t] \in Holding /\ pc'[t] \notin Holding
    BY <1>0, <1>15 DEF RemoveOperation, GoTo, TypeOK, Live, Holding
  <2>2. UNCHANGED <<mOperationSem, mQuitting>> /\ mOperationSem \in Nat
    BY <1>0, <1>15 DEF RemoveOperation, TypeOK
  <2>3. Len(mOperations') = Len(mOperations) - 1 /\ Len(mOperations) \in Nat
    <3>1. mOperations \in Seq(Operations) /\ mOperations # <<>>
      BY <1>0, <1>15 DEF RemoveOperation, TypeOK, OpInv, Serving
    <3> QED
      BY <1>15, <3>1, TailFacts, ElementFacts DEF RemoveOperation
  <2> QED
    BY <1>0, <2>1, <2>2, <2>3, TokensOfWorker, TokensOfWorkerAfter DEF N
<1>16. ASSUME NEW t \in Threads, PostCallback(t)
      PROVE  TokenInv'
  <2>1. Live(t) /\ Live(t)' /\ (pc[t] \in Holding <=> pc'[t] \in Holding)
    BY <1>0, <1>16 DEF PostCallback, GoTo, TypeOK, Live, Holding
  <2>2. UNCHANGED <<mOperations, mOperationSem, mQuitting>>
    BY <1>16 DEF PostCallback, queueVars
  <2> QED
    BY <1>0, <2>1, <2>2, MoveKeepsTokens
<1>17. ASSUME NEW t \in Threads, PostCheckRunning(t)
      PROVE  TokenInv'
  <2>1. Live(t) /\ Live(t)' /\ (pc[t] \in Holding <=> pc'[t] \in Holding)
    BY <1>0, <1>17 DEF PostCheckRunning, GoTo, TypeOK, Live, Holding
  <2>2. UNCHANGED <<mOperations, mOperationSem, mQuitting>>
    BY <1>17 DEF PostCheckRunning, queueVars
  <2> QED
    BY <1>0, <2>1, <2>2, MoveKeepsTokens
<1>18. ASSUME CheckRunningAfterDelay
      PROVE  TokenInv'
  <2>1. CASE UNCHANGED <<mOperationSem, mQuitting>>
    BY <1>18, <2>1, OthersKeepTokens DEF CheckRunningAfterDelay, threadVars
  <2>2. CASE /\ ~mQuitting
             /\ mOperationSem' = mOperationSem + 1
             /\ mQuitting' = TRUE
    <3>1. mStarted /\ UNCHANGED <<mStarted, mOperations, pc>>
      BY <1>0, <1>18, <2>2 DEF CheckRunningAfterDelay, StopInv, TypeOK, threadVars
    <3>2. mOperationSem \in Nat /\ Len(mOperations) \in Nat
      BY <1>0, ElementFacts DEF TypeOK
    <3> QED
      BY <1>0, <2>2, <3>1, <3>2 DEF TokenInv, N
  <2> QED
    BY <1>18, <2>1, <2>2 DEF CheckRunningAfterDelay
<1> QED
  BY <1>1, <1>2, <1>3, <1>4, <1>5, <1>6, <1>7, <1>8, <1>9,
     <1>10, <1>11, <1>12, <1>13, <1>14, <1>15, <1>16, <1>17, <1>18
     DEF Next, Client, MainThread, Worker

-----------------------------------------------------------------------------
LEMMA QueueInit == Init => QueueInv
<1> SUFFICES ASSUME Init PROVE QueueInv
  OBVIOUS
<1>1. TypeOK
  <2>1. /\ mOperations \in Seq(Operations)
        /\ mainQueue \in Seq([call : Calls, thread : Threads])
        /\ added \in Seq(Operations)
        /\ ran \in Seq(Operations)
        /\ called \in Seq(Operations)
    BY DEF Init
  <2>2. /\ pc \in [Threads -> PCs]
        /\ op \in [Threads -> Operations \cup {NULL}]
        /\ needsCheckRunning \in [Threads -> BOOLEAN]
        /\ mCancelled \in [Operations -> BOOLEAN]
    BY DEF Init, PCs
  <2>3. /\ mOperationSem \in Nat /\ mStopSem \in Nat /\ checkTimers \in Nat
        /\ mCounter \in Int
    BY DEF Init
  <2>4. /\ mStarted \in BOOLEAN /\ mQuitting \in BOOLEAN
        /\ pendingCheckRunning \in BOOLEAN /\ owned \in BOOLEAN
    BY Zenon DEF Init
  <2> QED
    BY <2>1, <2>2, <2>3, <2>4 DEF TypeOK
<1>2. SingleWorker /\ OpInv /\ CallInv /\ StopInv
  BY DEF Init, SingleWorker, Live, OpInv, Serving, Answering, CallInv, StopInv, N
<1>3. TokenInv
  BY DEF Init, TokenInv, Holding, N
<1> QED
  BY <1>1, <1>2, <1>3 DEF QueueInv

LEMMA QueueStep == QueueInv /\ [Next]_vars => QueueInv'
<1>1. ASSUME QueueInv, Next
      PROVE  QueueInv'
  BY <1>1, TypeStep, WorkerStep, OperationStep, CallStep, StopStep, TokenStep
     DEF QueueInv
<1>2. ASSUME QueueInv, UNCHANGED vars
      PROVE  QueueInv'
  BY <1>2
     DEF QueueInv, TypeOK, SingleWorker, Live, OpInv, CallInv, StopInv, TokenInv,
         vars, queueVars, checkVars, threadVars, clientVars, outcomeVars
<1> QED
  BY <1>1, <1>2

THEOREM QueueInvariant == Spec => []QueueInv
BY QueueInit, QueueStep, PTL DEF Spec

\* The queue's variables keep their types: in particular the semaphores, the
\* references and the delayed checks are never counted below zero.
THEOREM QueueTypes == Spec => []TypeOK
<1>1. QueueInv => TypeOK
  BY DEF QueueInv
<1> QED
  BY <1>1, QueueInvariant, PTL

\* One worker at a time, and none while mStarted is false.
THEOREM OneWorkerAtATime == Spec => []SingleWorker
<1>1. QueueInv => SingleWorker
  BY DEF QueueInv
<1> QED
  BY <1>1, QueueInvariant, PTL

\* The assertion of runOperations holds: a worker that was woken and goes on
\* has an operation.
THEOREM NeverWokenForNothing == Spec => []WokenWithOperation
<1>1. QueueInv => WokenWithOperation
  <2> SUFFICES ASSUME QueueInv, NEW t \in Threads, pc[t] = "before"
               PROVE  op[t] # NULL
    BY DEF WokenWithOperation
  <2>1. mOperations # <<>> /\ op[t] = Head(mOperations)
    BY DEF QueueInv, OpInv, Serving
  <2>2. op[t] \in Operations
    BY <2>1, TailFacts DEF QueueInv, TypeOK
  <2> QED
    BY <2>2, QueueAssumption
<1> QED
  BY <1>1, QueueInvariant, PTL
-----------------------------------------------------------------------------
\* Where the references (1) to (4) of the source are, with the owner's: each
\* posted check has one, each delayed one, a started worker, and a worker that
\* waits to be stopped.
Checks(q) == {i \in DOMAIN q : q[i].call = "checkRunningOnMainThread"}

ReferenceInv ==
  mCounter = N(owned) + N(mStarted) + N(\E t \in Threads : pc[t] = "waitStopped")
               + checkTimers + Cardinality(Checks(mainQueue))

LEMMA ChecksFinite ==
  ASSUME NEW q \in Seq([call : Calls, thread : Threads])
  PROVE  IsFiniteSet(Checks(q)) /\ Cardinality(Checks(q)) \in Nat
<1>1. Len(q) \in Nat /\ DOMAIN q = 1 .. Len(q)
  BY ElementFacts
<1>2. IsFiniteSet(1 .. Len(q))
  BY <1>1, FS_Interval
<1>3. Checks(q) \in SUBSET (1 .. Len(q))
  BY <1>1 DEF Checks
<1>4. IsFiniteSet(Checks(q))
  BY <1>2, <1>3, FS_Subset
<1> QED
  BY <1>4, FS_CardinalityType

LEMMA ChecksAppend ==
  ASSUME NEW q \in Seq([call : Calls, thread : Threads]),
         NEW c \in [call : Calls, thread : Threads]
  PROVE  Cardinality(Checks(Append(q, c)))
           = Cardinality(Checks(q)) + N(c.call = "checkRunningOnMainThread")
<1>1. /\ Len(q) + 1 \notin Checks(q)
      /\ Checks(Append(q, c)) = IF c.call = "checkRunningOnMainThread"
                                THEN Checks(q) \cup {Len(q) + 1} ELSE Checks(q)
  BY AppendFacts, ElementFacts DEF Checks
<1>2. IsFiniteSet(Checks(q)) /\ Cardinality(Checks(q)) \in Nat
  BY ChecksFinite
<1>3. Cardinality(Checks(q) \cup {Len(q) + 1}) = Cardinality(Checks(q)) + 1
  BY <1>1, <1>2, FS_AddElement
<1> QED
  BY <1>1, <1>2, <1>3 DEF N

LEMMA ChecksTail ==
  ASSUME NEW q \in Seq([call : Calls, thread : Threads]), q # <<>>
  PROVE  Cardinality(Checks(q))
           = Cardinality(Checks(Tail(q))) + N(q[1].call = "checkRunningOnMainThread")
<1> DEFINE S == Checks(Tail(q))
           T == Checks(q) \ {1}
           f == [i \in S |-> i + 1]
<1>1. f \in [S -> T]
  BY TailFacts, ElementFacts DEF Checks
<1>2. \A i, j \in S : f[i] = f[j] => i = j
  BY TailFacts, ElementFacts DEF Checks
<1>3. ASSUME NEW j \in T
      PROVE  \E i \in S : f[i] = j
  <2>1. j - 1 \in S /\ f[j - 1] = j
    BY TailFacts, ElementFacts DEF Checks
  <2> QED
    BY <2>1
<1>4. f \in Bijection(S, T)
  BY <1>1, <1>2, <1>3 DEF Bijection, Injection, Surjection, IsInjective
<1>5. Tail(q) \in Seq([call : Calls, thread : Threads])
  BY TailFacts
<1>6. Cardinality(T) = Cardinality(S)
  BY <1>4, <1>5, ChecksFinite, FS_Bijection DEF ExistsBijection
<1>7. 1 \in Checks(q) <=> q[1].call = "checkRunningOnMainThread"
  BY TailFacts, ElementFacts DEF Checks
<1>8. IsFiniteSet(Checks(q)) /\ Cardinality(Checks(q)) \in Nat
  BY ChecksFinite
<1>9. Cardinality(T) = IF 1 \in Checks(q) THEN Cardinality(Checks(q)) - 1
                                         ELSE Cardinality(Checks(q))
  BY <1>8, FS_RemoveElement
<1> HIDE DEF S, T
<1>10. Cardinality(Checks(q)) = Cardinality(S) + N(q[1].call = "checkRunningOnMainThread")
  BY <1>6, <1>7, <1>8, <1>9 DEF N
<1> QED
  BY <1>10 DEF S

\* A step that leaves the counted things alone.
LEMMA ReferencesRest ==
  ASSUME ReferenceInv, UNCHANGED <<mCounter, owned, mStarted, checkTimers, mainQueue>>,
         \A t \in Threads : pc'[t] = "waitStopped" <=> pc[t] = "waitStopped"
  PROVE  ReferenceInv'
BY DEF ReferenceInv

LEMMA ReferenceStep ==
  ASSUME QueueInv, ReferenceInv, Next
  PROVE  ReferenceInv'
<1> DEFINE stopping == \E t \in Threads : pc[t] = "waitStopped"
           checks == Cardinality(Checks(mainQueue))
<1>0. /\ TypeOK /\ SingleWorker /\ OpInv /\ StopInv
      /\ mainQueue \in Seq([call : Calls, thread : Threads])
      /\ mCounter \in Int /\ checkTimers \in Nat /\ checks \in Nat
  BY ChecksFinite DEF QueueInv, TypeOK
<1>1. ASSUME NEW o \in Operations, AddOperation(o)
      PROVE  ReferenceInv'
  <2>1. UNCHANGED <<owned, checkTimers, mainQueue>>
    BY <1>1 DEF AddOperation, checkVars
  <2>2. \A t \in Threads : pc'[t] = "waitStopped" <=> pc[t] = "waitStopped"
    BY <1>0, <1>1 DEF AddOperation, StartThread, TypeOK
  <2>3. mCounter' - N(mStarted') = mCounter - N(mStarted)
    BY <1>0, <1>1 DEF AddOperation, StartThread, N
  <2>4. stopping' <=> stopping
    BY <2>2
  <2>5. mCounter' \in Int
    BY <1>0, <1>1 DEF AddOperation, StartThread
  <2> HIDE DEF stopping, checks
  <2>6. /\ mCounter = N(owned) + N(mStarted) + N(stopping) + checkTimers + checks
        /\ UNCHANGED checks
    BY <2>1 DEF ReferenceInv, stopping, checks
  <2>7. mCounter' = N(owned') + N(mStarted') + N(stopping') + checkTimers' + checks'
    <3>1. /\ N(stopping') = N(stopping) /\ N(owned') = N(owned)
          /\ checkTimers' = checkTimers /\ checks' = checks
      BY <2>1, <2>4, <2>6 DEF N
    <3>2. /\ N(stopping) \in Int /\ N(owned) \in Int
          /\ N(mStarted) \in Int /\ N(mStarted') \in Int
      BY DEF N
    <3>3. mCounter \in Int /\ checkTimers \in Int /\ checks \in Int
      BY <1>0
    <3>4. mCounter' = mCounter - N(mStarted) + N(mStarted')
      BY <2>3, <2>5, <3>2, <3>3
    <3>5. mCounter' = N(owned) + N(mStarted') + N(stopping) + checkTimers + checks
      BY <2>6, <3>2, <3>3, <3>4
    <3> QED
      BY <3>1, <3>5
  <2> QED
    BY <2>7 DEF ReferenceInv, stopping, checks
<1>2. ASSUME NEW o \in Operations, Cancel(o)
      PROVE  ReferenceInv'
  BY <1>2, ReferencesRest DEF Cancel, queueVars, checkVars, threadVars
<1>3. ASSUME CancelAllOperations
      PROVE  ReferenceInv'
  BY <1>3, ReferencesRest DEF CancelAllOperations, queueVars, checkVars, threadVars
<1>4. ASSUME ReleaseQueue
      PROVE  ReferenceInv'
  <2>1. UNCHANGED <<mStarted, checkTimers, mainQueue, pc>>
    BY <1>4 DEF ReleaseQueue, queueVars, checkVars, threadVars
  <2> QED
    BY <1>0, <1>4, <2>1 DEF ReleaseQueue, ReferenceInv, N
<1>5. ASSUME NEW call \in Calls, NEW t \in Threads, Dispatch(call, t)
      PROVE  Cardinality(Checks(mainQueue))
               = Cardinality(Checks(mainQueue')) + N(call = "checkRunningOnMainThread")
  <2>1. /\ mainQueue # <<>> /\ mainQueue' = Tail(mainQueue)
        /\ mainQueue[1].call = call
    BY <1>0, <1>5, DispatchFacts DEF Dispatch
  <2> QED
    BY <1>0, <2>1, ChecksTail
<1>6. ASSUME NEW call \in Calls, NEW t \in Threads, Post(call, t)
      PROVE  Cardinality(Checks(mainQueue'))
               = Cardinality(Checks(mainQueue)) + N(call = "checkRunningOnMainThread")
  <2>1. [call |-> call, thread |-> t] \in [call : Calls, thread : Threads]
    OBVIOUS
  <2> QED
    BY <1>0, <1>6, <2>1, ChecksAppend DEF Post
<1>7. ASSUME NEW t \in Threads, BeforeMain(t) \/ CallbackOnMainThread(t)
      PROVE  ReferenceInv'
  <2>1. pc[t] \in {"waitBefore", "waitCallback"} /\ GoTo(t, IF BeforeMain(t) THEN "main" ELSE "check")
    BY <1>7, DispatchWaits DEF BeforeMain, CallbackOnMainThread
  <2>2. \A u \in Threads : pc'[u] = "waitStopped" <=> pc[u] = "waitStopped"
    BY <1>0, <2>1 DEF GoTo, TypeOK
  <2>3. Cardinality(Checks(mainQueue')) = Cardinality(Checks(mainQueue))
    <3>1. \E call \in {"beforeMain", "callbackOnMainThread"} : Dispatch(call, t)
      BY <1>7 DEF BeforeMain, CallbackOnMainThread
    <3>2. mainQueue' \in Seq([call : Calls, thread : Threads])
      BY <1>0, <3>1, DispatchFacts DEF Calls
    <3>3. Cardinality(Checks(mainQueue')) \in Nat
      BY <3>2, ChecksFinite
    <3> QED
      BY <1>0, <1>5, <3>1, <3>3 DEF Calls, N
  <2>4. UNCHANGED <<mCounter, owned, mStarted, checkTimers>>
    BY <1>7 DEF BeforeMain, CallbackOnMainThread, queueVars, checkVars, clientVars
  <2> QED
    BY <2>2, <2>3, <2>4 DEF ReferenceInv
<1>8. ASSUME NEW t \in Threads, CheckRunningOnMainThread(t)
      PROVE  ReferenceInv'
  <2>1. mainQueue' \in Seq([call : Calls, thread : Threads])
    BY <1>0, <1>8, DispatchFacts DEF CheckRunningOnMainThread, Calls
  <2>2. Cardinality(Checks(mainQueue')) \in Nat
    BY <2>1, ChecksFinite
  <2>3. checks = Cardinality(Checks(mainQueue')) + 1
    BY <1>5, <1>8 DEF CheckRunningOnMainThread, Calls, N
  <2>4. /\ mCounter' = mCounter - N(pendingCheckRunning)
        /\ checkTimers' = checkTimers - N(pendingCheckRunning) + 1
        /\ UNCHANGED <<owned, mStarted, pc>>
    BY <1>8 DEF CheckRunningOnMainThread, queueVars, threadVars, clientVars
  <2> QED
    BY <1>0, <2>2, <2>3, <2>4 DEF ReferenceInv, N
<1>9. ASSUME NEW t \in Threads, StoppedOnMainThread(t)
      PROVE  ReferenceInv'
  <2>1. pc[t] = "waitStopped"
    BY <1>9, DispatchWaits DEF StoppedOnMainThread
  <2>2. stopping /\ mStarted
    BY <1>0, <2>1 DEF SingleWorker, Live
  <2>3. \A u \in Threads : pc'[u] # "waitStopped"
    BY <1>0, <1>9, <2>1
       DEF StoppedOnMainThread, StartThread, GoTo, TypeOK, SingleWorker, Live
  <2>4. mainQueue' \in Seq([call : Calls, thread : Threads])
    BY <1>0, <1>9, DispatchFacts DEF StoppedOnMainThread, Calls
  <2>5. Cardinality(Checks(mainQueue')) \in Nat
    BY <2>4, ChecksFinite
  <2>6. checks = Cardinality(Checks(mainQueue'))
    BY <1>5, <1>9, <2>5 DEF StoppedOnMainThread, Calls, N
  <2>7. mCounter' = mCounter - 2 + N(mStarted') /\ UNCHANGED <<owned, checkTimers>>
    BY <1>0, <1>9 DEF StoppedOnMainThread, StartThread, N, checkVars, clientVars
  <2>8. mCounter = N(owned) + checkTimers + checks + 2
    BY <1>0, <2>2 DEF ReferenceInv, N
  <2>9. N(owned) \in Int /\ N(mStarted') \in Int /\ checks \in Int
    BY <1>0 DEF N
  <2>10. N(stopping') = 0
    BY <2>3 DEF N
  <2>11. checks' = checks
    BY <2>6
  <2> HIDE DEF checks, stopping
  <2>12. mCounter' = N(owned') + N(mStarted') + N(stopping') + checkTimers' + checks'
    BY SMTT(30), <1>0, <2>7, <2>8, <2>9, <2>10, <2>11
  <2> QED
    BY <2>12 DEF ReferenceInv, stopping, checks
<1>10. ASSUME NEW t \in Threads, StopRunning(t)
      PROVE  ReferenceInv'
  <2>1. ~stopping
    BY <1>0, <1>10 DEF StopRunning, SingleWorker, Live
  <2>2. pc'[t] = "waitStopped"
    BY <1>0, <1>10 DEF StopRunning, GoTo, TypeOK
  <2>3. Cardinality(Checks(mainQueue')) = checks
    BY <1>0, <1>6, <1>10 DEF StopRunning, Calls, N
  <2>4. mCounter' = mCounter + 1 /\ UNCHANGED <<owned, mStarted, checkTimers>>
    BY <1>10 DEF StopRunning, checkVars, clientVars
  <2> QED
    BY <1>0, <2>1, <2>2, <2>3, <2>4 DEF ReferenceInv, N
<1>11. ASSUME NEW t \in Threads, PostBeforeMain(t) \/ PostCallback(t)
      PROVE  ReferenceInv'
  <2>1. \A u \in Threads : pc'[u] = "waitStopped" <=> pc[u] = "waitStopped"
    BY <1>0, <1>11 DEF PostBeforeMain, PostCallback, GoTo, TypeOK
  <2>2. Cardinality(Checks(mainQueue')) = checks
    <3>1. \/ UNCHANGED mainQueue
          \/ \E call \in {"beforeMain", "callbackOnMainThread"} : Post(call, t)
      BY <1>11 DEF PostBeforeMain, PostCallback
    <3> QED
      BY <1>0, <1>6, <3>1 DEF Calls, N
  <2>3. UNCHANGED <<mCounter, owned, mStarted, checkTimers>>
    BY <1>11 DEF PostBeforeMain, PostCallback, queueVars, checkVars, clientVars
  <2> QED
    BY <2>1, <2>2, <2>3 DEF ReferenceInv
<1>12. ASSUME NEW t \in Threads, PostCheckRunning(t)
      PROVE  ReferenceInv'
  <2>1. \A u \in Threads : pc'[u] = "waitStopped" <=> pc[u] = "waitStopped"
    BY <1>0, <1>12 DEF PostCheckRunning, GoTo, TypeOK
  <2>2. UNCHANGED <<owned, mStarted, checkTimers>>
    BY <1>12 DEF PostCheckRunning, queueVars, checkVars, clientVars
  <2>3. mCounter' - Cardinality(Checks(mainQueue')) = mCounter - checks
        /\ Cardinality(Checks(mainQueue')) \in Nat /\ mCounter' \in Int
    <3>1. CASE mCounter' = mCounter + 1 /\ Post("checkRunningOnMainThread", t)
      BY <1>0, <1>6, <3>1 DEF Calls, N
    <3>2. CASE UNCHANGED <<mCounter, mainQueue>>
      BY <1>0, <3>2
    <3> QED
      BY <1>12, <3>1, <3>2 DEF PostCheckRunning
  <2>4. stopping' <=> stopping
    BY <2>1
  <2> HIDE DEF stopping
  <2>5. mCounter = N(owned) + N(mStarted) + N(stopping) + checkTimers + checks
    BY DEF ReferenceInv, stopping
  <2>6. mCounter' = N(owned') + N(mStarted') + N(stopping') + checkTimers'
                      + Cardinality(Checks(mainQueue'))
    BY SMTT(30), <1>0, <2>2, <2>3, <2>4, <2>5 DEF N
  <2> QED
    BY <2>6 DEF ReferenceInv, stopping
<1>13. ASSUME NEW t \in Threads,
              DownOperationSem(t) \/ PeekOperation(t) \/ EnterMain(t)
                \/ LeaveMain(t) \/ RemoveOperation(t)
      PROVE  ReferenceInv'
  <2>1. \A u \in Threads : pc'[u] = "waitStopped" <=> pc[u] = "waitStopped"
    BY <1>0, <1>13
       DEF DownOperationSem, PeekOperation, EnterMain, LeaveMain, RemoveOperation,
           GoTo, TypeOK
  <2>2. UNCHANGED <<mCounter, owned, mStarted, checkTimers, mainQueue>>
    BY <1>13
       DEF DownOperationSem, PeekOperation, EnterMain, LeaveMain, RemoveOperation,
           queueVars, checkVars, clientVars
  <2> QED
    BY <2>1, <2>2, ReferencesRest
<1>14. ASSUME CheckRunningAfterDelay
      PROVE  ReferenceInv'
  <2>1. /\ mCounter' = mCounter - 1 /\ checkTimers' = checkTimers - 1
        /\ UNCHANGED <<owned, mStarted, mainQueue, pc>>
    BY <1>14 DEF CheckRunningAfterDelay, threadVars, clientVars
  <2> QED
    BY <1>0, <2>1 DEF ReferenceInv, N
<1> QED
  BY <1>1, <1>2, <1>3, <1>4, <1>7, <1>8, <1>9, <1>10, <1>11, <1>12, <1>13, <1>14
     DEF Next, Client, MainThread, Worker

LEMMA ReferenceInit == Init => ReferenceInv
<1> SUFFICES ASSUME Init PROVE ReferenceInv
  OBVIOUS
<1>1. Checks(mainQueue) = {}
  BY DEF Init, Checks
<1>2. Cardinality(Checks(mainQueue)) = 0
  BY <1>1, FS_EmptySet
<1> QED
  BY <1>2 DEF Init, ReferenceInv, N

\* The retain count is always the owner's reference and the references (1) to
\* (4) of addOperation, startThread, runOperations and the delayed checks.
THEOREM ReferencesAreCounted == Spec => []ReferenceInv
<1>1. QueueInv /\ ReferenceInv /\ [Next]_vars => ReferenceInv'
  <2>1. ASSUME QueueInv, ReferenceInv, UNCHANGED vars
        PROVE  ReferenceInv'
    BY <2>1 DEF ReferenceInv, vars, queueVars, checkVars, threadVars, clientVars
  <2> QED
    BY <2>1, ReferenceStep
<1> QED
  BY <1>1, ReferenceInit, QueueInvariant, PTL DEF Spec

\* The queue is not destroyed while its worker runs, a call to it is posted,
\* its delayed check is due or its owner holds it.
THEOREM NeverFreedInUse == Spec => []AliveWhileUsed
<1>1. QueueInv /\ ReferenceInv => AliveWhileUsed
  <2> SUFFICES ASSUME QueueInv, ReferenceInv,
                      mStarted \/ mainQueue # <<>> \/ checkTimers > 0 \/ owned
               PROVE  mCounter > 0
    BY DEF AliveWhileUsed
  <2>1. /\ mainQueue \in Seq([call : Calls, thread : Threads])
        /\ checkTimers \in Nat /\ CallInv /\ SingleWorker
    BY DEF QueueInv, TypeOK
  <2>2. Cardinality(Checks(mainQueue)) \in Nat
    BY <2>1, ChecksFinite
  <2>3. ASSUME mainQueue # <<>>
        PROVE  mStarted \/ Cardinality(Checks(mainQueue)) > 0
    <3>1. /\ 1 \in DOMAIN mainQueue
          /\ mainQueue[1].call \in Calls /\ mainQueue[1].thread \in Threads
      <4>1. mainQueue[1] \in [call : Calls, thread : Threads] /\ 1 \in DOMAIN mainQueue
        <5>1. Len(mainQueue) >= 1 /\ DOMAIN mainQueue = 1 .. Len(mainQueue)
          BY <2>1, <2>3, TailFacts, ElementFacts
        <5>2. 1 \in DOMAIN mainQueue
          BY <5>1
        <5> QED
          BY <2>1, <5>2, ElementFacts
      <4> QED
        BY <4>1
    <3>2. CASE mainQueue[1].call = "checkRunningOnMainThread"
      <4>1. Checks(mainQueue) # {}
        BY <3>1, <3>2 DEF Checks
      <4>2. IsFiniteSet(Checks(mainQueue))
        BY <2>1, ChecksFinite
      <4>3. Cardinality(Checks(mainQueue)) # 0
        BY <4>1, <4>2, FS_EmptySet
      <4> QED
        BY <2>2, <4>3
    <3>3. CASE mainQueue[1].call # "checkRunningOnMainThread"
      <4>1. pc[mainQueue[1].thread] # "dead"
        BY <2>1, <3>1, <3>3 DEF CallInv, Calls
      <4> QED
        BY <2>1, <3>1, <4>1 DEF SingleWorker, Live
    <3> QED
      BY <3>2, <3>3
  <2> QED
    BY <2>1, <2>2, <2>3 DEF ReferenceInv, N
<1> QED
  BY <1>1, QueueInvariant, ReferencesAreCounted, PTL
=============================================================================
