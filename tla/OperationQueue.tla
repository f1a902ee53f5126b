--------------------------- MODULE OperationQueue ---------------------------
(***************************************************************************)
(* OperationQueue (src/core/basetypes/MCOperationQueue.cpp): a FIFO of     *)
(* operations served by one detached worker thread, which is started on    *)
(* demand and told to quit when the queue has been empty for a second.     *)
(*                                                                         *)
(* Two kinds of process share the queue.  The main thread (the callback    *)
(* thread) runs the client, the calls posted to it (mainQueue) and the     *)
(* delayed check.  A worker thread runs runOperations(), one step here per *)
(* interval between two accesses to shared state.  startThread() blocks on *)
(* mStartSem only until the new thread's first instruction, which touches  *)
(* nothing else, so starting is one step.                                  *)
(***************************************************************************)
EXTENDS Integers, Sequences, FiniteSets

CONSTANTS
  Operations,         \* the operations a client may start, each at most once
  RunWhenCancelled,   \* those with shouldRunWhenCancelled() set
  Threads,            \* names for the worker threads pthread_create returns
  NULL

ASSUME QueueAssumption ==
  /\ RunWhenCancelled \subseteq Operations
  /\ NULL \notin Operations

VARIABLES
  mOperations,          \* the queued operations; the head stays while it runs
  mOperationSem,        \* counting semaphore the worker sleeps on
  mStarted,             \* a worker exists (main thread only)
  mStopSem,             \* posted by a worker that decided to stop
  mQuitting,            \* the worker was asked to quit
  pendingCheckRunning,  \* _pendingCheckRunning
  checkTimers,          \* outstanding delayed calls of checkRunningAfterDelay
  mCounter,             \* retain count of the queue object
  owned,                \* the client still holds its reference
  mainQueue,            \* calls posted to the main thread, oldest first
  pc,                   \* what each worker thread does next
  op,                   \* local variable op of each worker thread
  needsCheckRunning,    \* local variable of each worker thread
  mCancelled,           \* per operation
  added, ran, called    \* histories: addOperation, main() entered, callback

queueVars == <<mOperations, mOperationSem, mStarted, mStopSem, mQuitting>>
checkVars == <<pendingCheckRunning, checkTimers>>
threadVars == <<pc, op, needsCheckRunning>>
clientVars == <<owned, mCancelled, added>>
outcomeVars == <<ran, called>>
vars == <<queueVars, checkVars, mCounter, mainQueue, threadVars, clientVars,
          outcomeVars>>

Calls == {"beforeMain", "callbackOnMainThread", "checkRunningOnMainThread",
          "stoppedOnMainThread"}

PCs == {"dead", "down", "peek", "stopping", "waitStopped", "before",
        "waitBefore", "main", "running", "remove", "callback",
        "waitCallback", "check"}

Elements(s) == {s[i] : i \in DOMAIN s}
N(b) == IF b THEN 1 ELSE 0

\* performMethodOnMainThread: post a call; threads that pass waitUntilDone
\* move to a wait state and go on when the main thread has run the call.
Post(call, t) == mainQueue' = Append(mainQueue, [call |-> call, thread |-> t])

GoTo(t, label) == pc' = [pc EXCEPT ![t] = label]

-----------------------------------------------------------------------------
\* The main thread: client calls.

\* startThread() past its test of mStarted, which the callers make: retain
\* (3) and create a thread.  threadsBefore is what the caller leaves pc at,
\* retains the caller's own net change of the counter.
StartThread(threadsBefore, retains) ==
  \E t \in {u \in Threads : threadsBefore[u] = "dead"} :
    /\ mStarted' = TRUE
    /\ mQuitting' = FALSE
    /\ mCounter' = mCounter + retains + 1
    /\ pc' = [threadsBefore EXCEPT ![t] = "down"]

\* Mutants: only the addition that starts a thread posts the semaphore; an
\* addition calls off the order to quit, whose token stays posted.
AddOperation_LostWakeup(o) ==
  /\ owned
  /\ o \notin Elements(added)
  /\ mOperations' = Append(mOperations, o)
  /\ mOperationSem' = mOperationSem + N(~mStarted)
  /\ added' = Append(added, o)
  /\ \/ mStarted /\ UNCHANGED <<mStarted, mQuitting, mCounter, pc>>
     \/ ~mStarted /\ StartThread(pc, 0)
  /\ UNCHANGED <<mStopSem, checkVars, owned, mainQueue, op, needsCheckRunning,
                 mCancelled, outcomeVars>>

AddOperation_CallsOffQuit(o) ==
  /\ owned
  /\ o \notin Elements(added)
  /\ mOperations' = Append(mOperations, o)
  /\ mOperationSem' = mOperationSem + 1
  /\ added' = Append(added, o)
  /\ \/ mStarted /\ mQuitting' = FALSE /\ UNCHANGED <<mStarted, mCounter, pc>>
     \/ ~mStarted /\ StartThread(pc, 0)
  /\ UNCHANGED <<mStopSem, checkVars, owned, mainQueue, op, needsCheckRunning,
                 mCancelled, outcomeVars>>

\* Appending under mLock and mailsem_up are one step: the up only enables the
\* worker, so nothing it does in between could not happen after both.
AddOperation(o) ==
  /\ owned
  /\ o \notin Elements(added)
  /\ mOperations' = Append(mOperations, o)
  /\ mOperationSem' = mOperationSem + 1
  /\ added' = Append(added, o)
  /\ \/ mStarted /\ UNCHANGED <<mStarted, mQuitting, mCounter, pc>>
     \/ ~mStarted /\ StartThread(pc, 0)
  /\ UNCHANGED <<mStopSem, checkVars, owned, mainQueue, op, needsCheckRunning,
                 mCancelled, outcomeVars>>

Cancel(o) ==
  /\ mCancelled' = [mCancelled EXCEPT ![o] = TRUE]
  /\ UNCHANGED <<queueVars, checkVars, mCounter, owned, mainQueue, threadVars,
                 added, outcomeVars>>

CancelAllOperations ==
  /\ owned
  /\ mCancelled' = [o \in Operations |->
                      mCancelled[o] \/ o \in Elements(mOperations)]
  /\ UNCHANGED <<queueVars, checkVars, mCounter, owned, mainQueue, threadVars,
                 added, outcomeVars>>

\* The owner (a session or a connection) releases its queue.
ReleaseQueue ==
  /\ owned
  /\ owned' = FALSE
  /\ mCounter' = mCounter - 1
  /\ UNCHANGED <<queueVars, checkVars, mainQueue, threadVars, mCancelled,
                 added, outcomeVars>>

-----------------------------------------------------------------------------
\* The main thread: calls posted by the worker, in FIFO order.

Dispatch(call, t) ==
  /\ mainQueue # <<>>
  /\ Head(mainQueue) = [call |-> call, thread |-> t]
  /\ mainQueue' = Tail(mainQueue)

BeforeMain(t) ==
  /\ Dispatch("beforeMain", t)
  /\ GoTo(t, "main")
  /\ UNCHANGED <<queueVars, checkVars, mCounter, op, needsCheckRunning,
                 clientVars, outcomeVars>>

CallbackOnMainThread(t) ==
  /\ Dispatch("callbackOnMainThread", t)
  /\ called' = IF mCancelled[op[t]] THEN called ELSE Append(called, op[t])
  /\ GoTo(t, "check")
  /\ UNCHANGED <<queueVars, checkVars, mCounter, op, needsCheckRunning, ran,
                 clientVars>>

\* Mutants: the delayed call takes no reference; the reference of the delayed
\* call that is cancelled is not given back.
CheckRunningOnMainThread_NoRetain(t) ==
  /\ Dispatch("checkRunningOnMainThread", t)
  /\ checkTimers' = checkTimers - N(pendingCheckRunning) + 1
  /\ mCounter' = mCounter - N(pendingCheckRunning) - 1
  /\ pendingCheckRunning' = TRUE
  /\ UNCHANGED <<queueVars, threadVars, clientVars, outcomeVars>>

CheckRunningOnMainThread_NoRelease(t) ==
  /\ Dispatch("checkRunningOnMainThread", t)
  /\ checkTimers' = checkTimers - N(pendingCheckRunning) + 1
  /\ pendingCheckRunning' = TRUE
  /\ UNCHANGED <<mCounter, queueVars, threadVars, clientVars, outcomeVars>>

\* Retain (4) for the new delayed call; a call already pending is cancelled
\* and its (4) released; then (1) is released.
CheckRunningOnMainThread(t) ==
  /\ Dispatch("checkRunningOnMainThread", t)
  /\ checkTimers' = checkTimers - N(pendingCheckRunning) + 1
  /\ mCounter' = mCounter - N(pendingCheckRunning)
  /\ pendingCheckRunning' = TRUE
  /\ UNCHANGED <<queueVars, threadVars, clientVars, outcomeVars>>

\* mailsem_down(mStopSem) blocks the main thread until the worker posted it.
\* Releases (2) and (3); operations added meanwhile restart a thread.
StoppedOnMainThread(t) ==
  /\ Dispatch("stoppedOnMainThread", t)
  /\ mStopSem > 0
  /\ mStopSem' = mStopSem - 1
  /\ \/ /\ mOperations = <<>>
        /\ mStarted' = FALSE
        /\ mCounter' = mCounter - 2
        /\ GoTo(t, "dead")
        /\ UNCHANGED mQuitting
     \/ /\ mOperations # <<>>
        /\ StartThread([pc EXCEPT ![t] = "dead"], -2)
  /\ UNCHANGED <<mOperations, mOperationSem, checkVars, op, needsCheckRunning,
                 clientVars, outcomeVars>>

\* Mutant: the worker counts as stopped as soon as it is told to quit.
CheckRunningAfterDelay_ClearsStarted ==
  /\ checkTimers > 0
  /\ checkTimers' = checkTimers - 1
  /\ pendingCheckRunning' = FALSE
  /\ mCounter' = mCounter - 1
  /\ \/ /\ ~mQuitting /\ mOperations = <<>>
        /\ mOperationSem' = mOperationSem + 1
        /\ mQuitting' = TRUE
        /\ mStarted' = FALSE
     \/ /\ mQuitting \/ mOperations # <<>>
        /\ UNCHANGED <<mOperationSem, mQuitting, mStarted>>
  /\ UNCHANGED <<mOperations, mStopSem, mainQueue, threadVars, clientVars,
                 outcomeVars>>

\* The delayed call fires, one second or more after it was scheduled.
CheckRunningAfterDelay ==
  /\ checkTimers > 0
  /\ checkTimers' = checkTimers - 1
  /\ pendingCheckRunning' = FALSE
  /\ mCounter' = mCounter - 1
  /\ \/ /\ ~mQuitting /\ mOperations = <<>>
        /\ mOperationSem' = mOperationSem + 1
        /\ mQuitting' = TRUE
     \/ /\ mQuitting \/ mOperations # <<>>
        /\ UNCHANGED <<mOperationSem, mQuitting>>
  /\ UNCHANGED <<mOperations, mStarted, mStopSem, mainQueue, threadVars,
                 clientVars, outcomeVars>>

-----------------------------------------------------------------------------
\* A worker thread: one iteration of the loop of runOperations().

DownOperationSem(t) ==
  /\ pc[t] = "down"
  /\ mOperationSem > 0
  /\ mOperationSem' = mOperationSem - 1
  /\ GoTo(t, "peek")
  /\ UNCHANGED <<mOperations, mStarted, mStopSem, mQuitting, checkVars,
                 mCounter, mainQueue, op, needsCheckRunning, clientVars,
                 outcomeVars>>

\* Under mLock: read the head of the queue and mQuitting together.
PeekOperation(t) ==
  /\ pc[t] = "peek"
  /\ op' = [op EXCEPT ![t] = IF mOperations = <<>> THEN NULL
                                                   ELSE Head(mOperations)]
  /\ GoTo(t, IF mOperations = <<>> /\ mQuitting THEN "stopping" ELSE "before")
  /\ UNCHANGED <<queueVars, checkVars, mCounter, mainQueue, needsCheckRunning,
                 clientVars, outcomeVars>>

\* Retain (2), then wait for stoppedOnMainThread.
StopRunning(t) ==
  /\ pc[t] = "stopping"
  /\ mStopSem' = mStopSem + 1
  /\ mCounter' = mCounter + 1
  /\ Post("stoppedOnMainThread", t)
  /\ GoTo(t, "waitStopped")
  /\ UNCHANGED <<mOperations, mOperationSem, mStarted, mQuitting, checkVars,
                 op, needsCheckRunning, clientVars, outcomeVars>>

PostBeforeMain(t) ==
  /\ pc[t] = "before"
  /\ op[t] # NULL
  /\ Post("beforeMain", t)
  /\ GoTo(t, "waitBefore")
  /\ UNCHANGED <<queueVars, checkVars, mCounter, op, needsCheckRunning,
                 clientVars, outcomeVars>>

\* Mutant: a cancelled operation runs.
EnterMain_IgnoresCancel(t) ==
  /\ pc[t] = "main"
  /\ ran' = Append(ran, op[t])
  /\ GoTo(t, "running")
  /\ UNCHANGED <<queueVars, checkVars, mCounter, mainQueue, op,
                 needsCheckRunning, called, clientVars>>

\* A cancelled operation is skipped unless it should run when cancelled.
EnterMain(t) ==
  /\ pc[t] = "main"
  /\ \/ /\ ~mCancelled[op[t]] \/ op[t] \in RunWhenCancelled
        /\ ran' = Append(ran, op[t])
        /\ GoTo(t, "running")
     \/ /\ mCancelled[op[t]] /\ op[t] \notin RunWhenCancelled
        /\ GoTo(t, "remove")
        /\ UNCHANGED ran
  /\ UNCHANGED <<queueVars, checkVars, mCounter, mainQueue, op,
                 needsCheckRunning, called, clientVars>>

LeaveMain(t) ==
  /\ pc[t] = "running"
  /\ GoTo(t, "remove")
  /\ UNCHANGED <<queueVars, checkVars, mCounter, mainQueue, op,
                 needsCheckRunning, clientVars, outcomeVars>>

\* Under mLock: removeObjectAtIndex(0).
RemoveOperation(t) ==
  /\ pc[t] = "remove"
  /\ mOperations' = Tail(mOperations)
  /\ needsCheckRunning' =
       [needsCheckRunning EXCEPT ![t] = Tail(mOperations) = <<>>]
  /\ GoTo(t, "callback")
  /\ UNCHANGED <<mOperationSem, mStarted, mStopSem, mQuitting, checkVars,
                 mCounter, mainQueue, op, clientVars, outcomeVars>>

PostCallback(t) ==
  /\ pc[t] = "callback"
  /\ \/ /\ ~mCancelled[op[t]]
        /\ Post("callbackOnMainThread", t)
        /\ GoTo(t, "waitCallback")
     \/ /\ mCancelled[op[t]]
        /\ GoTo(t, "check")
        /\ UNCHANGED mainQueue
  /\ UNCHANGED <<queueVars, checkVars, mCounter, op, needsCheckRunning,
                 clientVars, outcomeVars>>

\* Retain (1), post the check without waiting for it; next iteration.
PostCheckRunning(t) ==
  /\ pc[t] = "check"
  /\ \/ /\ needsCheckRunning[t]
        /\ mCounter' = mCounter + 1
        /\ Post("checkRunningOnMainThread", t)
     \/ /\ ~needsCheckRunning[t]
        /\ UNCHANGED <<mCounter, mainQueue>>
  /\ op' = [op EXCEPT ![t] = NULL]
  /\ needsCheckRunning' = [needsCheckRunning EXCEPT ![t] = FALSE]
  /\ GoTo(t, "down")
  /\ UNCHANGED <<queueVars, checkVars, clientVars, outcomeVars>>

-----------------------------------------------------------------------------
Init ==
  /\ mOperations = <<>>
  /\ mOperationSem = 0
  /\ mStarted = FALSE
  /\ mStopSem = 0
  /\ mQuitting = FALSE
  /\ pendingCheckRunning = FALSE
  /\ checkTimers = 0
  /\ mCounter = 1
  /\ owned = TRUE
  /\ mainQueue = <<>>
  /\ pc = [t \in Threads |-> "dead"]
  /\ op = [t \in Threads |-> NULL]
  /\ needsCheckRunning = [t \in Threads |-> FALSE]
  /\ mCancelled = [o \in Operations |-> FALSE]
  /\ added = <<>> /\ ran = <<>> /\ called = <<>>

Client ==
  \/ \E o \in Operations : AddOperation(o) \/ Cancel(o)
  \/ CancelAllOperations
  \/ ReleaseQueue

MainThread(t) ==
  \/ BeforeMain(t)
  \/ CallbackOnMainThread(t)
  \/ CheckRunningOnMainThread(t)
  \/ StoppedOnMainThread(t)

Worker(t) ==
  \/ DownOperationSem(t)
  \/ PeekOperation(t)
  \/ StopRunning(t)
  \/ PostBeforeMain(t)
  \/ EnterMain(t)
  \/ LeaveMain(t)
  \/ RemoveOperation(t)
  \/ PostCallback(t)
  \/ PostCheckRunning(t)

Next ==
  \/ Client
  \/ \E t \in Threads : MainThread(t) \/ Worker(t)
  \/ CheckRunningAfterDelay

\* The run loop serves its queue and its timers, threads are scheduled, and
\* main() returns (network calls time out).  Nothing is assumed of clients.
Fairness ==
  /\ \A t \in Threads : WF_vars(MainThread(t)) /\ WF_vars(Worker(t))
  /\ WF_vars(CheckRunningAfterDelay)

Spec == Init /\ [][Next]_vars
FairSpec == Spec /\ Fairness

-----------------------------------------------------------------------------
TypeOK ==
  /\ mOperations \in Seq(Operations)
  /\ mOperationSem \in Nat
  /\ mStarted \in BOOLEAN
  /\ mStopSem \in Nat
  /\ mQuitting \in BOOLEAN
  /\ pendingCheckRunning \in BOOLEAN
  /\ checkTimers \in Nat
  /\ mCounter \in Int
  /\ owned \in BOOLEAN
  /\ mainQueue \in Seq([call : Calls, thread : Threads])
  /\ pc \in [Threads -> PCs]
  /\ op \in [Threads -> Operations \cup {NULL}]
  /\ needsCheckRunning \in [Threads -> BOOLEAN]
  /\ mCancelled \in [Operations -> BOOLEAN]
  /\ added \in Seq(Operations)
  /\ ran \in Seq(Operations)
  /\ called \in Seq(Operations)

-----------------------------------------------------------------------------
Live(t) == pc[t] # "dead"

\* "It's safe since no thread is running when this function is called"
\* (MCIMAPAsyncConnection.cpp:300, MCSMTPAsyncSession.cpp:200): queues are
\* configured without a lock while mStarted is false.  No two workers ever
\* serve one queue, and none is left when mStarted is false.
SingleWorker ==
  /\ \A t, u \in Threads : Live(t) /\ Live(u) => t = u
  /\ mStarted <=> \E t \in Threads : Live(t)

\* MCAssert(op != NULL) in runOperations: a worker that was woken and does not
\* stop has an operation, however additions, the delayed check, the quit
\* token and a restart interleave.
WokenWithOperation == \A t \in Threads : pc[t] = "before" => op[t] # NULL

\* Every retain of (1)-(4) has one release: the queue is never destroyed
\* while a thread runs, a call to it is posted or its delayed call is due.
AliveWhileUsed ==
  mStarted \/ mainQueue # <<>> \/ checkTimers > 0 \/ owned => mCounter > 0

\* ... and none is leaked: an abandoned queue is destroyed once it is idle.
AbandonedQueueIsFreed == ~owned ~> mCounter = 0

\* The callback of an operation that was added is made unless it was
\* cancelled, whatever the delayed check and the stopping of the thread are
\* doing when it is added.
EveryOperationAnswered ==
  \A o \in Operations :
    o \in Elements(added) ~> o \in Elements(called) \/ mCancelled[o]

-----------------------------------------------------------------------------
\* The queue implements the serial executor its clients rely on.
Phase(o) ==
  CASE o \notin Elements(added) -> "new"
    [] o \in Elements(mOperations) ->
         IF \E t \in Threads : op[t] = o /\ o \in Elements(ran)
         THEN "running" ELSE "waiting"
    [] o \in Elements(called) -> "called"
    [] OTHER ->
         IF \E t \in Threads : /\ op[t] = o
                               /\ o \in Elements(ran)
                               /\ pc[t] \in {"callback", "waitCallback"}
         THEN "finished" ELSE "dropped"

WorkerState ==
  CASE ~mStarted -> "none"
    [] \E t \in Threads : pc[t] \in {"stopping", "waitStopped"} -> "stopping"
    [] mStarted /\ mQuitting
         /\ \A t \in Threads : pc[t] \notin {"stopping", "waitStopped"} -> "quitting"
    [] OTHER -> "started"

Executor == INSTANCE SerialExecutor WITH
  waiting <- mOperations,
  phase <- [o \in Operations |-> Phase(o)],
  cancelled <- {o \in Operations : mCancelled[o]},
  worker <- WorkerState

ImplementsSerialExecutor == Executor!FairSpec
=============================================================================
