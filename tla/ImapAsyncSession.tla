-------------------------- MODULE ImapAsyncSession --------------------------
(***************************************************************************)
(* IMAPAsyncSession (src/async/imap/MCIMAPAsyncSession.cpp): a pool of     *)
(* IMAPAsyncConnection objects, each one libetpan session with an          *)
(* OperationQueue of its own.  An operation started by the client is given *)
(* to a connection chosen by folder and by load; a connection that stops   *)
(* working is disconnected half a minute later.                            *)
(*                                                                         *)
(* The session, the choice of a connection and every callback live on the  *)
(* main thread; each connection's queue is what SerialExecutor says, with  *)
(* worker[c] in its states and main() of the head running when inMain[c].  *)
(* A worker removes at most one operation before it waits for the main     *)
(* thread, so scanning the pool while workers run yields what an           *)
(* instantaneous scan yields before or after each removal: one step.       *)
(***************************************************************************)
EXTENDS Integers, Sequences, FiniteSets

CONSTANTS
  Folders,                         \* folders operations are started on
  INBOX,
  NULL,                            \* no folder
  MaximumConnections,              \* mMaximumConnections, 0 for no limit
  MaxOperations,                   \* bound: operations the client starts
  MaxCancels                       \* bound: cancellations by the client

ASSUME SessionAssumption ==
  /\ MaximumConnections \in Nat
  /\ MaxOperations \in Nat
  /\ MaxCancels \in Nat
  /\ NULL \notin Folders

VARIABLES
  mAllowsFolderConcurrentAccessEnabled,
  mSessions,       \* how many connections the pool holds: 1 .. mSessions
  mLastFolder,     \* per connection: the folder it was last chosen for
  mOperations,     \* per connection: its queue
  inMain,          \* per connection: the head of its queue is in main()
  worker,          \* per connection: the life of its queue's worker
  running,         \* per connection: mQueueRunning
  connected,       \* per connection: ~ mSession->isDisconnected()
  mScheduledAutomaticDisconnect,   \* per connection
  mQueueRunning,   \* the session's
  mCounter,        \* retain count of the session
  freed,           \* the count reached zero
  owned,           \* the client holds its reference
  started,         \* operations started so far
  cancels          \* cancellations so far

pool == <<mAllowsFolderConcurrentAccessEnabled, mSessions, mLastFolder>>
queueVars == <<mOperations, inMain, worker>>
runningVars == <<running, mQueueRunning>>
clientVars == <<owned, started, cancels>>
vars == <<pool, queueVars, runningVars, connected,
          mScheduledAutomaticDisconnect, mCounter, freed, clientVars>>

\* An unlimited pool opens one connection per operation at most.
Connections ==
  1 .. (IF MaximumConnections = 0 THEN MaxOperations ELSE MaximumConnections)
Sessions == 1 .. mSessions

Kinds == {"client", "disconnect"}
Operation == [kind : Kinds, folder : Folders \cup {NULL}, cancelled : BOOLEAN]
ClientOperation(folder) ==
  [kind |-> "client", folder |-> folder, cancelled |-> FALSE]
DisconnectOperation ==
  [kind |-> "disconnect", folder |-> NULL, cancelled |-> FALSE]

N(b) == IF b THEN 1 ELSE 0

TypeOK ==
  /\ mSessions \in Nat /\ Sessions \subseteq Connections
  /\ mLastFolder \in [Connections -> Folders \cup {NULL}]
  /\ mOperations \in [Connections -> Seq(Operation)]
  /\ inMain \in [Connections -> BOOLEAN]
  /\ worker \in [Connections -> {"none", "started", "quitting", "stopping"}]
  /\ running \in [Connections -> BOOLEAN]
  /\ connected \in [Connections -> BOOLEAN]
  /\ mScheduledAutomaticDisconnect \in [Connections -> BOOLEAN]
  /\ mQueueRunning \in BOOLEAN
  /\ mCounter \in Nat
  /\ freed \in BOOLEAN /\ owned \in BOOLEAN
  /\ started \in 0 .. MaxOperations /\ cancels \in 0 .. MaxCancels

Init ==
  /\ mAllowsFolderConcurrentAccessEnabled \in BOOLEAN
  /\ mSessions = 0
  /\ mLastFolder = [c \in Connections |-> NULL]
  /\ mOperations = [c \in Connections |-> <<>>]
  /\ inMain = [c \in Connections |-> FALSE]
  /\ worker = [c \in Connections |-> "none"]
  /\ running = [c \in Connections |-> FALSE]
  /\ connected = [c \in Connections |-> FALSE]
  /\ mScheduledAutomaticDisconnect = [c \in Connections |-> FALSE]
  /\ mQueueRunning = FALSE
  /\ mCounter = 1
  /\ freed = FALSE
  /\ owned = TRUE
  /\ started = 0
  /\ cancels = 0

-----------------------------------------------------------------------------
\* Choosing a connection.  A choice is a set with at most one member, empty
\* where the code's function returns NULL.

\* A connection that is yet to be created has an empty queue.
operationsCount(c) == IF c \in Sessions THEN Len(mOperations[c]) ELSE 0

\* Mutant: minOperationsCount is never updated, so the first match wins.
sessionWithMinQueue_First(S) == {c \in S : \A d \in S : c <= d}

\* The first connection with the fewest operations among those in S.
sessionWithMinQueue(S) ==
  {c \in S : \A d \in S : \/ operationsCount(c) < operationsCount(d)
                          \/ /\ operationsCount(c) = operationsCount(d)
                             /\ c <= d}

SelectedTo(folder) == {c \in Sessions : mLastFolder[c] = folder}
Empty(choice) == \A c \in choice : operationsCount(c) = 0

\* An idle connection, else a new one, else the least loaded.
availableSession ==
  LET chosen == sessionWithMinQueue(Sessions)
      full == MaximumConnections # 0 /\ mSessions >= MaximumConnections
  IN  IF (chosen # {} /\ Empty(chosen)) \/ full THEN chosen
      ELSE {mSessions + 1}

matchingSessionForFolder(folder) ==
  LET preferred ==
        IF folder = NULL THEN <<SelectedTo(NULL), SelectedTo(INBOX)>>
                         ELSE <<SelectedTo(folder), SelectedTo(NULL)>>
  IN  IF preferred[1] # {} THEN sessionWithMinQueue(preferred[1])
      ELSE IF preferred[2] # {} THEN sessionWithMinQueue(preferred[2])
      ELSE availableSession

\* Mutant: the test of mAllowsFolderConcurrentAccessEnabled is dropped.
sessionForFolder_IgnoresSetting(folder, urgent) ==
  LET selected == sessionWithMinQueue(SelectedTo(folder))
      available == availableSession
  IN  IF folder = NULL THEN matchingSessionForFolder(NULL)
      ELSE IF selected # {} /\ Empty(selected) THEN selected
      ELSE IF urgent /\ Empty(available) THEN available
      ELSE matchingSessionForFolder(folder)

sessionForFolder(folder, urgent) ==
  LET selected == sessionWithMinQueue(SelectedTo(folder))
      available == availableSession
  IN  IF folder = NULL THEN matchingSessionForFolder(NULL)
      ELSE IF selected # {} /\ Empty(selected) THEN selected
      ELSE IF /\ urgent /\ mAllowsFolderConcurrentAccessEnabled
              /\ Empty(available) THEN available
      ELSE matchingSessionForFolder(folder)

-----------------------------------------------------------------------------
\* The main thread: operations enter and leave the connections' queues.

\* Mutant: the connections are asked before the flag of the one that calls
\* is changed.
operationRunningStateChanged_Early(flags) ==
  mQueueRunning' = \E c \in Connections : running[c]

\* operationRunningStateChanged() after the connections' flags became flags:
\* the session's own flag follows, and the client is told when it changes.
operationRunningStateChanged(flags) ==
  mQueueRunning' = \E c \in Connections : flags[c]

\* runOperation() of each connection in C: a scheduled disconnect is called
\* off and its reference released; a queue at rest starts a worker, and
\* queueStartRunning() takes a reference to the session.
RunOperation(C, o, retains) ==
  LET starting == {c \in C : worker[c] = "none"}
      unscheduled == {c \in C : mScheduledAutomaticDisconnect[c]}
  IN  /\ mScheduledAutomaticDisconnect' =
           [c \in Connections |->
              mScheduledAutomaticDisconnect[c] /\ c \notin C]
      /\ mOperations' = [c \in Connections |->
                           IF c \in C THEN Append(mOperations[c], o)
                                      ELSE mOperations[c]]
      /\ worker' = [c \in Connections |->
                      IF c \in starting THEN "started" ELSE worker[c]]
      /\ running' = [c \in Connections |-> running[c] \/ c \in starting]
      /\ IF starting = {} THEN UNCHANGED mQueueRunning
                          ELSE operationRunningStateChanged(running')
      /\ mCounter' = mCounter + retains
                     + Cardinality(starting) - Cardinality(unscheduled)

\* IMAPOperation::start().  A queued client operation holds a reference to
\* the session, a disconnect operation only one to its connection.
StartOperation(folder, urgent) ==
  /\ owned /\ started < MaxOperations
  /\ started' = started + 1
  /\ \E c \in sessionForFolder(folder, urgent) :
       /\ mSessions' = IF c \in Sessions THEN mSessions ELSE c
       /\ mLastFolder' = IF folder = NULL THEN mLastFolder
                         ELSE [mLastFolder EXCEPT ![c] = folder]
       /\ RunOperation({c}, ClientOperation(folder), 1)
  /\ UNCHANGED <<mAllowsFolderConcurrentAccessEnabled, inMain, connected, freed,
                 owned, cancels>>

\* disconnectOperation()->start(): IMAPMultiDisconnectOperation starts one
\* disconnect operation per connection.
StartDisconnectOperation ==
  /\ owned /\ started < MaxOperations /\ mSessions > 0
  /\ started' = started + 1
  /\ RunOperation(Sessions, DisconnectOperation, 0)
  /\ UNCHANGED <<pool, inMain, connected, freed, owned,
                 cancels>>

\* Mutant: the reference taken with the timer is not released.
TryAutomaticDisconnectAfterDelay_NoRelease(c) ==
  /\ mScheduledAutomaticDisconnect[c]
  /\ RunOperation({c}, DisconnectOperation, 1)
  /\ UNCHANGED <<pool, inMain, connected, freed,
                 clientVars>>

\* The delayed call: the flag is cleared first, so starting the disconnect
\* operation calls nothing off; then the timer's reference is released.
TryAutomaticDisconnectAfterDelay(c) ==
  /\ mScheduledAutomaticDisconnect[c]
  /\ RunOperation({c}, DisconnectOperation, 0)
  /\ UNCHANGED <<pool, inMain, connected, freed,
                 clientVars>>

\* Operation::cancel() of a queued operation of the client's.
CancelOperation(c) ==
  /\ cancels < MaxCancels
  /\ cancels' = cancels + 1
  /\ \E i \in DOMAIN mOperations[c] :
       /\ mOperations[c][i].kind = "client"
       /\ mOperations' = [mOperations EXCEPT ![c][i].cancelled = TRUE]
  /\ UNCHANGED <<pool, inMain, worker, runningVars,
                 connected, mScheduledAutomaticDisconnect, mCounter, freed,
                 owned, started>>

CancelAllOperations ==
  /\ owned /\ cancels < MaxCancels
  /\ cancels' = cancels + 1
  /\ mOperations' = [c \in Connections |->
                       [i \in DOMAIN mOperations[c] |->
                          [mOperations[c][i] EXCEPT !.cancelled = TRUE]]]
  /\ UNCHANGED <<pool, inMain, worker, runningVars,
                 connected, mScheduledAutomaticDisconnect, mCounter, freed,
                 owned, started>>

ReleaseSession ==
  /\ owned
  /\ owned' = FALSE
  /\ mCounter' = mCounter - 1
  /\ freed' = (mCounter = 1)
  /\ UNCHANGED <<pool, queueVars, runningVars, connected,
                 mScheduledAutomaticDisconnect, started, cancels>>

-----------------------------------------------------------------------------
\* The connections' workers.

Serving(c) == worker[c] \in {"started", "quitting"}
Removed(c) == [mOperations EXCEPT ![c] = Tail(@)]

EnterMain(c) ==
  /\ Serving(c) /\ ~inMain[c]
  /\ mOperations[c] # <<>> /\ ~Head(mOperations[c]).cancelled
  /\ inMain' = [inMain EXCEPT ![c] = TRUE]
  /\ UNCHANGED <<pool, mOperations, worker, runningVars,
                 connected, mScheduledAutomaticDisconnect, mCounter, freed,
                 clientVars>>

\* main() returns and the operation leaves the queue.  A client operation
\* may have connected or lost the connection; disconnect() closes it.
LeaveMain(c) ==
  /\ inMain[c]
  /\ inMain' = [inMain EXCEPT ![c] = FALSE]
  /\ mOperations' = Removed(c)
  /\ \E up \in BOOLEAN :
       /\ up => Head(mOperations[c]).kind = "client"
       /\ connected' = [connected EXCEPT ![c] = up]
  /\ mCounter' = mCounter - N(Head(mOperations[c]).kind = "client")
  /\ UNCHANGED <<pool, worker, runningVars,
                 mScheduledAutomaticDisconnect, freed, clientVars>>

SkipCancelled(c) ==
  /\ Serving(c) /\ ~inMain[c]
  /\ mOperations[c] # <<>> /\ Head(mOperations[c]).cancelled
  /\ mOperations' = Removed(c)
  /\ mCounter' = mCounter - N(Head(mOperations[c]).kind = "client")
  /\ UNCHANGED <<pool, inMain, worker, runningVars,
                 connected, mScheduledAutomaticDisconnect, freed, clientVars>>

Moves(c, from, to) ==
  /\ worker[c] = from /\ ~inMain[c] /\ mOperations[c] = <<>>
  /\ worker' = [worker EXCEPT ![c] = to]
  /\ UNCHANGED <<pool, mOperations, inMain, runningVars,
                 connected, mScheduledAutomaticDisconnect, mCounter, freed,
                 clientVars>>

\* The queue's delayed check finds nothing to do; the worker decides to go.
CheckRunning(c) == Moves(c, "started", "quitting")
WorkerStops(c) == Moves(c, "quitting", "stopping")

\* Mutant: a session its client released needs no automatic disconnect.
tryAutomaticDisconnect_OnlyIfOwned(c) ==
  mScheduledAutomaticDisconnect[c] \/ (connected[c] /\ owned)

\* tryAutomaticDisconnect() reads a session no thread is using; a scheduled
\* disconnect is scheduled anew.
tryAutomaticDisconnect(c) == mScheduledAutomaticDisconnect[c] \/ connected[c]

\* Mutant: the timer takes no reference to the session.
retainsForDisconnect_None(c) == 0

retainsForDisconnect(c) ==
  N(tryAutomaticDisconnect(c)) - N(mScheduledAutomaticDisconnect[c])

\* Mutant: a queue that was given operations meanwhile stays stopped.
restarts_Never(c) == FALSE

restarts(c) == mOperations[c] # <<>>

\* stoppedOnMainThread() of the queue, with the whole of the connection's
\* queueStoppedRunning(): the timer's reference is taken, the worker's is
\* released (the session's last, perhaps), and a queue that was given
\* operations meanwhile is restarted, which takes it again.
StoppedOnMainThread(c) ==
  /\ worker[c] = "stopping"
  /\ mScheduledAutomaticDisconnect' =
       [mScheduledAutomaticDisconnect EXCEPT ![c] = tryAutomaticDisconnect(c)]
  /\ worker' = [worker EXCEPT ![c] = IF restarts(c) THEN "started" ELSE "none"]
  /\ running' = [running EXCEPT ![c] = restarts(c)]
  /\ operationRunningStateChanged(running')
  /\ LET left == mCounter - 1 + retainsForDisconnect(c)
     IN  mCounter' = left + N(restarts(c)) /\ freed' = (left = 0)
  /\ UNCHANGED <<pool, mOperations, inMain, connected,
                 clientVars>>

-----------------------------------------------------------------------------
\* The use of a freed session is undefined; the outcome taken here is that
\* nothing happens any more.
Alive == ~(freed /\ \E c \in Sessions : worker[c] # "none")

Client ==
  \/ \E folder \in Folders \cup {NULL}, urgent \in BOOLEAN :
       StartOperation(folder, urgent)
  \/ StartDisconnectOperation
  \/ \E c \in Sessions : CancelOperation(c)
  \/ CancelAllOperations
  \/ ReleaseSession

Worker(c) ==
  \/ EnterMain(c) \/ LeaveMain(c) \/ SkipCancelled(c)
  \/ CheckRunning(c) \/ WorkerStops(c) \/ StoppedOnMainThread(c)

Next ==
  /\ Alive
  /\ \/ Client
     \/ \E c \in Sessions : Worker(c) \/ TryAutomaticDisconnectAfterDelay(c)

Spec == Init /\ [][Next]_vars

\* Threads and the run loop are scheduled, main() returns (every command has
\* a timeout) and timers fire.  The client owes nothing.
Fairness ==
  \A c \in Connections :
    /\ WF_vars(Alive /\ c \in Sessions /\ Worker(c))
    /\ WF_vars(Alive /\ TryAutomaticDisconnectAfterDelay(c))

FairSpec == Spec /\ Fairness

-----------------------------------------------------------------------------
\* Properties.

\* The session's flag, which clients show as activity, is up exactly while
\* some connection has a worker, whatever order connections start and stop
\* in (operationRunningStateChanged; src/objc/imap/MCOIMAPSession.h:138).
RunningStateTruthful ==
  ~freed => (mQueueRunning <=> \E c \in Sessions : worker[c] # "none")

\* Every reference to the session is accounted for: the client's, one per
\* worker, one per scheduled disconnect, one per queued client operation.
RetainsBalanced ==
  LET queued(c) == {i \in DOMAIN mOperations[c] :
                      mOperations[c][i].kind = "client"}
      all == UNION {{<<c, i>> : i \in queued(c)} : c \in Sessions}
  IN  freed \/ mCounter = N(owned) + Cardinality(all)
                 + Cardinality({c \in Sessions : worker[c] # "none"})
                 + Cardinality({c \in Sessions :
                                  mScheduledAutomaticDisconnect[c]})

\* A session is only freed with every connection closed, nothing of the
\* client's queued and no delayed call outstanding: what remains in a queue
\* that outlives it can be a disconnect operation only (mOwner is a weak
\* pointer, and tryAutomaticDisconnectAfterDelay dereferences it).
FreedWhenDone ==
  freed => /\ ~owned
           /\ \A c \in Sessions :
                /\ ~connected[c] /\ ~mScheduledAutomaticDisconnect[c]
                /\ \A i \in DOMAIN mOperations[c] :
                     mOperations[c][i].kind = "disconnect"

\* A connection at rest that is still connected has its disconnect
\* scheduled, though workers stop, restart and are swept at any moment
\* (tryAutomaticDisconnect, runOperation).
NoConnectionLeftOpen ==
  \A c \in Sessions :
    connected[c] /\ worker[c] = "none" => mScheduledAutomaticDisconnect[c]

RunningOn(folder) ==
  {c \in Sessions : inMain[c] /\ Head(mOperations[c]).folder = folder}

\* A queue restarted for the operations that were added while its thread was
\* quitting (MCOperationQueue.cpp:239) has a session to call: its callback
\* goes through mOwner, which it does not retain.
RestartHasItsSession ==
  \A c \in Sessions : worker[c] = "started" => ~freed

\* Unless concurrent access to folders is allowed, no two connections work
\* on one folder at once (src/objc/imap/MCOIMAPSession.h:106).
OneConnectionPerFolder ==
  mAllowsFolderConcurrentAccessEnabled
  \/ \A folder \in Folders : Cardinality(RunningOn(folder)) <= 1

\* An urgent operation waits for another only when the pool is full and
\* every connection has work (sessionForFolder, availableSession).
UrgentWaitsOnlyWhenFull ==
  mAllowsFolderConcurrentAccessEnabled =>
    \A folder \in Folders :
      \/ Empty(sessionForFolder(folder, TRUE))
      \/ /\ mSessions = MaximumConnections
         /\ \A c \in Sessions : operationsCount(c) > 0

\* A connection once opened is eventually closed, and every queued operation
\* leaves its queue, the client having stopped starting operations: no sweep,
\* restart or failure loses the disconnect or strands a queue, unless the
\* session is freed under it (see RestartHasItsSession).
ConnectionsComeToRest ==
  \A c \in Connections :
    /\ connected[c] ~> ~connected[c]
    /\ mOperations[c] # <<>> ~> mOperations[c] = <<>> \/ freed

\* A session its client has released is eventually freed.
ReleasedSessionIsFreed == ~owned ~> freed
=============================================================================
