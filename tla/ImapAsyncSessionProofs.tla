----------------------- MODULE ImapAsyncSessionProofs -----------------------
(***************************************************************************)
(* Proofs about the pool of connections, for any set of folders, any       *)
(* limit of the pool, none included, and any number of operations.         *)
(***************************************************************************)
EXTENDS ImapAsyncSession, FiniteSetTheorems, TLAPS

Limit == IF MaximumConnections = 0 THEN MaxOperations ELSE MaximumConnections

\* TypeOK, but for the sign of the reference count, which is what the
\* balance below says of it; and how large an unlimited pool may be.
Types ==
  /\ mSessions \in Nat /\ mSessions <= Limit
  /\ MaximumConnections = 0 => mSessions <= started
  /\ mLastFolder \in [Connections -> Folders \cup {NULL}]
  /\ mOperations \in [Connections -> Seq(Operation)]
  /\ inMain \in [Connections -> BOOLEAN]
  /\ worker \in [Connections -> {"none", "started", "quitting", "stopping"}]
  /\ running \in [Connections -> BOOLEAN]
  /\ connected \in [Connections -> BOOLEAN]
  /\ mScheduledAutomaticDisconnect \in [Connections -> BOOLEAN]
  /\ mQueueRunning \in BOOLEAN
  /\ mCounter \in Int
  /\ freed \in BOOLEAN /\ owned \in BOOLEAN
  /\ started \in 0 .. MaxOperations /\ cancels \in 0 .. MaxCancels

LEMMA LimitFacts ==
  /\ Limit \in Nat
  /\ Connections = 1 .. Limit
  /\ \A c \in Connections : c \in Nat
BY SessionAssumption DEF Limit, Connections

LEMMA OperationFacts ==
  /\ \A folder \in Folders \cup {NULL} : ClientOperation(folder) \in Operation
  /\ DisconnectOperation \in Operation
  /\ \A o \in Operation : [o EXCEPT !.cancelled = TRUE] \in Operation
BY DEF ClientOperation, DisconnectOperation, Operation, Kinds

LEMMA QueueFacts ==
  ASSUME NEW q \in Seq(Operation)
  PROVE  /\ Len(q) \in Nat /\ DOMAIN q = 1 .. Len(q)
         /\ \A i \in 1 .. Len(q) : q[i] \in Operation
         /\ q = <<>> <=> Len(q) = 0
OBVIOUS

LEMMA AppendFacts ==
  ASSUME NEW q \in Seq(Operation), NEW o \in Operation
  PROVE  /\ Append(q, o) \in Seq(Operation) /\ Append(q, o) # <<>>
         /\ Len(Append(q, o)) = Len(q) + 1
         /\ \A i \in 1 .. Len(q) : Append(q, o)[i] = q[i]
         /\ Append(q, o)[Len(q) + 1] = o
OBVIOUS

LEMMA TailFacts ==
  ASSUME NEW q \in Seq(Operation), q # <<>>
  PROVE  /\ Tail(q) \in Seq(Operation) /\ Head(q) = q[1]
         /\ 1 \in DOMAIN q
         /\ Len(Tail(q)) = Len(q) - 1
         /\ \A i \in 1 .. Len(q) - 1 : Tail(q)[i] = q[i + 1]
OBVIOUS

LEMMA SessionsFacts ==
  ASSUME Types
  PROVE  /\ Sessions \subseteq Connections
         /\ \A c \in Sessions : c \in Nat /\ c <= mSessions
BY LimitFacts DEF Types, Sessions

LEMMA AvailableFacts ==
  ASSUME Types, started < MaxOperations, NEW c \in availableSession
  PROVE  /\ c \in Connections
         /\ c \in Sessions \/ c = mSessions + 1
<1>1. CASE c \in Sessions
  BY <1>1, SessionsFacts
<1>2. CASE c \notin Sessions
  <2>1. /\ c = mSessions + 1
        /\ ~(MaximumConnections # 0 /\ mSessions >= MaximumConnections)
    BY <1>2 DEF availableSession, sessionWithMinQueue
  <2>2. mSessions + 1 \in 1 .. Limit
    BY <2>1, SessionAssumption DEF Types, Limit
  <2> QED
    BY <2>1, <2>2, LimitFacts
<1> QED
  BY <1>1, <1>2

\* The connection chosen for an operation is in the pool, or the next to be
\* created, for which there is room.
LEMMA ChoiceFacts ==
  ASSUME Types, started < MaxOperations,
         NEW folder, NEW urgent, NEW c \in sessionForFolder(folder, urgent)
  PROVE  /\ c \in Connections
         /\ c \in Sessions \/ c = mSessions + 1
<1>1. \A S : sessionWithMinQueue(S) \subseteq S
  BY DEF sessionWithMinQueue
<1>2. \A f : SelectedTo(f) \subseteq Sessions
  BY DEF SelectedTo
<1>3. \A f : matchingSessionForFolder(f) \subseteq Sessions \cup availableSession
  BY <1>1, <1>2 DEF matchingSessionForFolder
<1>4. c \in Sessions \cup availableSession
  BY <1>1, <1>2, <1>3 DEF sessionForFolder
<1> QED
  BY <1>4, AvailableFacts, SessionsFacts

LEMMA RunOperationTypes ==
  ASSUME Types, NEW C \in SUBSET Connections, NEW o \in Operation,
         NEW retains \in Int, RunOperation(C, o, retains)
  PROVE  /\ mOperations' \in [Connections -> Seq(Operation)]
         /\ worker' \in [Connections -> {"none", "started", "quitting", "stopping"}]
         /\ running' \in [Connections -> BOOLEAN]
         /\ mScheduledAutomaticDisconnect' \in [Connections -> BOOLEAN]
         /\ mQueueRunning' \in BOOLEAN
         /\ mCounter' \in Int
<1> DEFINE starting == {c \in C : worker[c] = "none"}
           unscheduled == {c \in C : mScheduledAutomaticDisconnect[c]}
<1>1. IsFiniteSet(Connections)
  BY LimitFacts, FS_Interval
<1>2. starting \in SUBSET Connections /\ unscheduled \in SUBSET Connections
  OBVIOUS
<1>3. Cardinality(starting) \in Nat /\ Cardinality(unscheduled) \in Nat
  BY <1>1, <1>2, FS_Subset, FS_CardinalityType
<1>4. mOperations' \in [Connections -> Seq(Operation)]
  BY DEF RunOperation, Types
<1>5. worker' \in [Connections -> {"none", "started", "quitting", "stopping"}]
  BY DEF RunOperation, Types
<1>6. /\ running' \in [Connections -> BOOLEAN]
      /\ mScheduledAutomaticDisconnect' \in [Connections -> BOOLEAN]
      /\ mQueueRunning' \in BOOLEAN
  BY Zenon DEF RunOperation, Types, operationRunningStateChanged
<1>7. mCounter' \in Int
  BY <1>3 DEF RunOperation, Types
<1> QED
  BY <1>4, <1>5, <1>6, <1>7

\* Cancelling an operation changes nothing else of its queue.
LEMMA CancelledQueue ==
  ASSUME NEW q \in Seq(Operation)
  PROVE  /\ [i \in DOMAIN q |-> [q[i] EXCEPT !.cancelled = TRUE]] \in Seq(Operation)
         /\ \A i \in DOMAIN q :
              [q EXCEPT ![i] = [q[i] EXCEPT !.cancelled = TRUE]] \in Seq(Operation)
BY OperationFacts

LEMMA TypesInit == Init => Types
<1> SUFFICES ASSUME Init PROVE Types
  OBVIOUS
<1>1. /\ mSessions \in Nat /\ mSessions <= Limit /\ mSessions <= started
      /\ mCounter \in Int
      /\ started \in 0 .. MaxOperations /\ cancels \in 0 .. MaxCancels
  BY SessionAssumption, LimitFacts DEF Init
<1>2. /\ mLastFolder \in [Connections -> Folders \cup {NULL}]
      /\ mOperations \in [Connections -> Seq(Operation)]
      /\ inMain \in [Connections -> BOOLEAN]
      /\ worker \in [Connections -> {"none", "started", "quitting", "stopping"}]
  BY DEF Init
<1>3. /\ running \in [Connections -> BOOLEAN]
      /\ connected \in [Connections -> BOOLEAN]
      /\ mScheduledAutomaticDisconnect \in [Connections -> BOOLEAN]
      /\ mQueueRunning \in BOOLEAN /\ freed \in BOOLEAN /\ owned \in BOOLEAN
  BY DEF Init
<1> QED
  BY <1>1, <1>2, <1>3 DEF Types

\* main() runs under a worker that is serving, for the head of its queue.
InMainServes ==
  \A c \in Connections : inMain[c] => Serving(c) /\ mOperations[c] # <<>>

LEMMA TypesNext == Types /\ InMainServes /\ [Next]_vars => Types'
<1> SUFFICES ASSUME Types, InMainServes, [Next]_vars PROVE Types'
  OBVIOUS
<1> USE SessionAssumption
<1>1. ASSUME NEW folder \in Folders \cup {NULL}, NEW urgent \in BOOLEAN,
             StartOperation(folder, urgent)
      PROVE  Types'
  <2>1. PICK c \in sessionForFolder(folder, urgent) :
          /\ mSessions' = IF c \in Sessions THEN mSessions ELSE c
          /\ mLastFolder' = IF folder = NULL THEN mLastFolder
                            ELSE [mLastFolder EXCEPT ![c] = folder]
          /\ RunOperation({c}, ClientOperation(folder), 1)
    BY <1>1 DEF StartOperation
  <2>2. started < MaxOperations
    BY <1>1 DEF StartOperation
  <2>3. /\ c \in Connections
        /\ c \in Sessions \/ c = mSessions + 1
    BY <2>2, ChoiceFacts
  <2>4. {c} \in SUBSET Connections /\ ClientOperation(folder) \in Operation
    BY <2>3, OperationFacts
  <2>5. /\ mOperations' \in [Connections -> Seq(Operation)]
        /\ worker' \in [Connections -> {"none", "started", "quitting", "stopping"}]
        /\ running' \in [Connections -> BOOLEAN]
        /\ mScheduledAutomaticDisconnect' \in [Connections -> BOOLEAN]
        /\ mQueueRunning' \in BOOLEAN
        /\ mCounter' \in Int
    <3> DEFINE C == {c}
    <3>1. /\ C \in SUBSET Connections /\ 1 \in Int
          /\ RunOperation(C, ClientOperation(folder), 1)
      BY <2>1, <2>4
    <3> HIDE DEF C
    <3> QED
      BY <2>4, <3>1, RunOperationTypes, Zenon
  <2>6. /\ mSessions' \in Nat /\ mSessions' <= Limit
        /\ MaximumConnections = 0 => mSessions' <= started'
        /\ started' \in 0 .. MaxOperations
    BY <1>1, <2>1, <2>2, <2>3, LimitFacts DEF Types, StartOperation
  <2>7. mLastFolder' \in [Connections -> Folders \cup {NULL}]
    BY <2>1, <2>3 DEF Types
  <2> QED
    BY <1>1, <2>5, <2>6, <2>7 DEF Types, StartOperation
<1>2. CASE StartDisconnectOperation
  <2>1. /\ Sessions \in SUBSET Connections /\ DisconnectOperation \in Operation
        /\ 0 \in Int
    BY SessionsFacts, OperationFacts
  <2>2. RunOperation(Sessions, DisconnectOperation, 0)
    BY <1>2 DEF StartDisconnectOperation
  <2>3. /\ mOperations' \in [Connections -> Seq(Operation)]
        /\ worker' \in [Connections -> {"none", "started", "quitting", "stopping"}]
        /\ running' \in [Connections -> BOOLEAN]
        /\ mScheduledAutomaticDisconnect' \in [Connections -> BOOLEAN]
        /\ mQueueRunning' \in BOOLEAN
        /\ mCounter' \in Int
    BY <2>1, <2>2, RunOperationTypes, Zenon
  <2> QED
    BY <1>2, <2>3 DEF Types, StartDisconnectOperation, pool
<1>3. ASSUME NEW c \in Connections, TryAutomaticDisconnectAfterDelay(c)
      PROVE  Types'
  <2>1. {c} \in SUBSET Connections /\ DisconnectOperation \in Operation
    BY OperationFacts
  <2>2. RunOperation({c}, DisconnectOperation, 0)
    BY <1>3 DEF TryAutomaticDisconnectAfterDelay
  <2>3. /\ mOperations' \in [Connections -> Seq(Operation)]
        /\ worker' \in [Connections -> {"none", "started", "quitting", "stopping"}]
        /\ running' \in [Connections -> BOOLEAN]
        /\ mScheduledAutomaticDisconnect' \in [Connections -> BOOLEAN]
        /\ mQueueRunning' \in BOOLEAN
        /\ mCounter' \in Int
    <3> DEFINE C == {c}
    <3>1. /\ C \in SUBSET Connections /\ 0 \in Int
          /\ RunOperation(C, DisconnectOperation, 0)
      BY <2>1, <2>2
    <3> HIDE DEF C
    <3> QED
      BY <2>1, <3>1, RunOperationTypes, Zenon
  <2> QED
    BY <1>3, <2>3 DEF Types, TryAutomaticDisconnectAfterDelay, pool, clientVars
<1>4. ASSUME NEW c \in Connections, CancelOperation(c)
      PROVE  Types'
  <2>1. PICK i \in DOMAIN mOperations[c] :
          mOperations' = [mOperations EXCEPT ![c][i].cancelled = TRUE]
    BY <1>4 DEF CancelOperation
  <2>2. [mOperations[c] EXCEPT ![i] = [mOperations[c][i] EXCEPT !.cancelled = TRUE]]
           \in Seq(Operation)
    BY CancelledQueue DEF Types
  <2>3. mOperations' \in [Connections -> Seq(Operation)]
    BY <2>1, <2>2 DEF Types
  <2> QED
    BY <1>4, <2>3 DEF Types, CancelOperation, pool, runningVars
<1>5. CASE CancelAllOperations
  <2>1. \A c \in Connections :
          [i \in DOMAIN mOperations[c] |->
             [mOperations[c][i] EXCEPT !.cancelled = TRUE]] \in Seq(Operation)
    BY CancelledQueue DEF Types
  <2>2. mOperations' \in [Connections -> Seq(Operation)]
    BY <1>5, <2>1 DEF CancelAllOperations
  <2> QED
    BY <1>5, <2>2 DEF Types, CancelAllOperations, pool, runningVars
<1>6. CASE ReleaseSession
  <2>1. freed' \in BOOLEAN /\ owned' \in BOOLEAN
    BY <1>6, Zenon DEF ReleaseSession
  <2>2. mCounter' \in Int
    BY <1>6 DEF Types, ReleaseSession
  <2> QED
    BY <1>6, <2>1, <2>2 DEF Types, ReleaseSession, pool, queueVars, runningVars
<1>7. ASSUME NEW c \in Connections, EnterMain(c)
      PROVE  Types'
  BY <1>7 DEF Types, EnterMain, pool, runningVars, clientVars
<1>8. ASSUME NEW c \in Connections, mOperations[c] # <<>>,
             mOperations' = Removed(c)
      PROVE  mOperations' \in [Connections -> Seq(Operation)]
  BY <1>8 DEF Types, Removed
<1>9. ASSUME NEW c \in Connections, NEW b \in BOOLEAN, mCounter' = mCounter - N(b)
      PROVE  mCounter' \in Int
  BY <1>9 DEF Types, N
<1>10. ASSUME NEW c \in Connections, LeaveMain(c), mOperations[c] # <<>>
       PROVE  Types'
  <2>1. mOperations' \in [Connections -> Seq(Operation)] /\ mCounter' \in Int
    BY <1>8, <1>9, <1>10 DEF LeaveMain
  <2> QED
    BY <1>10, <2>1 DEF Types, LeaveMain, pool, runningVars, clientVars
<1>11. ASSUME NEW c \in Connections, SkipCancelled(c)
       PROVE  Types'
  <2>1. mOperations' \in [Connections -> Seq(Operation)] /\ mCounter' \in Int
    BY <1>8, <1>9, <1>11 DEF SkipCancelled
  <2> QED
    BY <1>11, <2>1 DEF Types, SkipCancelled, pool, runningVars, clientVars
<1>12. ASSUME NEW c \in Connections, CheckRunning(c) \/ WorkerStops(c)
       PROVE  Types'
  BY <1>12 DEF Types, CheckRunning, WorkerStops, Moves, pool, runningVars, clientVars
<1>13. ASSUME NEW c \in Connections, StoppedOnMainThread(c)
       PROVE  Types'
  <2>1. /\ mScheduledAutomaticDisconnect' \in [Connections -> BOOLEAN]
        /\ running' \in [Connections -> BOOLEAN]
        /\ mQueueRunning' \in BOOLEAN
        /\ freed' \in BOOLEAN
    BY <1>13, Zenon DEF Types, StoppedOnMainThread, restarts, tryAutomaticDisconnect,
                        operationRunningStateChanged
  <2>2. worker' \in [Connections -> {"none", "started", "quitting", "stopping"}]
    BY <1>13 DEF Types, StoppedOnMainThread
  <2>3. mCounter' \in Int
    BY <1>13 DEF Types, StoppedOnMainThread, retainsForDisconnect, N
  <2> QED
    BY <1>13, <2>1, <2>2, <2>3 DEF Types, StoppedOnMainThread, pool, clientVars
<1>14. CASE UNCHANGED vars
  BY <1>14 DEF Types, vars, pool, queueVars, runningVars, clientVars
<1>15. ASSUME NEW c \in Sessions, Worker(c) \/ TryAutomaticDisconnectAfterDelay(c)
       PROVE  Types'
  <2>1. c \in Connections
    BY SessionsFacts
  <2>2. inMain[c] => mOperations[c] # <<>>
    BY <2>1 DEF InMainServes
  <2>3. CASE LeaveMain(c)
    BY <1>10, <2>1, <2>2, <2>3 DEF LeaveMain
  <2> QED
    BY <1>3, <1>7, <1>11, <1>12, <1>13, <1>15, <2>1, <2>3 DEF Worker
<1> QED
  BY <1>1, <1>2, <1>4, <1>5, <1>6, <1>14, <1>15, SessionsFacts DEF Next, Client

-----------------------------------------------------------------------------
\* The life of the connections: a worker per running flag, a serving worker
\* per main(), a scheduled disconnect per connection left open; what is not
\* in the pool yet is at rest.
ControlInv ==
  /\ InMainServes
  /\ \A c \in Connections : running[c] <=> worker[c] # "none"
  /\ mQueueRunning <=> \E c \in Connections : running[c]
  /\ \A c \in Connections :
       connected[c] /\ worker[c] = "none" => mScheduledAutomaticDisconnect[c]
  /\ \A c \in Connections \ Sessions :
       /\ worker[c] = "none" /\ mOperations[c] = <<>>
       /\ ~connected[c] /\ ~mScheduledAutomaticDisconnect[c]

LEMMA RunOperationEffect ==
  ASSUME Types, NEW C \in SUBSET Connections, NEW o \in Operation, NEW retains,
         RunOperation(C, o, retains)
  PROVE  /\ \A c \in Connections :
              /\ worker'[c] = IF c \in C /\ worker[c] = "none" THEN "started"
                                                               ELSE worker[c]
              /\ running'[c] <=> running[c] \/ (c \in C /\ worker[c] = "none")
              /\ mScheduledAutomaticDisconnect'[c]
                   <=> mScheduledAutomaticDisconnect[c] /\ c \notin C
              /\ mOperations'[c] = IF c \in C THEN Append(mOperations[c], o)
                                              ELSE mOperations[c]
         /\ (\A c \in C : worker[c] # "none") => mQueueRunning' = mQueueRunning
         /\ (\E c \in C : worker[c] = "none")
              => (mQueueRunning' <=> \E c \in Connections : running'[c])
<1>1. \A c \in Connections :
        /\ worker'[c] = IF c \in C /\ worker[c] = "none" THEN "started"
                                                         ELSE worker[c]
        /\ mOperations'[c] = IF c \in C THEN Append(mOperations[c], o)
                                        ELSE mOperations[c]
  BY DEF RunOperation
<1>2. ASSUME NEW c \in Connections
      PROVE  /\ running'[c] <=> running[c] \/ (c \in C /\ worker[c] = "none")
             /\ mScheduledAutomaticDisconnect'[c]
                  <=> mScheduledAutomaticDisconnect[c] /\ c \notin C
  BY Zenon DEF RunOperation
<1>3. /\ (\A c \in C : worker[c] # "none") => mQueueRunning' = mQueueRunning
      /\ (\E c \in C : worker[c] = "none")
           => (mQueueRunning' <=> \E c \in Connections : running'[c])
  <2>1. CASE \A c \in C : worker[c] # "none"
    BY <2>1 DEF RunOperation
  <2>2. CASE \E c \in C : worker[c] = "none"
    <3>1. {c \in C : worker[c] = "none"} # {}
      BY <2>2
    <3>2. operationRunningStateChanged(running')
      BY <3>1 DEF RunOperation
    <3> QED
      BY <2>2, <3>2, Zenon DEF operationRunningStateChanged
  <2> QED
    BY <2>1, <2>2
<1> QED
  BY <1>1, <1>2, <1>3

LEMMA RunOperationControl ==
  ASSUME Types, ControlInv,
         NEW C \in SUBSET Connections, NEW o \in Operation, NEW retains,
         RunOperation(C, o, retains), UNCHANGED <<inMain, connected>>,
         Sessions \subseteq Sessions', C \subseteq Sessions'
  PROVE  ControlInv'
<1> DEFINE Effect(c) ==
      /\ worker'[c] = IF c \in C /\ worker[c] = "none" THEN "started"
                                                       ELSE worker[c]
      /\ running'[c] <=> running[c] \/ (c \in C /\ worker[c] = "none")
      /\ mScheduledAutomaticDisconnect'[c]
           <=> mScheduledAutomaticDisconnect[c] /\ c \notin C
      /\ mOperations'[c] = IF c \in C THEN Append(mOperations[c], o)
                                      ELSE mOperations[c]
<1>1. \A c \in Connections : Effect(c)
  BY RunOperationEffect
<1>2. /\ (\A c \in C : worker[c] # "none") => mQueueRunning' = mQueueRunning
      /\ (\E c \in C : worker[c] = "none")
           => (mQueueRunning' <=> \E c \in Connections : running'[c])
  BY RunOperationEffect
<1>3. ASSUME NEW c \in Connections
      PROVE  mOperations[c] # <<>> => mOperations'[c] # <<>>
  <2>1. mOperations[c] \in Seq(Operation)
    BY DEF Types
  <2>2. Append(mOperations[c], o) # <<>>
    BY <2>1, AppendFacts
  <2> QED
    BY <1>1, <2>2
<1>4. InMainServes'
  BY <1>1, <1>3 DEF ControlInv, InMainServes, Serving
<1>5. \A c \in Connections : running'[c] <=> worker'[c] # "none"
  BY <1>1 DEF ControlInv
<1>6. mQueueRunning' <=> \E c \in Connections : running'[c]
  <2>1. CASE \E c \in C : worker[c] = "none"
    BY <1>2, <2>1
  <2>2. CASE \A c \in C : worker[c] # "none"
    <3>1. \A c \in Connections : running'[c] <=> running[c]
      BY <1>1, <2>2
    <3> QED
      BY <1>2, <2>2, <3>1 DEF ControlInv
  <2> QED
    BY <2>1, <2>2
<1>7. \A c \in Connections :
        connected'[c] /\ worker'[c] = "none" => mScheduledAutomaticDisconnect'[c]
  BY <1>1 DEF ControlInv
<1>8. \A c \in Connections \ Sessions' :
        /\ worker'[c] = "none" /\ mOperations'[c] = <<>>
        /\ ~connected'[c] /\ ~mScheduledAutomaticDisconnect'[c]
  BY <1>1 DEF ControlInv
<1> QED
  BY <1>4, <1>5, <1>6, <1>7, <1>8 DEF ControlInv

LEMMA ControlInit == Init => ControlInv
BY Zenon DEF Init, ControlInv, InMainServes

\* Removing the head of its queue makes a connection forget nothing else.
LEMMA RemovedFacts ==
  ASSUME Types, NEW c \in Connections, mOperations' = Removed(c)
  PROVE  \A d \in Connections :
           mOperations'[d] = IF d = c THEN Tail(mOperations[c]) ELSE mOperations[d]
BY DEF Types, Removed

\* A cancellation changes no operation's kind or folder.
SameButCancelled ==
  \A c \in Connections :
    /\ DOMAIN mOperations'[c] = DOMAIN mOperations[c]
    /\ \A i \in DOMAIN mOperations[c] :
         /\ mOperations'[c][i].kind = mOperations[c][i].kind
         /\ mOperations'[c][i].folder = mOperations[c][i].folder

LEMMA CancelledFacts ==
  ASSUME Types, NEW d \in Connections, CancelOperation(d) \/ CancelAllOperations
  PROVE  /\ SameButCancelled
         /\ UNCHANGED <<pool, inMain, worker, runningVars, connected,
                        mScheduledAutomaticDisconnect, mCounter, freed, owned,
                        started>>
<1>1. CASE CancelOperation(d)
  <2>1. PICK i \in DOMAIN mOperations[d] :
          mOperations' = [mOperations EXCEPT ![d][i].cancelled = TRUE]
    BY <1>1 DEF CancelOperation
  <2>2. mOperations[d] \in Seq(Operation)
    BY DEF Types
  <2>3. mOperations[d][i] \in Operation
    BY <2>2, QueueFacts
  <2>4. ASSUME NEW c \in Connections
        PROVE  /\ DOMAIN mOperations'[c] = DOMAIN mOperations[c]
               /\ \A j \in DOMAIN mOperations[c] :
                    /\ mOperations'[c][j].kind = mOperations[c][j].kind
                    /\ mOperations'[c][j].folder = mOperations[c][j].folder
    BY <2>1, <2>3 DEF Types, Operation
  <2> QED
    BY <1>1, <2>4 DEF CancelOperation, SameButCancelled
<1>2. CASE CancelAllOperations
  <2>1. ASSUME NEW c \in Connections, NEW j \in DOMAIN mOperations[c]
        PROVE  /\ mOperations'[c][j].kind = mOperations[c][j].kind
               /\ mOperations'[c][j].folder = mOperations[c][j].folder
    <3>1. mOperations[c] \in Seq(Operation)
      BY DEF Types
    <3>2. mOperations[c][j] \in Operation
      BY <3>1, QueueFacts
    <3>3. mOperations'[c][j] = [mOperations[c][j] EXCEPT !.cancelled = TRUE]
      BY <1>2 DEF CancelAllOperations
    <3> QED
      BY <3>2, <3>3 DEF Operation
  <2>2. \A c \in Connections : DOMAIN mOperations'[c] = DOMAIN mOperations[c]
    BY <1>2 DEF CancelAllOperations
  <2> QED
    BY <1>2, <2>1, <2>2 DEF CancelAllOperations, SameButCancelled
<1> QED
  BY <1>1, <1>2

\* What StartOperation does to the connection it chooses.
LEMMA StartFacts ==
  ASSUME Types, NEW folder \in Folders \cup {NULL}, NEW urgent \in BOOLEAN,
         StartOperation(folder, urgent)
  PROVE  \E c \in sessionForFolder(folder, urgent) :
           /\ c \in Connections /\ c \in Sessions'
           /\ Sessions \subseteq Sessions'
           /\ Sessions' \subseteq Sessions \cup {c}
           /\ RunOperation({c}, ClientOperation(folder), 1)
           /\ mLastFolder' = IF folder = NULL THEN mLastFolder
                             ELSE [mLastFolder EXCEPT ![c] = folder]
<1>1. PICK c \in sessionForFolder(folder, urgent) :
        /\ mSessions' = IF c \in Sessions THEN mSessions ELSE c
        /\ mLastFolder' = IF folder = NULL THEN mLastFolder
                          ELSE [mLastFolder EXCEPT ![c] = folder]
        /\ RunOperation({c}, ClientOperation(folder), 1)
  BY DEF StartOperation
<1>2. started < MaxOperations
  BY DEF StartOperation
<1>3. /\ c \in Connections
      /\ c \in Sessions \/ c = mSessions + 1
  BY <1>2, ChoiceFacts
<1>4. /\ c \in Sessions' /\ Sessions \subseteq Sessions'
      /\ Sessions' \subseteq Sessions \cup {c}
  <2>1. CASE c \in Sessions
    BY <1>1, <2>1 DEF Sessions
  <2>2. CASE c \notin Sessions
    BY <1>1, <1>3, <2>2 DEF Sessions, Types
  <2> QED
    BY <2>1, <2>2
<1> QED
  BY <1>1, <1>3, <1>4

LEMMA ControlNext == Types /\ ControlInv /\ [Next]_vars => ControlInv'
<1> SUFFICES ASSUME Types, ControlInv, [Next]_vars PROVE ControlInv'
  OBVIOUS
<1>1. ASSUME NEW folder \in Folders \cup {NULL}, NEW urgent \in BOOLEAN,
             StartOperation(folder, urgent)
      PROVE  ControlInv'
  <2>1. PICK c \in Connections :
          /\ c \in Sessions' /\ Sessions \subseteq Sessions'
          /\ RunOperation({c}, ClientOperation(folder), 1)
    BY <1>1, StartFacts
  <2> DEFINE C == {c}
  <2>2. /\ C \in SUBSET Connections /\ C \subseteq Sessions'
        /\ RunOperation(C, ClientOperation(folder), 1)
    BY <2>1
  <2>3. UNCHANGED <<inMain, connected>>
    BY <1>1 DEF StartOperation
  <2> HIDE DEF C
  <2> QED
    BY <2>1, <2>2, <2>3, OperationFacts, RunOperationControl, Zenon
<1>2. CASE StartDisconnectOperation
  <2>1. /\ Sessions \in SUBSET Connections /\ Sessions' = Sessions
        /\ RunOperation(Sessions, DisconnectOperation, 0)
        /\ UNCHANGED <<inMain, connected>>
    BY <1>2, SessionsFacts DEF StartDisconnectOperation, pool, Sessions
  <2>2. Sessions \subseteq Sessions'
    BY <2>1
  <2> QED
    BY <2>1, <2>2, OperationFacts, RunOperationControl, Zenon
<1>3. ASSUME NEW c \in Connections, c \in Sessions,
             TryAutomaticDisconnectAfterDelay(c)
      PROVE  ControlInv'
  <2> DEFINE C == {c}
  <2>1. /\ C \in SUBSET Connections /\ C \subseteq Sessions' /\ Sessions \subseteq Sessions'
        /\ RunOperation(C, DisconnectOperation, 0)
    BY <1>3 DEF TryAutomaticDisconnectAfterDelay, pool, Sessions
  <2>2. UNCHANGED <<inMain, connected>>
    BY <1>3 DEF TryAutomaticDisconnectAfterDelay
  <2> HIDE DEF C
  <2> QED
    BY <2>1, <2>2, OperationFacts, RunOperationControl, Zenon
<1>4. ASSUME NEW c \in Connections, CancelOperation(c) \/ CancelAllOperations
      PROVE  ControlInv'
  <2>1. /\ SameButCancelled /\ Sessions' = Sessions
        /\ UNCHANGED <<inMain, worker, running, mQueueRunning, connected,
                       mScheduledAutomaticDisconnect>>
    BY <1>4, CancelledFacts DEF pool, runningVars, Sessions
  <2>2. ASSUME NEW d \in Connections
        PROVE  mOperations'[d] = <<>> <=> mOperations[d] = <<>>
    <3>1. mOperations[d] \in Seq(Operation) /\ mOperations'[d] \in Seq(Operation)
      BY TypesNext DEF Types, ControlInv
    <3>2. DOMAIN mOperations'[d] = DOMAIN mOperations[d]
      BY <2>1 DEF SameButCancelled
    <3>3. Len(mOperations'[d]) = Len(mOperations[d])
      BY <3>1, <3>2
    <3> QED
      BY <3>1, <3>3, QueueFacts
  <2> QED
    BY <2>1, <2>2 DEF ControlInv, InMainServes, Serving
<1>5. CASE ReleaseSession \/ UNCHANGED vars
  <2>1. UNCHANGED <<mSessions, mOperations, inMain, worker, running, mQueueRunning,
                    connected, mScheduledAutomaticDisconnect>>
    BY <1>5 DEF ReleaseSession, vars, pool, queueVars, runningVars
  <2> QED
    BY <2>1 DEF ControlInv, InMainServes, Serving, Sessions
<1>6. ASSUME NEW c \in Connections, c \in Sessions, EnterMain(c)
      PROVE  ControlInv'
  BY <1>6 DEF EnterMain, pool, runningVars, Types, ControlInv, InMainServes, Serving,
              Sessions
<1>7. ASSUME NEW c \in Connections, c \in Sessions,
             LeaveMain(c) \/ SkipCancelled(c)
      PROVE  ControlInv'
  <2>1. /\ UNCHANGED <<mSessions, worker, running, mQueueRunning,
                       mScheduledAutomaticDisconnect>>
        /\ mOperations' = Removed(c)
        /\ inMain' = [inMain EXCEPT ![c] = FALSE] \/ inMain' = inMain
        /\ inMain'[c] = FALSE
    BY <1>7 DEF LeaveMain, SkipCancelled, pool, runningVars, Types
  <2>2. Serving(c)
    BY <1>7 DEF LeaveMain, SkipCancelled, ControlInv, InMainServes
  <2>3. \A d \in Connections : d # c => mOperations'[d] = mOperations[d]
                                    /\ inMain'[d] = inMain[d]
    BY <2>1, RemovedFacts DEF Types
  <2>4. \A d \in Connections : d # c => connected'[d] = connected[d]
    BY <1>7 DEF LeaveMain, SkipCancelled, Types
  <2>5. InMainServes'
    BY <2>1, <2>3 DEF ControlInv, InMainServes, Serving
  <2> QED
    BY <1>7, <2>1, <2>2, <2>3, <2>4, <2>5 DEF ControlInv, Serving, Sessions
<1>8. ASSUME NEW c \in Connections, c \in Sessions,
             CheckRunning(c) \/ WorkerStops(c)
      PROVE  ControlInv'
  <2>1. /\ UNCHANGED <<mSessions, mOperations, inMain, running, mQueueRunning,
                       connected, mScheduledAutomaticDisconnect>>
        /\ worker[c] # "none" /\ ~inMain[c]
        /\ worker'[c] # "none"
        /\ \A d \in Connections : d # c => worker'[d] = worker[d]
    BY <1>8 DEF CheckRunning, WorkerStops, Moves, pool, runningVars, Types
  <2> QED
    BY <1>8, <2>1 DEF ControlInv, InMainServes, Serving, Sessions
<1>9. ASSUME NEW c \in Connections, c \in Sessions, StoppedOnMainThread(c)
      PROVE  ControlInv'
  <2>1. /\ UNCHANGED <<mSessions, mOperations, inMain, connected>>
        /\ worker[c] = "stopping"
        /\ worker'[c] = IF restarts(c) THEN "started" ELSE "none"
        /\ \A d \in Connections : d # c => worker'[d] = worker[d]
    BY <1>9 DEF StoppedOnMainThread, pool, Types
  <2>2. /\ running'[c] <=> restarts(c)
        /\ \A d \in Connections : d # c => (running'[d] <=> running[d])
        /\ mScheduledAutomaticDisconnect'[c] <=> tryAutomaticDisconnect(c)
        /\ \A d \in Connections : d # c =>
             (mScheduledAutomaticDisconnect'[d] <=> mScheduledAutomaticDisconnect[d])
    BY <1>9, Zenon DEF StoppedOnMainThread, Types
  <2>3. mQueueRunning' <=> \E d \in Connections : running'[d]
    BY <1>9, Zenon DEF StoppedOnMainThread, operationRunningStateChanged
  <2>4. ~inMain[c]
    BY <2>1 DEF ControlInv, InMainServes, Serving
  <2>5. InMainServes'
    BY <2>1, <2>4 DEF ControlInv, InMainServes, Serving
  <2>6. \A d \in Connections : running'[d] <=> worker'[d] # "none"
    BY <2>1, <2>2 DEF ControlInv
  <2>7. \A d \in Connections :
          connected'[d] /\ worker'[d] = "none" => mScheduledAutomaticDisconnect'[d]
    BY <2>1, <2>2 DEF ControlInv, tryAutomaticDisconnect
  <2> QED
    BY <1>9, <2>1, <2>2, <2>3, <2>5, <2>6, <2>7 DEF ControlInv, Sessions
<1>10. ASSUME NEW c \in Sessions, Worker(c) \/ TryAutomaticDisconnectAfterDelay(c)
       PROVE  ControlInv'
  BY <1>3, <1>6, <1>7, <1>8, <1>9, <1>10, SessionsFacts DEF Worker
<1>11. CASE CancelAllOperations
  <2>1. CASE Connections = {}
    BY <1>11, <2>1 DEF CancelAllOperations, runningVars, ControlInv, InMainServes
  <2> QED
    BY <1>4, <1>11, <2>1
<1> QED
  BY <1>1, <1>2, <1>4, <1>5, <1>10, <1>11, SessionsFacts DEF Next, Client

-----------------------------------------------------------------------------
\* The references.  A queued client operation is a place in a queue.
Queues == [Connections -> Seq(Operation)]

ClientOps(q) ==
  {p \in Connections \X Nat : /\ p[2] \in DOMAIN q[p[1]]
                             /\ q[p[1]][p[2]].kind = "client"}

LEMMA ClientOpsFacts ==
  ASSUME NEW q \in Queues, NEW c \in Connections, NEW i
  PROVE  <<c, i>> \in ClientOps(q)
           <=> i \in 1 .. Len(q[c]) /\ q[c][i].kind = "client"
<1>1. q[c] \in Seq(Operation)
  BY DEF Queues
<1>2. DOMAIN q[c] = 1 .. Len(q[c]) /\ Len(q[c]) \in Nat
  BY <1>1, QueueFacts
<1> QED
  BY <1>2 DEF ClientOps

LEMMA ClientOpsPairs ==
  ASSUME NEW q \in Queues, NEW p \in ClientOps(q)
  PROVE  /\ p = <<p[1], p[2]>> /\ p[1] \in Connections /\ p[2] \in Nat
         /\ p[2] \in 1 .. Len(q[p[1]]) /\ q[p[1]][p[2]].kind = "client"
<1>1. p \in Connections \X Nat
  BY DEF ClientOps
<1>2. p = <<p[1], p[2]>> /\ p[1] \in Connections /\ p[2] \in Nat
  BY <1>1
<1> QED
  BY <1>2, ClientOpsFacts

\* Two queues hold the same client operations when they do pair by pair.
LEMMA ClientOpsEqual ==
  ASSUME NEW q \in Queues, NEW r \in Queues,
         \A c \in Connections, i \in Nat :
           <<c, i>> \in ClientOps(q) <=> <<c, i>> \in ClientOps(r)
  PROVE  ClientOps(q) = ClientOps(r)
BY ClientOpsPairs

\* A disconnect operation added to any queues is not a client's.
LEMMA ClientOpsDisconnect ==
  ASSUME NEW q \in Queues, NEW r \in Queues, NEW C \in SUBSET Connections,
         NEW o \in Operation, o.kind # "client",
         \A c \in Connections : r[c] = IF c \in C THEN Append(q[c], o) ELSE q[c]
  PROVE  ClientOps(r) = ClientOps(q)
<1>1. ASSUME NEW c \in Connections, NEW i \in Nat
      PROVE  <<c, i>> \in ClientOps(q) <=> <<c, i>> \in ClientOps(r)
  <2>1. q[c] \in Seq(Operation) /\ Len(q[c]) \in Nat
    BY QueueFacts DEF Queues
  <2>2. c \in C => /\ Len(r[c]) = Len(q[c]) + 1
                   /\ \A j \in 1 .. Len(q[c]) : r[c][j] = q[c][j]
                   /\ r[c][Len(q[c]) + 1] = o
    <3>1. /\ Len(Append(q[c], o)) = Len(q[c]) + 1
          /\ \A j \in 1 .. Len(q[c]) : Append(q[c], o)[j] = q[c][j]
          /\ Append(q[c], o)[Len(q[c]) + 1] = o
      BY <2>1, AppendFacts
    <3>2. c \in C => r[c] = Append(q[c], o)
      OBVIOUS
    <3> QED
      BY <3>1, <3>2, Zenon
  <2>3. c \notin C => r[c] = q[c]
    OBVIOUS
  <2> QED
    BY <2>1, <2>2, <2>3, ClientOpsFacts
<1> QED
  BY <1>1, ClientOpsEqual

\* A client operation added to a queue is one more.
LEMMA ClientOpsClient ==
  ASSUME NEW q \in Queues, NEW r \in Queues, NEW c \in Connections,
         NEW o \in Operation, o.kind = "client", IsFiniteSet(ClientOps(q)),
         r[c] = Append(q[c], o), \A d \in Connections : d # c => r[d] = q[d]
  PROVE  /\ IsFiniteSet(ClientOps(r))
         /\ Cardinality(ClientOps(r)) = Cardinality(ClientOps(q)) + 1
<1> DEFINE new == <<c, Len(q[c]) + 1>>
<1>1. q[c] \in Seq(Operation) /\ Len(q[c]) \in Nat
  BY QueueFacts DEF Queues
<1>2. /\ Len(r[c]) = Len(q[c]) + 1
      /\ \A j \in 1 .. Len(q[c]) : r[c][j] = q[c][j]
      /\ r[c][Len(q[c]) + 1] = o
  BY <1>1, AppendFacts
<1>3. new \in ClientOps(r) /\ new \notin ClientOps(q)
  BY <1>1, <1>2, ClientOpsFacts
<1>4. ASSUME NEW p \in ClientOps(r), p # new
      PROVE  p \in ClientOps(q)
  <2>1. /\ p = <<p[1], p[2]>> /\ p[1] \in Connections /\ p[2] \in Nat
        /\ p[2] \in 1 .. Len(r[p[1]]) /\ r[p[1]][p[2]].kind = "client"
    BY ClientOpsPairs
  <2>2. p[2] \in 1 .. Len(q[p[1]]) /\ q[p[1]][p[2]].kind = "client"
    BY <1>1, <1>2, <1>4, <2>1
  <2> QED
    BY <2>1, <2>2, ClientOpsFacts
<1>5. ASSUME NEW p \in ClientOps(q)
      PROVE  p \in ClientOps(r)
  <2>1. /\ p = <<p[1], p[2]>> /\ p[1] \in Connections /\ p[2] \in Nat
        /\ p[2] \in 1 .. Len(q[p[1]]) /\ q[p[1]][p[2]].kind = "client"
    BY ClientOpsPairs
  <2>2. p[2] \in 1 .. Len(r[p[1]]) /\ r[p[1]][p[2]].kind = "client"
    BY <1>1, <1>2, <2>1
  <2> QED
    BY <2>1, <2>2, ClientOpsFacts
<1>6. ClientOps(r) = ClientOps(q) \cup {new}
  BY <1>3, <1>4, <1>5
<1> HIDE DEF new
<1> QED
  BY <1>3, <1>6, FS_AddElement

\* The head leaving a queue is one less, if it was a client's.
LEMMA ClientOpsTail ==
  ASSUME NEW q \in Queues, NEW r \in Queues, NEW c \in Connections,
         IsFiniteSet(ClientOps(q)), q[c] # <<>>,
         r[c] = Tail(q[c]), \A d \in Connections : d # c => r[d] = q[d]
  PROVE  /\ IsFiniteSet(ClientOps(r))
         /\ Cardinality(ClientOps(r))
              = Cardinality(ClientOps(q)) - N(Head(q[c]).kind = "client")
<1> DEFINE head == <<c, 1>>
           S == ClientOps(q) \ {head}
           T == ClientOps(r)
           f == [p \in S |-> IF p[1] = c THEN <<c, p[2] - 1>> ELSE p]
<1>1. q[c] \in Seq(Operation) /\ Len(q[c]) \in Nat /\ Len(q[c]) > 0
  BY QueueFacts DEF Queues
<1>2. /\ Len(r[c]) = Len(q[c]) - 1
      /\ \A j \in 1 .. Len(q[c]) - 1 : r[c][j] = q[c][j + 1]
      /\ Head(q[c]) = q[c][1]
  BY <1>1, TailFacts, QueueFacts
<1>3. ASSUME NEW p \in S
      PROVE  /\ p = <<p[1], p[2]>> /\ p[1] \in Connections /\ p[2] \in Nat
             /\ p[2] \in 1 .. Len(q[p[1]]) /\ q[p[1]][p[2]].kind = "client"
             /\ p[1] = c => p[2] # 1
  BY ClientOpsPairs
<1>4. f \in [S -> T]
  <2>1. ASSUME NEW p \in S
        PROVE  f[p] \in T
    <3>1. CASE p[1] = c
      <4>1. /\ p[2] - 1 \in 1 .. Len(q[c]) - 1 /\ p[2] - 1 + 1 = p[2]
            /\ q[c][p[2]].kind = "client"
        BY <1>1, <1>3, <3>1
      <4>2. p[2] - 1 \in 1 .. Len(r[c]) /\ r[c][p[2] - 1].kind = "client"
        BY <1>2, <4>1
      <4>3. <<c, p[2] - 1>> \in T
        BY <4>2, ClientOpsFacts
      <4> QED
        BY <3>1, <4>3
    <3>2. CASE p[1] # c
      <4>1. p[2] \in 1 .. Len(r[p[1]]) /\ r[p[1]][p[2]].kind = "client"
        BY <1>3, <3>2
      <4>2. p \in T
        BY <1>3, <4>1, ClientOpsFacts
      <4> QED
        BY <3>2, <4>2
    <3> QED
      BY <3>1, <3>2
  <2> HIDE DEF S, T
  <2> QED
    BY <2>1
<1>5. \A p, p2 \in S : f[p] = f[p2] => p = p2
  BY <1>3
<1>6. ASSUME NEW t \in T
      PROVE  \E p \in S : f[p] = t
  <2>1. /\ t = <<t[1], t[2]>> /\ t[1] \in Connections /\ t[2] \in Nat
        /\ t[2] \in 1 .. Len(r[t[1]]) /\ r[t[1]][t[2]].kind = "client"
    BY ClientOpsPairs
  <2>2. CASE t[1] = c
    <3>1. /\ t[2] + 1 \in 1 .. Len(q[c]) /\ q[c][t[2] + 1].kind = "client"
          /\ t[2] + 1 # 1
      <4>1. t[2] \in 1 .. Len(q[c]) - 1 /\ r[c][t[2]].kind = "client"
        BY <1>2, <2>1, <2>2
      <4>2. r[c][t[2]] = q[c][t[2] + 1]
        BY <1>2, <4>1
      <4>3. t[2] + 1 \in 1 .. Len(q[c]) /\ t[2] + 1 # 1
        BY <1>1, <4>1
      <4> QED
        BY <4>1, <4>2, <4>3
    <3>2. <<c, t[2] + 1>> \in S
      BY <3>1, ClientOpsFacts
    <3> DEFINE p == <<c, t[2] + 1>>
    <3>3. p[1] = c /\ p[2] - 1 = t[2]
      BY <2>1
    <3>4. p \in S
      BY <3>2
    <3> HIDE DEF p, S, T
    <3>5. f[p] = <<c, p[2] - 1>>
      BY <3>3, <3>4
    <3> QED
      BY <2>1, <2>2, <3>3, <3>4, <3>5
  <2>3. CASE t[1] # c
    <3>1. t[2] \in 1 .. Len(q[t[1]]) /\ q[t[1]][t[2]].kind = "client"
      BY <2>1, <2>3
    <3>2. t \in S
      BY <2>1, <2>3, <3>1, ClientOpsFacts
    <3> QED
      BY <2>3, <3>2
  <2> QED
    BY <2>2, <2>3
<1>7. ExistsBijection(S, T)
  <2> HIDE DEF S, T, f
  <2>1. f \in Injection(S, T)
    BY <1>4, <1>5 DEF Injection, IsInjective
  <2>2. f \in Surjection(S, T)
    BY <1>4, <1>6 DEF Surjection
  <2> QED
    BY <2>1, <2>2 DEF Bijection, ExistsBijection
<1>8. head \in ClientOps(q) <=> Head(q[c]).kind = "client"
  BY <1>1, <1>2, ClientOpsFacts
<1>9. /\ IsFiniteSet(S)
      /\ Cardinality(S) = IF head \in ClientOps(q) THEN Cardinality(ClientOps(q)) - 1
                                                   ELSE Cardinality(ClientOps(q))
  BY FS_RemoveElement
<1>10. IsFiniteSet(T) /\ Cardinality(T) = Cardinality(S)
  BY <1>7, <1>9, FS_Bijection
<1>11. Cardinality(ClientOps(q)) \in Nat
  BY FS_CardinalityType
<1> HIDE DEF S, head
<1> QED
  BY <1>8, <1>9, <1>10, <1>11 DEF N

Workers == {c \in Connections : worker[c] # "none"}
Scheduled == {c \in Connections : mScheduledAutomaticDisconnect[c]}

\* RetainsBalanced, of a freed session too, over all connections there may
\* ever be.
BalanceInv ==
  /\ IsFiniteSet(ClientOps(mOperations))
  /\ mCounter = N(owned) + Cardinality(ClientOps(mOperations))
                  + Cardinality(Workers) + Cardinality(Scheduled)

LEMMA ConnectionsCount ==
  ASSUME NEW S \in SUBSET Connections
  PROVE  IsFiniteSet(S) /\ Cardinality(S) \in Nat
<1>1. IsFiniteSet(Connections)
  BY LimitFacts, FS_Interval
<1>2. IsFiniteSet(S)
  BY <1>1, FS_Subset
<1> QED
  BY <1>2, FS_CardinalityType

LEMMA CountFacts ==
  /\ IsFiniteSet(Workers) /\ Cardinality(Workers) \in Nat
  /\ IsFiniteSet(Scheduled) /\ Cardinality(Scheduled) \in Nat
<1>1. Workers \in SUBSET Connections /\ Scheduled \in SUBSET Connections
  BY DEF Workers, Scheduled
<1> QED
  BY <1>1, ConnectionsCount

\* Whatever runOperation() starts or calls off, it counts.
LEMMA RunOperationCount ==
  ASSUME Types, NEW C \in SUBSET Connections, NEW o \in Operation,
         NEW retains \in Int, RunOperation(C, o, retains)
  PROVE  mCounter' = mCounter + retains
                       + (Cardinality(Workers') - Cardinality(Workers))
                       + (Cardinality(Scheduled') - Cardinality(Scheduled))
<1> DEFINE starting == {c \in C : worker[c] = "none"}
           unscheduled == {c \in C : mScheduledAutomaticDisconnect[c]}
<1>1. \A c \in Connections :
        /\ worker'[c] = IF c \in C /\ worker[c] = "none" THEN "started"
                                                         ELSE worker[c]
        /\ mScheduledAutomaticDisconnect'[c]
             <=> mScheduledAutomaticDisconnect[c] /\ c \notin C
  BY RunOperationEffect
<1>2. Workers' = Workers \cup starting /\ Workers \cap starting = {}
  BY <1>1 DEF Workers
<1>3. /\ Scheduled' = Scheduled \ unscheduled
      /\ Scheduled \cap unscheduled = unscheduled
  BY <1>1 DEF Scheduled
<1>4. /\ IsFiniteSet(starting) /\ Cardinality(starting) \in Nat
      /\ IsFiniteSet(unscheduled) /\ Cardinality(unscheduled) \in Nat
  <2>1. starting \in SUBSET Connections /\ unscheduled \in SUBSET Connections
    OBVIOUS
  <2> HIDE DEF starting, unscheduled
  <2> QED
    BY <2>1, ConnectionsCount
<1>5. mCounter' = mCounter + retains
                   + Cardinality(starting) - Cardinality(unscheduled)
  BY DEF RunOperation
<1> HIDE DEF starting, unscheduled
<1>6. Cardinality(Workers') = Cardinality(Workers) + Cardinality(starting)
  <2>1. Cardinality(Workers \cup starting)
          = Cardinality(Workers) + Cardinality(starting)
              - Cardinality(Workers \cap starting)
    BY <1>4, CountFacts, FS_Union, Zenon
  <2>2. Cardinality(Workers \cap starting) = 0
    BY <1>2, FS_EmptySet
  <2> QED
    BY <1>2, <1>4, <2>1, <2>2, CountFacts
<1>7. Cardinality(Scheduled') = Cardinality(Scheduled) - Cardinality(unscheduled)
  <2>1. Cardinality(Scheduled \ unscheduled)
          = Cardinality(Scheduled) - Cardinality(Scheduled \cap unscheduled)
    BY CountFacts, FS_Difference, Zenon
  <2> QED
    BY <1>3, <2>1
<1> QED
  BY <1>4, <1>5, <1>6, <1>7, CountFacts DEF Types

LEMMA BalanceInit == Init => BalanceInv
<1> SUFFICES ASSUME Init PROVE BalanceInv
  OBVIOUS
<1>1. ClientOps(mOperations) = {}
  BY DEF Init, ClientOps
<1>2. Workers = {} /\ Scheduled = {}
  BY DEF Init, Workers, Scheduled
<1>3. mCounter = 1 /\ N(owned) = 1
  BY DEF Init, N
<1> QED
  BY <1>1, <1>2, <1>3, FS_EmptySet DEF BalanceInv

\* A worker's end counts one worker less, or none if the queue restarts, and
\* one timer more if it schedules one.
LEMMA StoppedFacts ==
  ASSUME Types, NEW c \in Connections, StoppedOnMainThread(c)
  PROVE  /\ UNCHANGED <<mOperations, connected, owned>>
         /\ mCounter' = mCounter - 1 + retainsForDisconnect(c) + N(restarts(c))
         /\ worker[c] = "stopping"
         /\ \A d \in Connections : d # c =>
              /\ worker'[d] = worker[d]
              /\ mScheduledAutomaticDisconnect'[d] <=> mScheduledAutomaticDisconnect[d]
         /\ mScheduledAutomaticDisconnect'[c] <=> tryAutomaticDisconnect(c)
         /\ Cardinality(Workers') = Cardinality(Workers) - 1 + N(restarts(c))
         /\ Cardinality(Scheduled') = Cardinality(Scheduled) + retainsForDisconnect(c)
         /\ retainsForDisconnect(c) \in Int /\ N(restarts(c)) \in {0, 1}
<1>1. /\ UNCHANGED <<mOperations, owned>>
      /\ worker[c] = "stopping"
      /\ worker'[c] = IF restarts(c) THEN "started" ELSE "none"
      /\ \A d \in Connections : d # c => worker'[d] = worker[d]
      /\ mCounter' = mCounter - 1 + retainsForDisconnect(c) + N(restarts(c))
  BY DEF StoppedOnMainThread, clientVars, Types
<1>2. /\ mScheduledAutomaticDisconnect'[c] <=> tryAutomaticDisconnect(c)
      /\ \A d \in Connections : d # c =>
           (mScheduledAutomaticDisconnect'[d] <=> mScheduledAutomaticDisconnect[d])
  BY Zenon DEF StoppedOnMainThread, Types
<1>3. Cardinality(Workers') = Cardinality(Workers) - 1 + N(restarts(c))
  <2>1. c \in Workers
    BY <1>1 DEF Workers
  <2>2. CASE restarts(c)
    <3>1. Workers' = Workers
      BY <1>1, <2>2 DEF Workers
    <3> QED
      BY CountFacts, <2>2, <3>1 DEF N
  <2>3. CASE ~restarts(c)
    <3>1. Workers' = Workers \ {c}
      BY <1>1, <2>3 DEF Workers
    <3>2. Cardinality(Workers \ {c}) = Cardinality(Workers) - 1
      BY <2>1, CountFacts, FS_RemoveElement
    <3> QED
      BY CountFacts, <2>3, <3>1, <3>2 DEF N
  <2> QED
    BY <2>2, <2>3
<1>4. Cardinality(Scheduled') = Cardinality(Scheduled) + retainsForDisconnect(c)
  <2>1. CASE mScheduledAutomaticDisconnect[c]
    <3>1. Scheduled' = Scheduled
      BY <1>2, <2>1 DEF Scheduled, tryAutomaticDisconnect
    <3> QED
      BY CountFacts, <2>1, <3>1 DEF N, retainsForDisconnect, tryAutomaticDisconnect
  <2>2. CASE ~mScheduledAutomaticDisconnect[c] /\ ~tryAutomaticDisconnect(c)
    <3>1. Scheduled' = Scheduled
      BY <1>2, <2>2 DEF Scheduled
    <3> QED
      BY CountFacts, <2>2, <3>1 DEF N, retainsForDisconnect
  <2>3. CASE ~mScheduledAutomaticDisconnect[c] /\ tryAutomaticDisconnect(c)
    <3>1. Scheduled' = Scheduled \cup {c} /\ c \notin Scheduled
      BY <1>2, <2>3 DEF Scheduled
    <3>2. Cardinality(Scheduled \cup {c}) = Cardinality(Scheduled) + 1
      BY <3>1, CountFacts, FS_AddElement
    <3> QED
      BY CountFacts, <2>3, <3>1, <3>2 DEF N, retainsForDisconnect
  <2> QED
    BY <2>1, <2>2, <2>3
<1>5. retainsForDisconnect(c) \in Int /\ N(restarts(c)) \in {0, 1}
  BY DEF retainsForDisconnect, N
<1> QED
  BY <1>1, <1>2, <1>3, <1>4, <1>5 DEF StoppedOnMainThread, clientVars

LEMMA BalanceNext ==
  Types /\ ControlInv /\ BalanceInv /\ [Next]_vars => BalanceInv'
<1> SUFFICES ASSUME Types, ControlInv, BalanceInv, [Next]_vars PROVE BalanceInv'
  OBVIOUS
<1> USE DEF Queues
<1>0. Types' /\ mOperations \in Queues /\ mOperations' \in Queues
  BY TypesNext DEF ControlInv, Types
<1> DEFINE Ops == Cardinality(ClientOps(mOperations))
           W == Cardinality(Workers)
           S == Cardinality(Scheduled)
<1>a. /\ W \in Nat /\ S \in Nat /\ Ops \in Nat /\ N(owned) \in Nat
      /\ mCounter = N(owned) + Ops + W + S
  BY CountFacts, FS_CardinalityType DEF BalanceInv, N
<1>b. W' \in Nat /\ S' \in Nat
  <2>1. Workers' \in SUBSET Connections /\ Scheduled' \in SUBSET Connections
    BY DEF Workers, Scheduled
  <2> QED
    BY <2>1, ConnectionsCount
<1>c. ASSUME NEW C \in SUBSET Connections, RunOperation(C, DisconnectOperation, 0),
             owned' = owned
      PROVE  BalanceInv'
  <2>1. mCounter' = mCounter + 0 + (W' - W) + (S' - S)
    BY <1>c, OperationFacts, RunOperationCount
  <2>2. ClientOps(mOperations)' = ClientOps(mOperations)
    <3>1. DisconnectOperation \in Operation /\ DisconnectOperation.kind # "client"
      BY OperationFacts DEF DisconnectOperation
    <3>2. \A c \in Connections :
            mOperations'[c] = IF c \in C THEN Append(mOperations[c], DisconnectOperation)
                                         ELSE mOperations[c]
      BY <1>c, <3>1, RunOperationEffect
    <3> QED
      BY <1>0, <3>1, <3>2, ClientOpsDisconnect
  <2>3. IsFiniteSet(ClientOps(mOperations)') /\ Ops' = Ops
    BY <2>2 DEF BalanceInv
  <2> QED
    BY <1>a, <1>b, <1>c, <2>1, <2>3 DEF BalanceInv
<1>d. ASSUME UNCHANGED <<worker, mScheduledAutomaticDisconnect>>
      PROVE  W' = W /\ S' = S
  BY <1>d DEF Workers, Scheduled
<1>1. ASSUME NEW folder \in Folders \cup {NULL}, NEW urgent \in BOOLEAN,
             StartOperation(folder, urgent)
      PROVE  BalanceInv'
  <2>1. PICK c \in Connections :
          RunOperation({c}, ClientOperation(folder), 1)
    BY <1>1, StartFacts
  <2> DEFINE C == {c}
             o == ClientOperation(folder)
  <2>2. /\ o \in Operation /\ o.kind = "client" /\ 1 \in Int
        /\ C \in SUBSET Connections /\ RunOperation(C, o, 1)
    BY <2>1, OperationFacts DEF ClientOperation
  <2>3. mCounter' = mCounter + 1 + (W' - W) + (S' - S)
    <3> HIDE DEF C, o
    <3> QED
      BY <2>2, RunOperationCount
  <2>4. /\ mOperations'[c] = Append(mOperations[c], o)
        /\ \A d \in Connections : d # c => mOperations'[d] = mOperations[d]
    BY <2>2, RunOperationEffect
  <2>5. /\ IsFiniteSet(ClientOps(mOperations'))
        /\ Cardinality(ClientOps(mOperations')) = Ops + 1
    <3> HIDE DEF C, o
    <3> QED
      BY <1>0, <2>2, <2>4, ClientOpsClient DEF BalanceInv
  <2>6. owned' = owned
    BY <1>1 DEF StartOperation
  <2> QED
    BY <1>a, <1>b, <2>3, <2>5, <2>6 DEF BalanceInv
<1>2. CASE StartDisconnectOperation
  BY <1>2, <1>c, SessionsFacts DEF StartDisconnectOperation
<1>3. ASSUME NEW c \in Connections, TryAutomaticDisconnectAfterDelay(c)
      PROVE  BalanceInv'
  <2> DEFINE C == {c}
  <2>1. C \in SUBSET Connections /\ RunOperation(C, DisconnectOperation, 0)
    BY <1>3 DEF TryAutomaticDisconnectAfterDelay
  <2>2. owned' = owned
    BY <1>3 DEF TryAutomaticDisconnectAfterDelay, clientVars
  <2> HIDE DEF C
  <2> QED
    BY <1>c, <2>1, <2>2
<1>4. ASSUME NEW c \in Connections, CancelOperation(c) \/ CancelAllOperations
      PROVE  BalanceInv'
  <2>1. /\ SameButCancelled
        /\ UNCHANGED <<worker, mScheduledAutomaticDisconnect, mCounter, owned>>
    BY <1>4, CancelledFacts DEF pool, runningVars
  <2>2. ASSUME NEW d \in Connections, NEW i \in Nat
        PROVE  <<d, i>> \in ClientOps(mOperations)
                 <=> <<d, i>> \in ClientOps(mOperations')
    BY <2>1 DEF SameButCancelled, ClientOps
  <2>3. ClientOps(mOperations) = ClientOps(mOperations')
    BY <1>0, <2>2, ClientOpsEqual
  <2>4. /\ IsFiniteSet(ClientOps(mOperations'))
        /\ Cardinality(ClientOps(mOperations')) = Ops
    BY <2>3 DEF BalanceInv
  <2>5. W' = W /\ S' = S
    BY <1>d, <2>1
  <2>6. N(owned') = N(owned)
    BY <2>1
  <2> HIDE DEF W, S, Ops
  <2>7. mCounter' = N(owned') + Cardinality(ClientOps(mOperations')) + W' + S'
    BY <1>a, <2>1, <2>4, <2>5, <2>6
  <2> QED
    BY <2>4, <2>7 DEF BalanceInv, W, S
<1>5. CASE ReleaseSession
  <2>1. /\ UNCHANGED <<mOperations, worker, mScheduledAutomaticDisconnect>>
        /\ mCounter' = mCounter - 1 /\ owned /\ ~owned'
    BY <1>5 DEF ReleaseSession, queueVars
  <2>2. N(owned) = 1 /\ N(owned') = 0
    BY <2>1 DEF N
  <2>3. W' = W /\ S' = S
    BY <1>d, <2>1
  <2>4. /\ IsFiniteSet(ClientOps(mOperations'))
        /\ Cardinality(ClientOps(mOperations')) = Ops
    BY <2>1 DEF BalanceInv
  <2>5. mCounter' = N(owned') + Ops + W + S
    <3>1. mCounter' = mCounter - 1
      BY <2>1
    <3> HIDE DEF W, S, Ops
    <3> QED
      BY <1>a, <2>2, <3>1
  <2> QED
    BY <2>3, <2>4, <2>5 DEF BalanceInv
<1>6. ASSUME NEW c \in Connections, EnterMain(c)
      PROVE  BalanceInv'
  BY <1>6, <1>d DEF EnterMain, clientVars, BalanceInv
<1>7. ASSUME NEW c \in Connections, LeaveMain(c) \/ SkipCancelled(c)
      PROVE  BalanceInv'
  <2>1. /\ UNCHANGED <<worker, mScheduledAutomaticDisconnect, owned>>
        /\ mOperations[c] # <<>> /\ mOperations' = Removed(c)
        /\ mCounter' = mCounter - N(Head(mOperations[c]).kind = "client")
    BY <1>7 DEF LeaveMain, SkipCancelled, clientVars, ControlInv, InMainServes
  <2>2. /\ mOperations'[c] = Tail(mOperations[c])
        /\ \A d \in Connections : d # c => mOperations'[d] = mOperations[d]
    BY <2>1, RemovedFacts
  <2>3. /\ IsFiniteSet(ClientOps(mOperations'))
        /\ Cardinality(ClientOps(mOperations'))
             = Ops - N(Head(mOperations[c]).kind = "client")
    BY <1>0, <2>1, <2>2, ClientOpsTail DEF BalanceInv
  <2>4. N(Head(mOperations[c]).kind = "client") \in Int
    BY DEF N
  <2> QED
    BY <1>a, <1>d, <2>1, <2>3, <2>4 DEF BalanceInv
<1>8. ASSUME NEW c \in Connections, CheckRunning(c) \/ WorkerStops(c)
      PROVE  BalanceInv'
  <2>1. /\ UNCHANGED <<mOperations, mScheduledAutomaticDisconnect, mCounter, owned>>
        /\ worker[c] # "none" /\ worker'[c] # "none"
        /\ \A d \in Connections : d # c => worker'[d] = worker[d]
    BY <1>8 DEF CheckRunning, WorkerStops, Moves, clientVars, Types
  <2>2. W' = W /\ S' = S
    BY <2>1 DEF Workers, Scheduled
  <2> QED
    BY <1>a, <2>1, <2>2 DEF BalanceInv
<1>9. ASSUME NEW c \in Connections, StoppedOnMainThread(c)
      PROVE  BalanceInv'
  <2>1. /\ UNCHANGED <<mOperations, owned>>
        /\ mCounter' = mCounter - 1 + retainsForDisconnect(c) + N(restarts(c))
        /\ W' = W - 1 + N(restarts(c)) /\ S' = S + retainsForDisconnect(c)
        /\ retainsForDisconnect(c) \in Int /\ N(restarts(c)) \in Int
    BY <1>9, StoppedFacts
  <2> QED
    BY <1>a, <2>1 DEF BalanceInv
<1>10. CASE UNCHANGED vars
  BY <1>10, <1>d DEF vars, pool, queueVars, runningVars, clientVars, BalanceInv
<1>11. CASE CancelAllOperations
  <2>1. CASE Connections = {}
    <3>1. /\ UNCHANGED <<worker, mScheduledAutomaticDisconnect, mCounter, owned>>
      BY <1>11 DEF CancelAllOperations
    <3>2. ClientOps(mOperations') = ClientOps(mOperations)
      BY <2>1 DEF ClientOps
    <3> QED
      BY <1>a, <1>d, <3>1, <3>2 DEF BalanceInv
  <2> QED
    BY <1>4, <1>11, <2>1
<1>12. ASSUME NEW c \in Sessions, Worker(c) \/ TryAutomaticDisconnectAfterDelay(c)
       PROVE  BalanceInv'
  BY <1>3, <1>6, <1>7, <1>8, <1>9, <1>12, SessionsFacts DEF Worker
<1> QED
  BY <1>1, <1>2, <1>4, <1>5, <1>10, <1>11, <1>12, SessionsFacts DEF Next, Client

-----------------------------------------------------------------------------
\* A session that was freed holds nothing; and nothing happens to it any more.
FreedInv ==
  freed => /\ ~owned
           /\ ClientOps(mOperations) = {}
           /\ Scheduled = {}
           /\ \A c \in Connections : ~connected[c]

IInv == Types /\ ControlInv /\ BalanceInv /\ FreedInv

LEMMA FreedStops ==
  ASSUME IInv, freed
  PROVE  ~Next
<1> SUFFICES ASSUME Next PROVE FALSE
  OBVIOUS
<1>1. \A c \in Sessions : c \in Connections /\ worker[c] = "none"
  BY SessionsFacts DEF IInv, Next, Alive
<1>2. \A c \in Sessions : ~inMain[c]
  BY <1>1 DEF IInv, ControlInv, InMainServes, Serving
<1>3. \A c \in Sessions : ~Worker(c)
  BY <1>1, <1>2 DEF Worker, EnterMain, LeaveMain, SkipCancelled, CheckRunning,
                    WorkerStops, Moves, StoppedOnMainThread, Serving
<1>4. \A c \in Sessions : ~TryAutomaticDisconnectAfterDelay(c)
  BY <1>1 DEF IInv, FreedInv, Scheduled, TryAutomaticDisconnectAfterDelay
<1>5. ASSUME NEW c \in Sessions, CancelOperation(c)
      PROVE  FALSE
  <2>1. PICK i \in DOMAIN mOperations[c] : mOperations[c][i].kind = "client"
    BY <1>5 DEF CancelOperation
  <2>2. mOperations[c] \in Seq(Operation)
    BY <1>1 DEF IInv, Types
  <2>3. i \in Nat
    BY <2>2, QueueFacts
  <2>4. <<c, i>> \in ClientOps(mOperations)
    BY <1>1, <2>1, <2>3 DEF ClientOps
  <2> QED
    BY <2>4 DEF IInv, FreedInv
<1>6. ~Client
  BY <1>5 DEF Client, StartOperation, StartDisconnectOperation, CancelAllOperations,
              ReleaseSession, IInv, FreedInv
<1> QED
  BY <1>3, <1>4, <1>6 DEF Next

NothingHeld ==
  /\ ~owned /\ ClientOps(mOperations) = {}
  /\ Workers = {} /\ Scheduled = {}

LEMMA NothingLeft == Types /\ BalanceInv /\ mCounter = 0 => NothingHeld
<1> SUFFICES ASSUME Types, BalanceInv, mCounter = 0 PROVE NothingHeld
  OBVIOUS
<1> DEFINE a == Cardinality(ClientOps(mOperations))
           b == Cardinality(Workers)
           c == Cardinality(Scheduled)
           d == N(owned)
<1>1. a \in Nat /\ b \in Nat /\ c \in Nat /\ d \in Nat
  BY CountFacts, FS_CardinalityType DEF BalanceInv, N
<1>2. d + a + b + c = 0
  BY DEF BalanceInv
<1>3. a = 0 /\ b = 0 /\ c = 0 /\ d = 0
  <2> HIDE DEF a, b, c, d
  <2> QED
    BY <1>1, <1>2
<1>4. ~owned
  BY <1>3 DEF N
<1>5. ClientOps(mOperations) = {} /\ Workers = {} /\ Scheduled = {}
  BY <1>3, CountFacts, FS_EmptySet DEF BalanceInv
<1> QED
  BY <1>4, <1>5 DEF NothingHeld

LEMMA FreedNext == IInv /\ [Next]_vars => FreedInv'
<1> SUFFICES ASSUME IInv, [Next]_vars PROVE FreedInv'
  OBVIOUS
<1>0. Types' /\ ControlInv' /\ BalanceInv'
  BY TypesNext, ControlNext, BalanceNext DEF IInv, ControlInv
<1>1. CASE UNCHANGED vars
  BY <1>1 DEF vars, pool, queueVars, runningVars, clientVars, IInv, FreedInv, Scheduled
<1>2. CASE freed
  BY <1>1, <1>2, FreedStops
<1>3. CASE ReleaseSession /\ freed'
  <2>1. mCounter = 1
    BY <1>3, Zenon DEF ReleaseSession
  <2>2. (mCounter = 0)'
    BY <1>3, <2>1 DEF ReleaseSession
  <2>3. NothingHeld'
    BY <1>0, <2>2, NothingLeft, PTL
  <2>4. ASSUME NEW c \in Connections
        PROVE  ~connected'[c]
    BY <1>0, <2>3 DEF ControlInv, NothingHeld, Workers, Scheduled
  <2> QED
    BY <2>3, <2>4 DEF NothingHeld, FreedInv
<1>4. ASSUME NEW c \in Connections, StoppedOnMainThread(c), freed'
      PROVE  FreedInv'
  <2>1. /\ UNCHANGED <<connected, owned>>
        /\ mCounter' = mCounter - 1 + retainsForDisconnect(c) + N(restarts(c))
        /\ worker[c] = "stopping"
        /\ \A d \in Connections : d # c => worker'[d] = worker[d]
        /\ mScheduledAutomaticDisconnect'[c] <=> tryAutomaticDisconnect(c)
        /\ Cardinality(Workers') = Cardinality(Workers) - 1 + N(restarts(c))
        /\ retainsForDisconnect(c) \in Int /\ N(restarts(c)) \in {0, 1}
    BY <1>4, StoppedFacts DEF IInv
  <2>2. mCounter - 1 + retainsForDisconnect(c) = 0
    BY <1>4 DEF StoppedOnMainThread
  <2>3. mCounter' = N(restarts(c))
    BY <2>1, <2>2
  <2>4. mCounter' = N(owned') + Cardinality(ClientOps(mOperations'))
                     + Cardinality(Workers') + Cardinality(Scheduled')
    BY <1>0 DEF BalanceInv
  <2>5. IsFiniteSet(ClientOps(mOperations')) /\ IsFiniteSet(Scheduled')
    <3>1. Scheduled' \in SUBSET Connections
      BY DEF Scheduled
    <3> QED
      BY <1>0, <3>1, ConnectionsCount DEF BalanceInv
  <2>6. c \in Workers
    BY <2>1 DEF Workers
  <2>7. /\ IsFiniteSet(Workers \ {c})
        /\ Cardinality(Workers \ {c}) = Cardinality(Workers) - 1
    BY <2>6, CountFacts, FS_RemoveElement
  <2>8. /\ Cardinality(ClientOps(mOperations')) \in Nat /\ Cardinality(Scheduled') \in Nat
        /\ Cardinality(Workers \ {c}) \in Nat /\ N(owned') \in Nat
    BY <2>5, <2>7, FS_CardinalityType DEF N
  <2>9. /\ N(owned') = 0 /\ Cardinality(ClientOps(mOperations')) = 0
        /\ Cardinality(Scheduled') = 0 /\ Cardinality(Workers \ {c}) = 0
    <3>1. Cardinality(Workers') = Cardinality(Workers \ {c}) + N(restarts(c))
      BY <2>1, <2>7, CountFacts
    <3>2. N(restarts(c)) \in Int
      BY <2>1
    <3> QED
      BY <2>3, <2>4, <2>8, <3>1, <3>2
  <2>10. /\ ~owned' /\ ClientOps(mOperations') = {} /\ Scheduled' = {}
         /\ Workers \ {c} = {}
    BY <2>5, <2>7, <2>9, FS_EmptySet DEF N
  <2>11. ASSUME NEW d \in Connections
         PROVE  ~connected'[d]
    <3>1. CASE d = c
      BY <2>1, <2>10, <3>1 DEF Scheduled, tryAutomaticDisconnect
    <3>2. CASE d # c
      <4>1. worker'[d] = "none"
        BY <2>1, <2>10, <3>2 DEF Workers
      <4> QED
        BY <1>0, <2>10, <4>1 DEF ControlInv, Scheduled
    <3> QED
      BY <3>1, <3>2
  <2> QED
    BY <2>10, <2>11 DEF FreedInv
<1>5. CASE freed' = freed
  BY <1>2, <1>5 DEF FreedInv
<1>6. ASSUME Next PROVE FreedInv'
  <2>1. ASSUME NEW c \in Sessions, Worker(c) \/ TryAutomaticDisconnectAfterDelay(c)
        PROVE  freed' = freed \/ StoppedOnMainThread(c)
    BY <2>1 DEF Worker, TryAutomaticDisconnectAfterDelay, EnterMain, LeaveMain,
                SkipCancelled, CheckRunning, WorkerStops, Moves
  <2>2. Client => freed' = freed \/ ReleaseSession
    BY DEF Client, StartOperation, StartDisconnectOperation, CancelOperation,
           CancelAllOperations
  <2>3. Client \/ \E c \in Sessions : Worker(c) \/ TryAutomaticDisconnectAfterDelay(c)
    BY <1>6 DEF Next
  <2>4. \/ freed' = freed \/ ReleaseSession
        \/ \E c \in Connections : StoppedOnMainThread(c)
    BY <2>1, <2>2, <2>3, SessionsFacts DEF IInv
  <2>5. CASE ~freed'
    BY <2>5 DEF FreedInv
  <2> QED
    BY <1>3, <1>4, <1>5, <2>4, <2>5
<1> QED
  BY <1>1, <1>6

LEMMA InvInit == Init => IInv
<1>1. Init => FreedInv
  BY DEF Init, FreedInv
<1> QED
  BY <1>1, TypesInit, ControlInit, BalanceInit DEF IInv

LEMMA InvNext == IInv /\ [Next]_vars => IInv'
BY TypesNext, ControlNext, BalanceNext, FreedNext DEF IInv, ControlInv

LEMMA SpecInv == Spec => []IInv
BY InvInit, InvNext, PTL DEF Spec

-----------------------------------------------------------------------------
\* Every variable keeps its type: no connection beyond the pool's limit is
\* ever created, and no reference is released that was not taken.
THEOREM TypesHold == Spec => []TypeOK
<1>1. IInv => TypeOK
  <2> SUFFICES ASSUME IInv PROVE TypeOK
    OBVIOUS
  <2>1. mCounter \in Nat
    <3>1. /\ Cardinality(ClientOps(mOperations)) \in Nat
          /\ Cardinality(Workers) \in Nat /\ Cardinality(Scheduled) \in Nat
          /\ N(owned) \in Nat
      BY CountFacts, FS_CardinalityType DEF IInv, BalanceInv, N
    <3> QED
      BY <3>1 DEF IInv, BalanceInv
  <2> QED
    BY <2>1, SessionsFacts DEF IInv, Types, TypeOK
<1> QED
  BY <1>1, SpecInv, PTL

\* The session's flag is up exactly while some connection has a worker: in
\* whatever order connections start, stop and restart
\* (operationRunningStateChanged).
THEOREM RunningTold == Spec => []RunningStateTruthful
<1>1. IInv => RunningStateTruthful
  BY SessionsFacts DEF IInv, ControlInv, RunningStateTruthful
<1> QED
  BY <1>1, SpecInv, PTL

\* Every reference to the session is one of the client's, of a worker's, of a
\* scheduled disconnect's or of a queued operation's, and the other way round.
THEOREM ReferencesBalance == Spec => []RetainsBalanced
<1>1. IInv => RetainsBalanced
  <2> SUFFICES ASSUME IInv PROVE RetainsBalanced
    OBVIOUS
  <2> DEFINE queued(c) == {i \in DOMAIN mOperations[c] :
                             mOperations[c][i].kind = "client"}
             all == UNION {{<<c, i>> : i \in queued(c)} : c \in Sessions}
  <2>1. Sessions \subseteq Connections
    BY SessionsFacts DEF IInv
  <2>2. mOperations \in Queues
    BY DEF IInv, Types, Queues
  <2>3. ASSUME NEW p \in all
        PROVE  p \in ClientOps(mOperations)
    <3>1. PICK c \in Sessions : \E i \in queued(c) : p = <<c, i>>
      OBVIOUS
    <3>2. PICK i \in queued(c) : p = <<c, i>>
      BY <3>1
    <3>3. mOperations[c] \in Seq(Operation)
      BY <2>1, <2>2 DEF Queues
    <3>4. i \in 1 .. Len(mOperations[c]) /\ mOperations[c][i].kind = "client"
      BY <3>3, QueueFacts
    <3> QED
      BY <2>1, <2>2, <3>2, <3>4, ClientOpsFacts
  <2>4. ASSUME NEW p \in ClientOps(mOperations)
        PROVE  p \in all
    <3>1. /\ p = <<p[1], p[2]>> /\ p[1] \in Connections
          /\ p[2] \in 1 .. Len(mOperations[p[1]])
          /\ mOperations[p[1]][p[2]].kind = "client"
      BY <2>2, ClientOpsPairs
    <3>2. mOperations[p[1]] \in Seq(Operation)
      BY <2>2, <3>1 DEF Queues
    <3>3. mOperations[p[1]] # <<>> /\ p[2] \in queued(p[1])
      BY <3>1, <3>2, QueueFacts
    <3>4. p[1] \in Sessions
      BY <3>1, <3>3 DEF IInv, ControlInv
    <3> QED
      BY <3>1, <3>3, <3>4
  <2>5. all = ClientOps(mOperations)
    BY <2>3, <2>4
  <2>6. /\ Workers = {c \in Sessions : worker[c] # "none"}
        /\ Scheduled = {c \in Sessions : mScheduledAutomaticDisconnect[c]}
    BY <2>1 DEF IInv, ControlInv, Workers, Scheduled
  <2> HIDE DEF all
  <2>7. mCounter = N(owned) + Cardinality(all)
                     + Cardinality({c \in Sessions : worker[c] # "none"})
                     + Cardinality({c \in Sessions : mScheduledAutomaticDisconnect[c]})
    BY <2>5, <2>6 DEF IInv, BalanceInv
  <2> QED
    BY <2>7, Zenon DEF RetainsBalanced, all
<1> QED
  BY <1>1, SpecInv, PTL

\* A session is freed with every connection closed, no timer outstanding and
\* nothing of the client's queued, whichever reference goes last: the
\* client's or a stopping worker's (queueStoppedRunning).
THEOREM FreedAfterAll == Spec => []FreedWhenDone
<1>1. IInv => FreedWhenDone
  <2> SUFFICES ASSUME IInv, freed PROVE FreedWhenDone
    BY DEF FreedWhenDone
  <2>1. /\ ~owned /\ ClientOps(mOperations) = {}
        /\ Scheduled = {} /\ \A c \in Connections : ~connected[c]
    BY DEF IInv, FreedInv
  <2>2. ASSUME NEW c \in Sessions
        PROVE  /\ ~connected[c] /\ ~mScheduledAutomaticDisconnect[c]
               /\ \A i \in DOMAIN mOperations[c] :
                    mOperations[c][i].kind = "disconnect"
    <3>1. c \in Connections /\ mOperations \in Queues
      BY SessionsFacts DEF IInv, Types, Queues
    <3>2. ASSUME NEW i \in DOMAIN mOperations[c]
          PROVE  mOperations[c][i].kind = "disconnect"
      <4>1. mOperations[c] \in Seq(Operation)
        BY <3>1 DEF Queues
      <4>2. mOperations[c][i] \in Operation /\ i \in 1 .. Len(mOperations[c])
        BY <4>1, QueueFacts
      <4>3. mOperations[c][i].kind # "client"
        BY <2>1, <3>1, <4>2, ClientOpsFacts
      <4> QED
        BY <4>2, <4>3 DEF Operation, Kinds
    <3> QED
      BY <2>1, <3>1, <3>2 DEF Scheduled
  <2> QED
    BY <2>1, <2>2 DEF FreedWhenDone
<1> QED
  BY <1>1, SpecInv, PTL

\* A connection left open by a worker that went away has its disconnect
\* scheduled (tryAutomaticDisconnect, runOperation).
THEOREM OpenIsScheduled == Spec => []NoConnectionLeftOpen
<1>1. IInv => NoConnectionLeftOpen
  BY SessionsFacts DEF IInv, ControlInv, NoConnectionLeftOpen
<1> QED
  BY <1>1, SpecInv, PTL

\* An urgent operation waits for another only when the pool is full and every
\* connection has work (sessionForFolder, availableSession).
THEOREM UrgentIsServed == Spec => []UrgentWaitsOnlyWhenFull
<1>1. IInv => UrgentWaitsOnlyWhenFull
  <2> SUFFICES ASSUME IInv, mAllowsFolderConcurrentAccessEnabled,
                      NEW folder \in Folders,
                      ~Empty(sessionForFolder(folder, TRUE))
               PROVE  /\ mSessions = MaximumConnections
                      /\ \A c \in Sessions : operationsCount(c) > 0
    BY DEF UrgentWaitsOnlyWhenFull
  <2> DEFINE selected == sessionWithMinQueue(SelectedTo(folder))
             full == MaximumConnections # 0 /\ mSessions >= MaximumConnections
             chosen == sessionWithMinQueue(Sessions)
  <2>1. folder # NULL
    BY SessionAssumption
  <2>2. ~Empty(availableSession)
    BY <2>1 DEF sessionForFolder
  <2>3. \A c : c \notin Sessions => operationsCount(c) = 0
    BY DEF operationsCount
  <2>4. mSessions + 1 \notin Sessions
    BY DEF IInv, Types, Sessions
  <2>5. availableSession = chosen /\ ~Empty(chosen) /\ full
    BY <2>2, <2>3, <2>4 DEF availableSession, Empty
  <2>6. PICK c \in chosen : operationsCount(c) # 0
    BY <2>5 DEF Empty
  <2>7. \A d \in Sessions : operationsCount(d) \in Nat
    BY SessionsFacts, QueueFacts DEF operationsCount, IInv, Types
  <2>8. \A d \in Sessions : operationsCount(c) <= operationsCount(d)
    BY <2>6, <2>7 DEF sessionWithMinQueue
  <2>9. c \in Sessions
    BY <2>6 DEF sessionWithMinQueue
  <2>10. \A d \in Sessions : operationsCount(d) > 0
    BY <2>6, <2>7, <2>8, <2>9
  <2>11. mSessions = MaximumConnections
    BY <2>5, SessionAssumption DEF IInv, Types, Limit
  <2> QED
    BY <2>10, <2>11
<1> QED
  BY <1>1, SpecInv, PTL

-----------------------------------------------------------------------------
\* One connection per folder.  A pool at its limit re-points its least loaded
\* connection, busy or not, when an operation comes for a folder that no
\* connection has: with a folder more than connections the promise is broken.
\* With no more folders than connections that cannot happen, for then some
\* connection has the folder already, or none yet.
FoldersFit ==
  MaximumConnections # 0 =>
    IsFiniteSet(Folders) /\ Cardinality(Folders) <= MaximumConnections

\* A folder is some connection's, and no connection has work on another's.
FolderInv ==
  /\ \A c \in Connections \ Sessions : mLastFolder[c] = NULL
  /\ ~mAllowsFolderConcurrentAccessEnabled =>
       /\ \A c \in Connections : \A i \in DOMAIN mOperations[c] :
            mOperations[c][i].folder \in {mLastFolder[c], NULL}
       /\ \A c, d \in Connections :
            mLastFolder[c] = mLastFolder[d] /\ mLastFolder[c] # NULL => c = d

\* In a full pool whose connections all have a folder every folder is taken.
LEMMA FullPoolHasAll ==
  ASSUME FoldersFit, Types, FolderInv, ~mAllowsFolderConcurrentAccessEnabled,
         NEW folder \in Folders,
         MaximumConnections # 0, mSessions >= MaximumConnections,
         SelectedTo(NULL) = {}
  PROVE  SelectedTo(folder) # {}
<1> SUFFICES ASSUME SelectedTo(folder) = {} PROVE FALSE
  OBVIOUS
<1> DEFINE T == Folders \ {folder}
           f == [c \in Sessions |-> mLastFolder[c]]
<1>1. Sessions \subseteq Connections
  BY SessionsFacts
<1>2. f \in [Sessions -> T]
  BY <1>1 DEF SelectedTo, Types
<1>3. IsFiniteSet(Folders) /\ Cardinality(Folders) <= MaximumConnections
  BY DEF FoldersFit
<1>4. IsFiniteSet(T) /\ Cardinality(T) = Cardinality(Folders) - 1
  BY <1>3, FS_RemoveElement
<1>5. IsFiniteSet(Sessions) /\ Cardinality(Sessions) = mSessions
  BY FS_Interval DEF Sessions, Types
<1>6. Cardinality(Folders) \in Nat
  BY <1>3, FS_CardinalityType
<1>7. Cardinality(T) < Cardinality(Sessions)
  BY <1>3, <1>4, <1>5, <1>6, SessionAssumption DEF Types
<1>8. PICK c, d \in Sessions : c # d /\ f[c] = f[d]
  <2> HIDE DEF T, f
  <2> QED
    BY <1>2, <1>4, <1>5, <1>7, FS_PigeonHole
<1>9. mLastFolder[c] = mLastFolder[d] /\ mLastFolder[c] # NULL
  BY <1>8 DEF SelectedTo
<1> QED
  BY <1>1, <1>8, <1>9 DEF FolderInv

\* The connection chosen for a folder has it, or has no work on any folder
\* and no other connection has it.
LEMMA ChosenForFolder ==
  ASSUME FoldersFit, Types, ControlInv, FolderInv,
         ~mAllowsFolderConcurrentAccessEnabled,
         NEW folder \in Folders, NEW urgent \in BOOLEAN,
         NEW c \in sessionForFolder(folder, urgent), c \in Connections
  PROVE  \/ mLastFolder[c] = folder
         \/ /\ \A d \in Connections : mLastFolder[d] # folder
            /\ mLastFolder[c] = NULL \/ mOperations[c] = <<>>
<1>1. folder # NULL
  BY SessionAssumption
<1>2. \A S : sessionWithMinQueue(S) \subseteq S
  BY DEF sessionWithMinQueue
<1>3. CASE c \in SelectedTo(folder)
  BY <1>3 DEF SelectedTo
<1>4. CASE c \notin SelectedTo(folder)
  <2>1. c \in matchingSessionForFolder(folder)
    BY <1>1, <1>2, <1>4 DEF sessionForFolder
  <2>2. SelectedTo(folder) = {}
    BY <1>1, <1>2, <1>4, <2>1 DEF matchingSessionForFolder
  <2>3. \A d \in Connections : mLastFolder[d] # folder
    BY <1>1, <2>2 DEF SelectedTo, FolderInv
  <2>4. CASE c \in SelectedTo(NULL)
    BY <2>3, <2>4 DEF SelectedTo
  <2>5. CASE c \notin SelectedTo(NULL)
    <3>1. SelectedTo(NULL) = {} /\ c \in availableSession
      BY <1>1, <1>2, <2>1, <2>2, <2>5 DEF matchingSessionForFolder
    <3>2. ~(MaximumConnections # 0 /\ mSessions >= MaximumConnections)
      BY <2>2, <3>1, FullPoolHasAll
    <3>3. CASE c \in Sessions
      <4>1. mSessions + 1 # c
        BY <3>3 DEF Types, Sessions
      <4>2. c \in sessionWithMinQueue(Sessions) /\ Empty(sessionWithMinQueue(Sessions))
        BY <3>1, <3>2, <4>1 DEF availableSession
      <4>3. Len(mOperations[c]) = 0
        BY <3>3, <4>2 DEF Empty, operationsCount
      <4>4. mOperations[c] \in Seq(Operation)
        BY DEF Types
      <4>5. mOperations[c] = <<>>
        BY <4>3, <4>4, QueueFacts
      <4> QED
        BY <2>3, <4>5
    <3>4. CASE c \notin Sessions
      BY <2>3, <3>4 DEF ControlInv
    <3> QED
      BY <3>3, <3>4
  <2> QED
    BY <2>4, <2>5
<1> QED
  BY <1>3, <1>4

\* A step that changes neither the pool nor what is queued but by taking an
\* operation away, or by cancelling one.
LEMMA FolderKept ==
  ASSUME FolderInv, UNCHANGED pool,
         \A c \in Connections : \A i \in DOMAIN mOperations'[c] :
           \E j \in DOMAIN mOperations[c] :
             mOperations'[c][i].folder = mOperations[c][j].folder
  PROVE  FolderInv'
<1>1. UNCHANGED <<mAllowsFolderConcurrentAccessEnabled, mSessions, mLastFolder>>
  BY DEF pool
<1> QED
  BY <1>1 DEF FolderInv, Sessions

\* A disconnect operation is on no folder.
LEMMA FolderDisconnect ==
  ASSUME Types, FolderInv, UNCHANGED pool, NEW C \in SUBSET Connections,
         RunOperation(C, DisconnectOperation, 0)
  PROVE  FolderInv'
<1>1. UNCHANGED <<mAllowsFolderConcurrentAccessEnabled, mSessions, mLastFolder>>
  BY DEF pool
<1>2. DisconnectOperation \in Operation /\ DisconnectOperation.folder = NULL
  BY OperationFacts DEF DisconnectOperation
<1>3. ASSUME NEW c \in Connections, NEW i \in DOMAIN mOperations'[c]
      PROVE  \/ mOperations'[c][i].folder = NULL
             \/ /\ i \in DOMAIN mOperations[c]
                /\ mOperations'[c][i].folder = mOperations[c][i].folder
  <2>1. mOperations'[c] = IF c \in C THEN Append(mOperations[c], DisconnectOperation)
                                     ELSE mOperations[c]
    BY <1>2, RunOperationEffect
  <2>2. mOperations[c] \in Seq(Operation)
    BY DEF Types
  <2>3. CASE c \in C
    <3>1. /\ i \in 1 .. Len(mOperations[c]) + 1 /\ Len(mOperations[c]) \in Nat
          /\ DOMAIN mOperations[c] = 1 .. Len(mOperations[c])
      BY <1>2, <1>3, <2>1, <2>2, <2>3, AppendFacts, QueueFacts
    <3>2. CASE i = Len(mOperations[c]) + 1
      BY <1>2, <2>1, <2>2, <2>3, <3>2, AppendFacts
    <3>3. CASE i # Len(mOperations[c]) + 1
      <4>1. i \in 1 .. Len(mOperations[c])
        BY <3>1, <3>3
      <4>2. Append(mOperations[c], DisconnectOperation)[i] = mOperations[c][i]
        BY <1>2, <2>2, <4>1, AppendFacts
      <4> QED
        BY <2>1, <2>3, <3>1, <4>1, <4>2
    <3> QED
      BY <3>2, <3>3
  <2>4. CASE c \notin C
    BY <2>1, <2>4
  <2> QED
    BY <2>3, <2>4
<1> QED
  BY <1>1, <1>3 DEF FolderInv, Sessions

LEMMA FolderStart ==
  ASSUME FoldersFit, Types, ControlInv, FolderInv,
         NEW folder \in Folders \cup {NULL}, NEW urgent \in BOOLEAN,
         StartOperation(folder, urgent)
  PROVE  FolderInv'
<1>1. PICK c \in sessionForFolder(folder, urgent) :
        /\ c \in Connections /\ c \in Sessions'
        /\ Sessions \subseteq Sessions'
        /\ RunOperation({c}, ClientOperation(folder), 1)
        /\ mLastFolder' = IF folder = NULL THEN mLastFolder
                          ELSE [mLastFolder EXCEPT ![c] = folder]
  BY StartFacts
<1> DEFINE o == ClientOperation(folder)
<1>2. o \in Operation /\ o.folder = folder
  BY OperationFacts DEF ClientOperation
<1>3. /\ mOperations'[c] = Append(mOperations[c], o)
      /\ \A d \in Connections : d # c => mOperations'[d] = mOperations[d]
  <2> DEFINE C == {c}
  <2>1. C \in SUBSET Connections /\ RunOperation(C, o, 1) /\ c \in C
        /\ \A d : d # c => d \notin C
    BY <1>1
  <2> HIDE DEF C, o
  <2>2. \A d \in Connections :
          mOperations'[d] = IF d \in C THEN Append(mOperations[d], o)
                                       ELSE mOperations[d]
    BY <1>2, <2>1, RunOperationEffect
  <2> QED
    BY <1>1, <2>1, <2>2
<1>4. /\ \A d \in Connections : d # c => mLastFolder'[d] = mLastFolder[d]
      /\ mLastFolder'[c] = IF folder = NULL THEN mLastFolder[c] ELSE folder
  BY <1>1 DEF Types
<1>5. mAllowsFolderConcurrentAccessEnabled' = mAllowsFolderConcurrentAccessEnabled
  BY DEF StartOperation
<1>6. \A d \in Connections \ Sessions' : mLastFolder'[d] = NULL
  BY <1>1, <1>4 DEF FolderInv
<1>7. ASSUME ~mAllowsFolderConcurrentAccessEnabled
      PROVE  \/ folder = NULL
             \/ mLastFolder[c] = folder
             \/ /\ \A d \in Connections : mLastFolder[d] # folder
                /\ mLastFolder[c] = NULL \/ mOperations[c] = <<>>
  BY <1>1, <1>7, ChosenForFolder
<1>8. ASSUME ~mAllowsFolderConcurrentAccessEnabled,
             NEW d \in Connections, NEW i \in DOMAIN mOperations'[d]
      PROVE  mOperations'[d][i].folder \in {mLastFolder'[d], NULL}
  <2>1. CASE d # c
    BY <1>3, <1>4, <1>8, <2>1 DEF FolderInv
  <2>2. CASE d = c
    <3>1. mOperations[c] \in Seq(Operation)
      BY <1>1 DEF Types
    <3>2. /\ i \in 1 .. Len(mOperations[c]) + 1 /\ Len(mOperations[c]) \in Nat
          /\ DOMAIN mOperations[c] = 1 .. Len(mOperations[c])
      <4> HIDE DEF o
      <4> QED
        BY <1>2, <1>3, <1>8, <2>2, <3>1, AppendFacts, QueueFacts
    <3>3. CASE i = Len(mOperations[c]) + 1
      <4>1. mOperations'[c][i] = o
        BY <1>2, <1>3, <3>1, <3>3, AppendFacts
      <4> QED
        BY <1>2, <1>4, <2>2, <4>1
    <3>4. CASE i # Len(mOperations[c]) + 1
      <4>1. i \in 1 .. Len(mOperations[c])
        BY <3>2, <3>4
      <4>2. mOperations'[c][i] = mOperations[c][i]
        <5> HIDE DEF o
        <5> QED
          BY <1>2, <1>3, <3>1, <4>1, AppendFacts
      <4>3. mOperations[c][i].folder \in {mLastFolder[c], NULL}
        BY <1>1, <1>8, <3>2, <4>1 DEF FolderInv
      <4>4. mOperations[c] # <<>>
        BY <3>1, <4>1, QueueFacts
      <4> QED
        BY <1>4, <1>7, <1>8, <2>2, <4>2, <4>3, <4>4
    <3> QED
      BY <3>3, <3>4
  <2> QED
    BY <2>1, <2>2
<1>9. ASSUME ~mAllowsFolderConcurrentAccessEnabled,
             NEW d \in Connections, NEW e \in Connections,
             mLastFolder'[d] = mLastFolder'[e], mLastFolder'[d] # NULL
      PROVE  d = e
  <2>1. \A x, y \in Connections :
          mLastFolder[x] = mLastFolder[y] /\ mLastFolder[x] # NULL => x = y
    BY <1>9 DEF FolderInv
  <2> QED
    BY <1>1, <1>4, <1>7, <1>9, <2>1
<1> QED
  BY <1>5, <1>6, <1>8, <1>9 DEF FolderInv

LEMMA FolderNext ==
  FoldersFit /\ Types /\ ControlInv /\ FolderInv /\ [Next]_vars => FolderInv'
<1> SUFFICES ASSUME FoldersFit, Types, ControlInv, FolderInv, [Next]_vars
             PROVE  FolderInv'
  OBVIOUS
<1>1. ASSUME NEW folder \in Folders \cup {NULL}, NEW urgent \in BOOLEAN,
             StartOperation(folder, urgent)
      PROVE  FolderInv'
  BY <1>1, FolderStart
<1>2. CASE StartDisconnectOperation
  BY <1>2, SessionsFacts, FolderDisconnect DEF StartDisconnectOperation
<1>3. ASSUME NEW c \in Connections, TryAutomaticDisconnectAfterDelay(c)
      PROVE  FolderInv'
  <2> DEFINE C == {c}
  <2>1. C \in SUBSET Connections /\ RunOperation(C, DisconnectOperation, 0)
        /\ UNCHANGED pool
    BY <1>3 DEF TryAutomaticDisconnectAfterDelay
  <2> HIDE DEF C
  <2> QED
    BY <2>1, FolderDisconnect
<1>4. ASSUME NEW c \in Connections, CancelOperation(c) \/ CancelAllOperations
      PROVE  FolderInv'
  <2>1. SameButCancelled /\ UNCHANGED pool
    BY <1>4, CancelledFacts
  <2> QED
    BY <2>1, FolderKept DEF SameButCancelled
<1>5. ASSUME UNCHANGED pool, mOperations' = mOperations
      PROVE  FolderInv'
  BY <1>5, FolderKept
<1>6. CASE ReleaseSession \/ UNCHANGED vars
  BY <1>5, <1>6 DEF ReleaseSession, queueVars, vars
<1>7. ASSUME NEW c \in Connections, LeaveMain(c) \/ SkipCancelled(c)
      PROVE  FolderInv'
  <2>1. UNCHANGED pool /\ mOperations[c] # <<>> /\ mOperations' = Removed(c)
    BY <1>7 DEF LeaveMain, SkipCancelled, ControlInv, InMainServes
  <2>2. ASSUME NEW d \in Connections, NEW i \in DOMAIN mOperations'[d]
        PROVE  \E j \in DOMAIN mOperations[d] :
                 mOperations'[d][i].folder = mOperations[d][j].folder
    <3>1. mOperations'[d] = IF d = c THEN Tail(mOperations[c]) ELSE mOperations[d]
      BY <2>1, RemovedFacts
    <3>2. mOperations[c] \in Seq(Operation)
      BY DEF Types
    <3>3. CASE d = c
      <4>1. /\ Tail(mOperations[c]) \in Seq(Operation)
            /\ Len(Tail(mOperations[c])) = Len(mOperations[c]) - 1
            /\ Len(mOperations[c]) \in Nat
            /\ DOMAIN mOperations[c] = 1 .. Len(mOperations[c])
            /\ \A j \in 1 .. Len(mOperations[c]) - 1 :
                 Tail(mOperations[c])[j] = mOperations[c][j + 1]
        BY <2>1, <3>2, TailFacts, QueueFacts
      <4>2. i \in 1 .. Len(mOperations[c]) - 1
        BY <2>2, <3>1, <3>3, <4>1, QueueFacts
      <4>3. /\ i + 1 \in DOMAIN mOperations[c]
            /\ mOperations'[c][i] = mOperations[c][i + 1]
        <5>1. i + 1 \in DOMAIN mOperations[c]
          BY <4>1, <4>2
        <5>2. Tail(mOperations[c])[i] = mOperations[c][i + 1]
          BY <4>1, <4>2
        <5> QED
          BY <3>1, <3>3, <5>1, <5>2
      <4> QED
        BY <3>3, <4>3
    <3>4. CASE d # c
      BY <2>2, <3>1, <3>4
    <3> QED
      BY <3>3, <3>4
  <2> QED
    BY <2>1, <2>2, FolderKept
<1>8. ASSUME NEW c \in Connections,
             EnterMain(c) \/ CheckRunning(c) \/ WorkerStops(c) \/ StoppedOnMainThread(c)
      PROVE  FolderInv'
  BY <1>5, <1>8 DEF EnterMain, CheckRunning, WorkerStops, Moves, StoppedOnMainThread
<1>9. ASSUME NEW c \in Sessions, Worker(c) \/ TryAutomaticDisconnectAfterDelay(c)
      PROVE  FolderInv'
  BY <1>3, <1>7, <1>8, <1>9, SessionsFacts DEF Worker
<1>10. CASE CancelAllOperations
  <2>1. CASE Connections = {}
    BY <1>10, <2>1, FolderKept DEF CancelAllOperations
  <2> QED
    BY <1>4, <1>10, <2>1
<1> QED
  BY <1>1, <1>2, <1>4, <1>6, <1>9, <1>10, SessionsFacts DEF Next, Client

LEMMA FolderInit == Init => FolderInv
BY DEF Init, FolderInv

\* Unless concurrent access is allowed no two connections work on one folder
\* at once, whatever operations on however many folders up to the pool's limit
\* are started, cancelled and delayed (sessionForFolder;
\* src/objc/imap/MCOIMAPSession.h:106).
THEOREM FolderHasOneConnection ==
  FoldersFit => (Spec => []OneConnectionPerFolder)
<1> SUFFICES ASSUME FoldersFit PROVE Spec => []OneConnectionPerFolder
  OBVIOUS
<1>1. IInv /\ FolderInv /\ [Next]_vars => (IInv /\ FolderInv)'
  BY InvNext, FolderNext DEF IInv
<1>2. Init => IInv /\ FolderInv
  BY InvInit, FolderInit
<1>3. IInv /\ FolderInv => OneConnectionPerFolder
  <2> SUFFICES ASSUME IInv, FolderInv, ~mAllowsFolderConcurrentAccessEnabled,
                      NEW folder \in Folders
               PROVE  Cardinality(RunningOn(folder)) <= 1
    BY DEF OneConnectionPerFolder
  <2>1. ASSUME NEW c \in RunningOn(folder)
        PROVE  c \in Connections /\ mLastFolder[c] = folder
    <3>1. c \in Connections /\ inMain[c] /\ Head(mOperations[c]).folder = folder
      BY SessionsFacts DEF RunningOn, IInv
    <3>2. mOperations[c] \in Seq(Operation) /\ mOperations[c] # <<>>
      BY <3>1 DEF IInv, Types, ControlInv, InMainServes
    <3>3. Head(mOperations[c]) = mOperations[c][1] /\ 1 \in DOMAIN mOperations[c]
      BY <3>2, TailFacts
    <3>4. folder # NULL
      BY SessionAssumption
    <3> QED
      BY <3>1, <3>3, <3>4 DEF FolderInv
  <2>2. \A c, d \in RunningOn(folder) : c = d
    BY <2>1, SessionAssumption DEF FolderInv
  <2>3. CASE RunningOn(folder) = {}
    BY <2>3, FS_EmptySet
  <2>4. CASE RunningOn(folder) # {}
    <3>1. PICK c : RunningOn(folder) = {c}
      BY <2>2, <2>4
    <3> QED
      BY <3>1, FS_Singleton
  <2> QED
    BY <2>3, <2>4
<1> QED
  BY <1>1, <1>2, <1>3, PTL DEF Spec
=============================================================================
