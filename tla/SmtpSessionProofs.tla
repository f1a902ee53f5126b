------------------------- MODULE SmtpSessionProofs -------------------------
(***************************************************************************)
(* Proofs about SmtpSession, for any sends and other operations, however   *)
(* the client cancels them and the connection fails.                       *)
(***************************************************************************)
EXTENDS SmtpSession, TLAPS

Busy(o) == phase[o] \in {"running", "finished"}

\* One operation at a time is in main() or awaits its callback.
RunInv ==
  /\ phase \in [Operations -> Queue!Phases]
  /\ \A o, p \in Operations : Busy(o) /\ Busy(p) => o = p
  /\ pc # "idle" <=> \E o \in Operations : Running(o)
  /\ \A o \in Sends : Running(o) => kind = "send"
  /\ pc \in {"reset", "connect", "login", "act"} =>
       kind \in {"send", "login", "check", "noop"}
  /\ pc = "quit" => kind = "disconnect"

\* From the login to the end of a send there is an open connection, and the
\* user is logged in to the one that is open.
ConnectionInv ==
  /\ mState # "DISCONNECTED" => mSmtp
  /\ pc \in {"login", "act", "arm", "send", "disarm"} => mSmtp /\ stream # "none"
  /\ pc \in {"act", "arm", "send"} => mState = "LOGGEDIN"
  /\ mState = "LOGGEDIN" /\ stream # "none" => authed \/ credentials = "none"

\* A connection that failed is marked, or about to be closed by the send that
\* saw it.
FaultInv ==
  /\ seen \subseteq {"noop"} \/ mShouldDisconnect \/ pc \in {"disarm", "close"}
  /\ FailedConnectionIsReplaced

\* The main thread has the lock only while the worker is sending, as the
\* worker needs it to go on.
CancelInv ==
  /\ mCanCancel => pc \in {"send", "disarm"}
  /\ LockHeld => pc \in {"send", "disarm"}
  /\ ~Idle => canceller[1] \subseteq cancelled

\* Whose message was delivered, and whose cancel was heard.
SentInv ==
  /\ delivered \/ early => \E o \in Operations : Busy(o)
  /\ delivered => pc \in {"idle", "disarm", "close"}
  /\ early => pc \in {"idle", "connect", "login", "act"}
  /\ early /\ pc # "idle" => mSendingCancelled
  /\ EarlyCancelIsHeard
  /\ r \in {"ok", "stream", "refused"}
  /\ pc \in {"disarm", "close"} /\ r = "ok" => delivered
  /\ \A o \in Sends :
       Running(o) /\ pc \in {"connect", "login", "act"} /\ mSendingCancelled
         => o \in cancelled \/ disturbed
  /\ UndisturbedSuccessMeansSent

SInv == RunInv /\ ConnectionInv /\ FaultInv /\ CancelInv /\ SentInv

-----------------------------------------------------------------------------
(* What the steps of the queue do.                                         *)

\* The queue goes on without an operation beginning or ending.
Calm ==
  /\ phase' \in [Operations -> Queue!Phases]
  /\ cancelled \subseteq cancelled'
  /\ \A o \in Operations :
       /\ phase'[o] = "running" <=> phase[o] = "running"
       /\ phase'[o] = "finished" <=> phase[o] = "finished"

\* An operation begins, and none was busy; its main() is over; its callback
\* was made or dropped.
Begun(o) ==
  /\ phase' \in [Operations -> Queue!Phases] /\ UNCHANGED cancelled
  /\ \A p \in Operations : /\ ~Busy(p)
                           /\ phase'[p] = "running" <=> p = o
                           /\ phase'[p] # "finished"
Over(o) ==
  /\ phase' \in [Operations -> Queue!Phases] /\ UNCHANGED cancelled
  /\ Running(o)
  /\ \A p \in Operations : /\ phase'[p] = "finished" <=> p = o
                           /\ phase'[p] # "running"
Gone(o) ==
  /\ phase' \in [Operations -> Queue!Phases] /\ UNCHANGED cancelled
  /\ phase[o] = "finished"
  /\ \A p \in Operations : phase'[p] \notin {"running", "finished"}

LEMMA QueueRests == RunInv /\ UNCHANGED queueVars => Calm
BY DEF RunInv, queueVars, Calm

LEMMA QueueAdds ==
  ASSUME RunInv, NEW o \in Operations, Queue!Add(o)
  PROVE  Calm
BY DEF RunInv, Queue!Add, Queue!Move, Queue!Phases, Calm

LEMMA QueueSkips ==
  ASSUME RunInv, NEW o \in Operations, Queue!Skip(o)
  PROVE  Calm
BY DEF RunInv, Queue!Skip, Queue!Move, Queue!Phases, Calm

LEMMA QueueCancels ==
  ASSUME RunInv, NEW S, Queue!Cancel(S)
  PROVE  Calm
BY DEF RunInv, Queue!Cancel, Calm

LEMMA QueueServes == RunInv /\ (Queue!Quit \/ Queue!Stop \/ Queue!Stopped) => Calm
BY DEF RunInv, Queue!Quit, Queue!Stop, Queue!Stopped, Calm

LEMMA QueueBegins ==
  ASSUME RunInv, NEW o \in Operations, Queue!Begin(o)
  PROVE  Begun(o)
BY DEF RunInv, Queue!Begin, Queue!AtHead, Queue!Idle, Queue!Move, Queue!Phases,
       Busy, Begun

LEMMA QueueFinishes ==
  ASSUME RunInv, NEW o \in Operations, Queue!Finish(o)
  PROVE  Over(o)
BY DEF RunInv, Queue!Finish, Queue!Move, Queue!Phases, Busy, Running, Over

LEMMA QueueAnswers ==
  ASSUME RunInv, NEW o \in Operations, Queue!Call(o) \/ Queue!Drop(o)
  PROVE  Gone(o)
BY DEF RunInv, Queue!Call, Queue!Drop, Queue!Move, Queue!Phases, Busy, Gone

-----------------------------------------------------------------------------
(* The steps.                                                              *)

LEMMA BeginStep ==
  ASSUME SInv, NEW o \in Operations, Begin(o)
  PROVE  SInv'
<1>0. RunInv
  BY DEF SInv
<1>1. Begun(o)
  BY <1>0, QueueBegins DEF Begin
<1>2. RunInv'
  <2>1. \/ kind' = "send" /\ pc' = "reset"
        \/ kind' = "disconnect" /\ pc' = "quit"
        \/ kind' \in {"login", "check", "noop"} /\ pc' = "connect"
    BY DEF Begin, Kinds
  <2>2. o \in Sends => kind' = "send"
    BY DEF Begin
  <2> QED
    BY <1>1, <2>1, <2>2 DEF Begun, RunInv, Running, Busy, Operations
<1>3. ConnectionInv'
  BY <1>1 DEF Begin, connectionVars, ConnectionInv, SInv
<1>4. FaultInv'
  BY <1>1
     DEF Begin, connectionVars, FaultInv, FailedConnectionIsReplaced, Begun,
         SInv, RunInv, Running, Busy
<1>5. CancelInv'
  BY <1>1
     DEF Begin, clientVars, CancelInv, LockHeld, Idle, Begun, SInv, RunInv,
         Running, Busy
<1>6. SentInv'
  BY <1>1
     DEF Begin, history, SentInv, EarlyCancelIsHeard,
         UndisturbedSuccessMeansSent, Running, Begun, SInv, Operations
<1> QED
  BY <1>2, <1>3, <1>4, <1>5, <1>6 DEF SInv

LEMMA ResetStep ==
  ASSUME SInv, NEW o \in Operations, Reset(o)
  PROVE  SInv'
<1>0. RunInv
  BY DEF SInv
<1>1. \/ Calm /\ pc' # "idle" /\ UNCHANGED <<pError, kind>>
      \/ Over(o) /\ pc' = "idle"
  <2>1. \/ UNCHANGED <<queueVars, pError, kind>> /\ pc' # "idle"
        \/ pc' = "idle" /\ Queue!Finish(o)
    BY DEF Reset, Return
  <2> QED
    BY <1>0, <2>1, QueueRests, QueueFinishes
<1>2. RunInv'
  <2>1. CASE Calm /\ pc' # "idle" /\ UNCHANGED kind
    BY <1>0, <2>1 DEF Reset, Return, RunInv, Running, Busy, Operations, Calm
  <2>2. CASE Over(o) /\ pc' = "idle"
    BY <1>0, <2>2 DEF RunInv, Running, Busy, Operations, Over
  <2> QED
    BY <1>1, <2>1, <2>2
<1>3. ConnectionInv'
  BY <1>1 DEF Reset, Return, connectionVars, ConnectionInv, SInv
<1>4. FaultInv'
  BY <1>1
     DEF Reset, Return, connectionVars, FaultInv, FailedConnectionIsReplaced,
         SInv
<1>5. CancelInv'
  BY <1>1 DEF Reset, clientVars, CancelInv, LockHeld, Idle, Calm, Over, SInv
<1>6. SentInv'
  BY <1>1
     DEF Reset, Return, history, SentInv, EarlyCancelIsHeard,
         UndisturbedSuccessMeansSent, Calm, SInv, Operations
<1> QED
  BY <1>2, <1>3, <1>4, <1>5, <1>6 DEF SInv

LEMMA NoopUnsetStep ==
  ASSUME SInv, NEW o \in Operations, NoopUnset(o)
  PROVE  SInv'
<1>0. RunInv
  BY DEF SInv
<1>1. Over(o) /\ pc' = "idle"
  BY <1>0, QueueFinishes DEF NoopUnset, Return
<1>2. RunInv'
  BY <1>1 DEF RunInv, Running, Busy, Over, Operations
<1>3. ConnectionInv'
  BY <1>1 DEF NoopUnset, connectionVars, ConnectionInv, SInv
<1>4. FaultInv'
  BY <1>1
     DEF NoopUnset, connectionVars, FaultInv, FailedConnectionIsReplaced, SInv
<1>5. CancelInv'
  BY <1>1 DEF NoopUnset, clientVars, CancelInv, LockHeld, Idle, Over, SInv
<1>6. SentInv'
  BY <1>1
     DEF NoopUnset, history, SentInv, RunInv, EarlyCancelIsHeard,
         UndisturbedSuccessMeansSent, Busy, Over, SInv, Operations
<1> QED
  BY <1>2, <1>3, <1>4, <1>5, <1>6 DEF SInv

LEMMA ConnectIfNeededStep ==
  ASSUME SInv, NEW o \in Operations, ConnectIfNeeded(o)
  PROVE  SInv'
<1>0. RunInv
  BY DEF SInv
<1>1. \/ Calm /\ pc' # "idle" /\ UNCHANGED <<pError, kind>>
      \/ Over(o) /\ pc' = "idle"
  <2>1. \/ UNCHANGED <<queueVars, pError, kind>> /\ pc' # "idle"
        \/ pc' = "idle" /\ Queue!Finish(o)
    BY DEF ConnectIfNeeded, Connect, Return
  <2> QED
    BY <1>0, <2>1, QueueRests, QueueFinishes
<1>2. RunInv'
  <2>1. CASE Calm /\ pc' # "idle" /\ UNCHANGED kind
    BY <1>0, <2>1
       DEF ConnectIfNeeded, Connect, Return, RunInv, Running, Busy, Operations,
           Calm
  <2>2. CASE Over(o) /\ pc' = "idle"
    BY <1>0, <2>2 DEF RunInv, Running, Busy, Operations, Over
  <2> QED
    BY <1>1, <2>1, <2>2
<1>3. ConnectionInv'
  BY <1>1 DEF ConnectIfNeeded, Connect, Return, ConnectionInv, SInv
<1>4. FaultInv'
  BY <1>1
     DEF ConnectIfNeeded, Connect, FaultInv, ConnectionInv,
         FailedConnectionIsReplaced, SInv
<1>5. CancelInv'
  BY <1>1
     DEF ConnectIfNeeded, clientVars, CancelInv, LockHeld, Idle, Calm, Over,
         SInv
<1>6. SentInv'
  BY <1>1
     DEF ConnectIfNeeded, Connect, Return, history, SentInv,
         EarlyCancelIsHeard, UndisturbedSuccessMeansSent, Running, Busy, Calm,
         Over, SInv, Operations
<1> QED
  BY <1>2, <1>3, <1>4, <1>5, <1>6 DEF SInv

LEMMA LoginStep ==
  ASSUME SInv, NEW o \in Operations, Login(o)
  PROVE  SInv'
<1>0. RunInv
  BY DEF SInv
<1>1. \/ Calm /\ pc' # "idle" /\ UNCHANGED <<pError, kind>>
      \/ Over(o) /\ pc' = "idle"
  <2>1. \/ UNCHANGED <<queueVars, pError, kind>> /\ pc' # "idle"
        \/ pc' = "idle" /\ Queue!Finish(o)
    BY DEF Login, Authenticate, Return
  <2> QED
    BY <1>0, <2>1, QueueRests, QueueFinishes
<1>2. RunInv'
  <2>1. CASE Calm /\ pc' # "idle" /\ UNCHANGED kind
    BY <1>0, <2>1
       DEF Login, Authenticate, Return, RunInv, Running, Busy, Operations, Calm
  <2>2. CASE Over(o) /\ pc' = "idle"
    BY <1>0, <2>2 DEF RunInv, Running, Busy, Operations, Over
  <2> QED
    BY <1>1, <2>1, <2>2
<1>3. ConnectionInv'
  BY <1>1 DEF Login, Authenticate, Answered, Return, ConnectionInv, SInv
<1>4. FaultInv'
  BY <1>1
     DEF Login, Authenticate, Answered, Return, FaultInv,
         FailedConnectionIsReplaced, SInv
<1>5. CancelInv'
  BY <1>1 DEF Login, clientVars, CancelInv, LockHeld, Idle, Calm, Over, SInv
<1>6. SentInv'
  BY <1>1
     DEF Login, Authenticate, Return, history, SentInv, EarlyCancelIsHeard,
         UndisturbedSuccessMeansSent, Running, Busy, Calm, Over, SInv,
         Operations
<1> QED
  BY <1>2, <1>3, <1>4, <1>5, <1>6 DEF SInv

LEMMA CommandStep ==
  ASSUME SInv, NEW o \in Operations, Command(o)
  PROVE  SInv'
<1>0. RunInv
  BY DEF SInv
<1>1. Over(o) /\ pc' = "idle"
  BY <1>0, QueueFinishes DEF Command, Return
<1>2. RunInv'
  BY <1>1 DEF RunInv, Running, Busy, Over, Operations
<1>3. ConnectionInv'
  BY <1>1 DEF Command, ConnectionInv, SInv
<1>4. FaultInv'
  BY <1>1
     DEF Command, Answered, NotAnswered, FaultInv, FailedConnectionIsReplaced,
         SInv, RunInv
<1>5. CancelInv'
  BY <1>1 DEF Command, clientVars, CancelInv, LockHeld, Idle, Over, SInv
<1>6. SentInv'
  BY <1>1
     DEF Command, history, SentInv, RunInv, EarlyCancelIsHeard,
         UndisturbedSuccessMeansSent, Busy, Over, SInv, Operations
<1> QED
  BY <1>2, <1>3, <1>4, <1>5, <1>6 DEF SInv

LEMMA CheckStep ==
  ASSUME SInv, NEW o \in Operations, Check(o)
  PROVE  SInv'
<1>0. RunInv
  BY DEF SInv
<1>1. \/ Calm /\ pc' # "idle" /\ UNCHANGED <<pError, kind>>
      \/ Over(o) /\ pc' = "idle"
  <2>1. \/ UNCHANGED <<queueVars, pError, kind>> /\ pc' # "idle"
        \/ pc' = "idle" /\ Queue!Finish(o)
    BY DEF Check, Return
  <2> QED
    BY <1>0, <2>1, QueueRests, QueueFinishes
<1>2. RunInv'
  <2>1. CASE Calm /\ pc' # "idle" /\ UNCHANGED kind
    BY <1>0, <2>1 DEF Check, Return, RunInv, Running, Busy, Calm
  <2>2. CASE Over(o) /\ pc' = "idle"
    BY <1>0, <2>2 DEF RunInv, Running, Busy, Operations, Over
  <2> QED
    BY <1>1, <2>1, <2>2
<1>3. ConnectionInv'
  BY <1>1 DEF Check, connectionVars, ConnectionInv, SInv
<1>4. FaultInv'
  BY <1>1 DEF Check, connectionVars, FaultInv, FailedConnectionIsReplaced, SInv
<1>5. CancelInv'
  BY <1>1 DEF Check, clientVars, CancelInv, LockHeld, Idle, Calm, Over, SInv
<1>6. SentInv'
  BY <1>1
     DEF Check, Return, history, SentInv, EarlyCancelIsHeard,
         UndisturbedSuccessMeansSent, Busy, Calm, Over, SInv, Operations
<1> QED
  BY <1>2, <1>3, <1>4, <1>5, <1>6 DEF SInv

LEMMA ArmStep ==
  ASSUME SInv, NEW o \in Operations, Arm(o)
  PROVE  SInv'
<1>0. RunInv
  BY DEF SInv
<1>1. Calm
  BY <1>0, QueueRests DEF Arm
<1>2. RunInv'
  BY <1>1 DEF Arm, RunInv, Running, Busy, Calm, SInv, Operations
<1>3. ConnectionInv'
  BY <1>1 DEF Arm, connectionVars, ConnectionInv, SInv
<1>4. FaultInv'
  BY <1>1 DEF Arm, connectionVars, FaultInv, FailedConnectionIsReplaced, SInv
<1>5. CancelInv'
  BY <1>1 DEF Arm, clientVars, CancelInv, Idle, Calm, SInv
<1>6. SentInv'
  BY <1>1
     DEF Arm, history, SentInv, EarlyCancelIsHeard,
         UndisturbedSuccessMeansSent, Calm, SInv, Operations
<1> QED
  BY <1>2, <1>3, <1>4, <1>5, <1>6 DEF SInv

LEMMA SendStep ==
  ASSUME SInv, NEW o \in Operations, Send(o)
  PROVE  SInv'
<1>0. RunInv
  BY DEF SInv
<1>1. Calm
  BY <1>0, QueueRests DEF Send
<1>2. RunInv'
  BY <1>1 DEF Send, RunInv, Running, Busy, Calm, SInv, Operations
<1>3. ConnectionInv'
  BY <1>1 DEF Send, Answered, NotAnswered, ConnectionInv, SInv
<1>4. FaultInv'
  BY <1>1 DEF Send, FaultInv, FailedConnectionIsReplaced
<1>5. CancelInv'
  BY <1>1 DEF Send, clientVars, CancelInv, Idle, Calm, SInv
<1>6. SentInv'
  BY <1>1
     DEF Send, SentInv, EarlyCancelIsHeard, UndisturbedSuccessMeansSent,
         Running, Busy, Calm, SInv, Operations
<1> QED
  BY <1>2, <1>3, <1>4, <1>5, <1>6 DEF SInv

LEMMA DisarmStep ==
  ASSUME SInv, NEW o \in Operations, Disarm(o)
  PROVE  SInv'
<1>0. RunInv
  BY DEF SInv
<1>1. Calm
  BY <1>0, QueueRests DEF Disarm
<1>2. RunInv'
  BY <1>1 DEF Disarm, RunInv, Running, Busy, Calm, SInv, Operations
<1>3. ConnectionInv'
  BY <1>1 DEF Disarm, connectionVars, ConnectionInv, SInv
<1>4. FaultInv'
  BY <1>1 DEF Disarm, FaultInv, FailedConnectionIsReplaced
<1>5. CancelInv'
  BY <1>1 DEF Disarm, clientVars, CancelInv, LockHeld, Idle, Calm, SInv
<1>6. SentInv'
  BY <1>1
     DEF Disarm, history, SentInv, EarlyCancelIsHeard,
         UndisturbedSuccessMeansSent, Busy, Calm, SInv, Operations
<1> QED
  BY <1>2, <1>3, <1>4, <1>5, <1>6 DEF SInv

LEMMA CloseStep ==
  ASSUME SInv, NEW o \in Operations, Close(o)
  PROVE  SInv'
<1>0. RunInv
  BY DEF SInv
<1>1. Over(o) /\ pc' = "idle"
  BY <1>0, QueueFinishes DEF Close, Return
<1>2. RunInv'
  BY <1>1 DEF RunInv, Running, Busy, Over, Operations
<1>3. ConnectionInv'
  BY <1>1 DEF Close, ConnectionInv, SInv
<1>4. FaultInv'
  BY <1>1 DEF Close, FaultInv, FailedConnectionIsReplaced
<1>5. CancelInv'
  BY <1>1 DEF Close, clientVars, CancelInv, LockHeld, Idle, Over, SInv
<1>6. SentInv'
  BY <1>1
     DEF Close, Return, SendError, history, SentInv, EarlyCancelIsHeard,
         UndisturbedSuccessMeansSent, Busy, Over, SInv
<1> QED
  BY <1>2, <1>3, <1>4, <1>5, <1>6 DEF SInv

LEMMA DisconnectStep ==
  ASSUME SInv, NEW o \in Operations, Disconnect(o)
  PROVE  SInv'
<1>0. RunInv
  BY DEF SInv
<1>1. Over(o) /\ pc' = "idle"
  BY <1>0, QueueFinishes DEF Disconnect, Return
<1>2. RunInv'
  BY <1>1 DEF RunInv, Running, Busy, Over, Operations
<1>3. ConnectionInv'
  BY <1>1 DEF Disconnect, Disconnected, ConnectionInv, SInv
<1>4. FaultInv'
  BY <1>1 DEF Disconnect, Disconnected, FaultInv, FailedConnectionIsReplaced
<1>5. CancelInv'
  BY <1>1 DEF Disconnect, clientVars, CancelInv, LockHeld, Idle, Over, SInv
<1>6. SentInv'
  BY <1>1
     DEF Disconnect, history, SentInv, RunInv, EarlyCancelIsHeard,
         UndisturbedSuccessMeansSent, Over, SInv, Operations
<1> QED
  BY <1>2, <1>3, <1>4, <1>5, <1>6 DEF SInv

LEMMA AnswerStep ==
  ASSUME SInv, NEW o \in Operations, Answer(o)
  PROVE  SInv'
<1>0. RunInv
  BY DEF SInv
<1>1. Gone(o)
  BY <1>0, QueueAnswers DEF Answer
<1>2. RunInv'
  BY <1>1 DEF Answer, RunInv, Running, Busy, Gone, SInv, Operations
<1>3. ConnectionInv'
  BY <1>1 DEF Answer, connectionVars, ConnectionInv, SInv
<1>4. FaultInv'
  BY <1>1
     DEF Answer, connectionVars, FaultInv, FailedConnectionIsReplaced, SInv
<1>5. CancelInv'
  BY <1>1 DEF Answer, clientVars, CancelInv, LockHeld, Idle, SInv
<1>6. SentInv'
  BY <1>1
     DEF Answer, SentInv, RunInv, EarlyCancelIsHeard,
         UndisturbedSuccessMeansSent, Running, Busy, Gone, SInv, Operations
<1> QED
  BY <1>2, <1>3, <1>4, <1>5, <1>6 DEF SInv

LEMMA StartStep ==
  ASSUME SInv, NEW o \in Operations, Start(o)
  PROVE  SInv'
<1>0. RunInv
  BY DEF SInv
<1>1. Calm
  BY <1>0, QueueAdds DEF Start
<1>2. RunInv'
  BY <1>1 DEF Start, RunInv, Running, Busy, Calm, SInv, Operations
<1>3. ConnectionInv'
  BY <1>1 DEF Start, connectionVars, ConnectionInv, SInv
<1>4. FaultInv'
  BY <1>1 DEF Start, connectionVars, FaultInv, FailedConnectionIsReplaced, SInv
<1>5. CancelInv'
  BY <1>1 DEF Start, CancelInv, LockHeld, Idle, SInv
<1>6. SentInv'
  BY <1>1
     DEF Start, history, SentInv, EarlyCancelIsHeard,
         UndisturbedSuccessMeansSent, Running, Busy, Calm, SInv, Operations
<1> QED
  BY <1>2, <1>3, <1>4, <1>5, <1>6 DEF SInv

LEMMA CancelStep ==
  ASSUME SInv, NEW o \in Operations, Cancel(o)
  PROVE  SInv'
<1>0. RunInv
  BY DEF SInv
<1>1. Calm
  BY <1>0, QueueCancels DEF Cancel
<1>2. RunInv'
  BY <1>1 DEF Cancel, RunInv, Running, Busy, Calm, SInv, Operations
<1>3. ConnectionInv'
  BY <1>1 DEF Cancel, connectionVars, ConnectionInv, SInv
<1>4. FaultInv'
  BY <1>1
     DEF Cancel, connectionVars, FaultInv, FailedConnectionIsReplaced, SInv
<1>5. CancelInv'
  BY <1>1 DEF Cancel, CancelSends, CancelInv, LockHeld, Idle, SInv, Queue!Cancel
<1>6. SentInv'
  BY <1>1
     DEF Cancel, history, SentInv, EarlyCancelIsHeard,
         UndisturbedSuccessMeansSent, Running, Busy, Calm, SInv, Operations
<1> QED
  BY <1>2, <1>3, <1>4, <1>5, <1>6 DEF SInv

LEMMA CancelAllStep ==
  ASSUME SInv, CancelAllOperations
  PROVE  SInv'
<1>0. RunInv
  BY DEF SInv
<1>1. Calm
  BY <1>0, QueueCancels DEF CancelAllOperations
<1>2. RunInv'
  BY <1>1 DEF CancelAllOperations, RunInv, Running, Busy, Calm, SInv, Operations
<1>3. ConnectionInv'
  BY <1>1 DEF CancelAllOperations, connectionVars, ConnectionInv, SInv
<1>4. FaultInv'
  BY <1>1
     DEF CancelAllOperations, connectionVars, FaultInv, FailedConnectionIsReplaced, SInv
<1>5. CancelInv'
  BY <1>1 DEF CancelAllOperations, CancelSends, CancelInv, LockHeld, Idle, SInv, Queue!Cancel
<1>6. SentInv'
  BY <1>1
     DEF CancelAllOperations, history, SentInv, EarlyCancelIsHeard,
         UndisturbedSuccessMeansSent, Running, Busy, Calm, SInv, Operations
<1> QED
  BY <1>2, <1>3, <1>4, <1>5, <1>6 DEF SInv

LEMMA CancellingStep ==
  ASSUME SInv, Cancelling
  PROVE  SInv'
<1>0. RunInv
  BY DEF SInv
<1>1. Calm
  BY <1>0, QueueRests DEF Cancelling, CancelFlag, CancelLook, CancelStream
<1>2. RunInv'
  BY <1>1
     DEF Cancelling, CancelFlag, CancelLook, CancelStream, RunInv, Running,
         Busy, Calm, SInv, Operations
<1>3. ConnectionInv'
  BY <1>1
     DEF Cancelling, CancelFlag, CancelLook, CancelStream, connectionVars,
         ConnectionInv, SInv
<1>4. FaultInv'
  BY <1>1
     DEF Cancelling, CancelFlag, CancelLook, CancelStream, connectionVars,
         FaultInv, FailedConnectionIsReplaced, SInv
<1>5. CancelInv'
  BY <1>1
     DEF Cancelling, CancelFlag, CancelLook, CancelStream, CancelSends,
         CancelInv, LockHeld, Idle, Calm, SInv
<1>6. SentInv'
  <2>1. CASE CancelFlag
    BY <1>1, <2>1
       DEF CancelFlag, SentInv, RunInv, CancelInv, EarlyCancelIsHeard,
           UndisturbedSuccessMeansSent, Running, Busy, LockHeld, Calm, SInv,
           Operations
  <2>2. CASE CancelLook
    BY <1>1, <2>2
       DEF CancelLook, history, SentInv, EarlyCancelIsHeard,
           UndisturbedSuccessMeansSent, Running, Busy, Calm, SInv, Operations
  <2>3. CASE CancelStream
    BY <1>1, <2>3
       DEF CancelStream, history, SentInv, EarlyCancelIsHeard,
           UndisturbedSuccessMeansSent, Running, Busy, Calm, SInv, Operations
  <2> QED
    BY <2>1, <2>2, <2>3 DEF Cancelling
<1> QED
  BY <1>2, <1>3, <1>4, <1>5, <1>6 DEF SInv

LEMMA WaitStep ==
  ASSUME SInv, Wait
  PROVE  SInv'
<1>0. RunInv
  BY DEF SInv
<1>1. Calm
  BY <1>0, QueueServes, QueueSkips DEF Wait
<1>2. RunInv'
  BY <1>1 DEF Wait, RunInv, Running, Busy, Calm, SInv, Operations
<1>3. ConnectionInv'
  BY <1>1 DEF Wait, connectionVars, ConnectionInv, SInv
<1>4. FaultInv'
  BY <1>1 DEF Wait, connectionVars, FaultInv, FailedConnectionIsReplaced, SInv
<1>5. CancelInv'
  BY <1>1 DEF Wait, clientVars, CancelInv, LockHeld, Idle, Calm, SInv
<1>6. SentInv'
  BY <1>1
     DEF Wait, history, SentInv, EarlyCancelIsHeard,
         UndisturbedSuccessMeansSent, Running, Busy, Calm, SInv, Operations
<1> QED
  BY <1>2, <1>3, <1>4, <1>5, <1>6 DEF SInv

LEMMA StoppedStep ==
  ASSUME SInv, Stopped
  PROVE  SInv'
<1>0. RunInv
  BY DEF SInv
<1>1. Calm
  BY <1>0, QueueServes DEF Stopped
<1>2. RunInv'
  BY <1>1 DEF Stopped, RunInv, Running, Busy, Calm, SInv, Operations
<1>3. ConnectionInv'
  BY <1>1 DEF Stopped, connectionVars, ConnectionInv, SInv
<1>4. FaultInv'
  BY <1>1
     DEF Stopped, connectionVars, FaultInv, FailedConnectionIsReplaced, SInv
<1>5. CancelInv'
  BY <1>1 DEF Stopped, CancelInv, LockHeld, Idle, SInv
<1>6. SentInv'
  BY <1>1
     DEF Stopped, history, SentInv, EarlyCancelIsHeard,
         UndisturbedSuccessMeansSent, Running, Busy, Calm, SInv, Operations
<1> QED
  BY <1>2, <1>3, <1>4, <1>5, <1>6 DEF SInv

LEMMA ElapseStep ==
  ASSUME SInv, Elapse
  PROVE  SInv'
<1>0. RunInv
  BY DEF SInv
<1>1. Calm
  BY <1>0, QueueAdds DEF Elapse, Operations
<1>2. RunInv'
  BY <1>1 DEF Elapse, RunInv, Running, Busy, Calm, SInv, Operations
<1>3. ConnectionInv'
  BY <1>1 DEF Elapse, connectionVars, ConnectionInv, SInv
<1>4. FaultInv'
  BY <1>1
     DEF Elapse, connectionVars, FaultInv, FailedConnectionIsReplaced, SInv
<1>5. CancelInv'
  BY <1>1 DEF Elapse, CancelInv, LockHeld, Idle, SInv
<1>6. SentInv'
  BY <1>1
     DEF Elapse, history, SentInv, EarlyCancelIsHeard,
         UndisturbedSuccessMeansSent, Running, Busy, Calm, SInv, Operations
<1> QED
  BY <1>2, <1>3, <1>4, <1>5, <1>6 DEF SInv

LEMMA FreeStep ==
  ASSUME SInv, Free
  PROVE  SInv'
<1>0. RunInv
  BY DEF SInv
<1>1. Calm
  BY <1>0, QueueRests DEF Free
<1>2. RunInv'
  BY <1>1 DEF Free, RunInv, Running, Busy, Calm, SInv, Operations
<1>3. ConnectionInv'
  BY <1>1 DEF Free, connectionVars, ConnectionInv, SInv
<1>4. FaultInv'
  BY <1>1 DEF Free, connectionVars, FaultInv, FailedConnectionIsReplaced, SInv
<1>5. CancelInv'
  BY <1>1 DEF Free, CancelInv, LockHeld, Idle, SInv
<1>6. SentInv'
  BY <1>1
     DEF Free, history, SentInv, EarlyCancelIsHeard,
         UndisturbedSuccessMeansSent, Running, Busy, Calm, SInv, Operations
<1> QED
  BY <1>2, <1>3, <1>4, <1>5, <1>6 DEF SInv

LEMMA ServerDropsStep ==
  ASSUME SInv, ServerDrops
  PROVE  SInv'
<1>0. RunInv
  BY DEF SInv
<1>1. Calm
  BY <1>0, QueueRests DEF ServerDrops
<1>2. RunInv'
  BY <1>1 DEF ServerDrops, RunInv, Running, Busy, Calm, SInv, Operations
<1>3. ConnectionInv'
  BY <1>1 DEF ServerDrops, ConnectionInv, SInv
<1>4. FaultInv'
  BY <1>1 DEF ServerDrops, FaultInv, FailedConnectionIsReplaced, SInv
<1>5. CancelInv'
  BY <1>1 DEF ServerDrops, clientVars, CancelInv, LockHeld, Idle, Calm, SInv
<1>6. SentInv'
  BY <1>1
     DEF ServerDrops, history, SentInv, EarlyCancelIsHeard,
         UndisturbedSuccessMeansSent, Running, Busy, Calm, SInv, Operations
<1> QED
  BY <1>2, <1>3, <1>4, <1>5, <1>6 DEF SInv

LEMMA SmtpInit == Init => SInv
BY DEF Init, Queue!Init, Queue!Phases, SInv, RunInv, ConnectionInv, FaultInv,
       CancelInv, SentInv, FailedConnectionIsReplaced, EarlyCancelIsHeard,
       UndisturbedSuccessMeansSent, Busy, Running, Idle, LockHeld, Operations

LEMMA SmtpStep == SInv /\ [Next]_vars => SInv'
<1>1. ASSUME SInv, Next
      PROVE  SInv'
  BY <1>1, BeginStep, ResetStep, NoopUnsetStep, ConnectIfNeededStep, LoginStep,
     CommandStep, CheckStep, ArmStep, SendStep, DisarmStep, CloseStep,
     DisconnectStep, AnswerStep, StartStep, CancelStep, CancelAllStep, CancellingStep,
     WaitStep, StoppedStep, ElapseStep, FreeStep, ServerDropsStep
     DEF Next, Main
<1>2. ASSUME SInv, UNCHANGED vars
      PROVE  SInv'
  BY <1>2
     DEF SInv, RunInv, ConnectionInv, FaultInv, CancelInv, SentInv,
         FailedConnectionIsReplaced, EarlyCancelIsHeard,
         UndisturbedSuccessMeansSent, Busy, Running, Idle, LockHeld, vars,
         queueVars, clientVars, connectionVars, history
<1> QED
  BY <1>1, <1>2

\* All of the above holds of every reachable state.
THEOREM SmtpInvariant == Spec => []SInv
BY SmtpInit, SmtpStep, PTL DEF Spec

\* The main thread never cancels a stream that the worker has closed.
THEOREM StreamOutlivesCancel == Spec => []CancelsLiveStream
<1>1. SInv => CancelsLiveStream
  BY DEF SInv, CancelInv, ConnectionInv, CancelsLiveStream
<1> QED
  BY <1>1, SmtpInvariant, PTL

\* A message goes out only on an open connection that the server let the user
\* into, however often the connection was replaced since the login.
THEOREM SendsOnlyWhenLetIn == Spec => []SendsAuthenticated
<1>1. SInv => SendsAuthenticated
  BY DEF SInv, ConnectionInv, SendsAuthenticated
<1> QED
  BY <1>1, SmtpInvariant, PTL

\* A send that is cancelled between its reset and its check is not delivered.
THEOREM CancelledSendIsNotSent == Spec => []EarlyCancelIsHeard
<1>1. SInv => EarlyCancelIsHeard
  BY DEF SInv, SentInv
<1> QED
  BY <1>1, SmtpInvariant, PTL

\* An operation never gets the connection that another one saw fail, except
\* after a NOOP.
THEOREM FaultReportedOnce == Spec => []FailedConnectionIsReplaced
<1>1. SInv => FailedConnectionIsReplaced
  BY DEF SInv, FaultInv
<1> QED
  BY <1>1, SmtpInvariant, PTL

\* The callback of a send reports success only when the server took the
\* message, if no other send was cancelled while it ran.
THEOREM SuccessOfASend == Spec => []UndisturbedSuccessMeansSent
<1>1. SInv => UndisturbedSuccessMeansSent
  BY DEF SInv, SentInv
<1> QED
  BY <1>1, SmtpInvariant, PTL
=============================================================================
