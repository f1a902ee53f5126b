---------------------------- MODULE SmtpSession ----------------------------
(***************************************************************************)
(* Sending mail: SMTPSession, the SMTPAsyncSession that owns it and the    *)
(* operations that run on it, one at a time, on the worker of its queue.   *)
(* Three actors share the session: the worker, in an operation's main();   *)
(* the main thread, which starts operations, makes their callbacks and     *)
(* closes an unused connection after a delay; and the client on the main   *)
(* thread, whose cancelling of a send reaches into the connection that the *)
(* worker is using.  The server answers, refuses or goes away.             *)
(***************************************************************************)
EXTENDS Integers, Sequences, FiniteSets

CONSTANTS
  Sends,        \* operations that send a message (SMTPSendWithDataOperation)
  Others,       \* the client's other operations
  MaxStarted,   \* how many of these the client starts, a bound
  TimerRetains, \* the pending disconnect keeps the session alive: on Apple
                \* systems it does
  Disconnects   \* the operations the delayed disconnect creates: a bound on
                \* how often it happens, one for each operation the client
                \* starts and one for each of these that it cancels

Operations == Sends \cup Others \cup Disconnects

VARIABLES
  waiting, phase, cancelled, worker,  \* the session's queue: SerialExecutor
  mSmtp,              \* there is a libetpan session
  stream,             \* its connection: "none", "up", or "broken" (by the
                      \* network or by mailstream_cancel(), seen when next used)
  mState,
  mShouldDisconnect,
  mSendingCancelled,
  mCanCancel,
  pError,             \* what the operation that ran last reports
  r,                  \* what libetpan said of the message
  pc,                 \* where the worker is in main()
  kind,               \* which operation it runs
  canceller,          \* the sends still to be cancelled by the main thread,
                      \* and how far it is
  timer,              \* the delayed disconnect is scheduled
  credentials,        \* of the account: "none", "given", or an OAuth2 login
                      \* whose token is "missing"
  freed,              \* the client let the session go, and it was destroyed
  authed,             \* the server knows who is on the connection
  seen,               \* who saw the current connection fail
  \* of the send that ran last, until its callback:
  delivered,          \* the server took its message
  early,              \* it was cancelled between its reset and its check
  disturbed           \* another one was cancelled while it ran

queueVars == <<waiting, phase, cancelled, worker>>
clientVars == <<canceller, timer, freed>>
connectionVars == <<mSmtp, stream, mState, mShouldDisconnect, authed, seen>>
history == <<delivered, early, disturbed>>
vars == <<queueVars, clientVars, connectionVars, history,
          mSendingCancelled, mCanCancel, pError, r, pc, kind, credentials>>

Queue == INSTANCE SerialExecutor WITH RunWhenCancelled <- {}

Errors == {"None", "Connection", "Setup", "Authentication", "Refused", "Input"}

Kinds == {"send", "login", "check", "noop", "disconnect"}

\* The main thread is not in the middle of a cancel.
Idle == canceller = <<>>

TypeOK ==
  /\ Queue!TypeOK
  /\ mState \in {"DISCONNECTED", "CONNECTED", "LOGGEDIN"}
  /\ stream \in {"none", "up", "broken"}
  /\ {mSmtp, mShouldDisconnect, mSendingCancelled, mCanCancel,
      timer, freed, authed, delivered, early, disturbed} \subseteq BOOLEAN
  /\ pError \in Errors
  /\ r \in {"ok", "stream", "refused"}
  /\ pc \in {"idle", "reset", "connect", "login", "act", "arm", "send",
             "disarm", "close", "quit"}
  /\ kind \in Kinds \cup {"none"}
  /\ Idle \/ canceller \in (SUBSET Sends) \X {"flag", "look", "cancel"}
  /\ credentials \in {"none", "given", "missing"}
  /\ seen \subseteq {"send", "login", "check", "noop"}

Init ==
  /\ Queue!Init
  /\ mSmtp = FALSE /\ stream = "none" /\ mState = "DISCONNECTED"
  /\ mShouldDisconnect = FALSE /\ authed = FALSE /\ seen = {}
  /\ mSendingCancelled = FALSE /\ mCanCancel = FALSE
  /\ pError = "None" /\ r = "ok" /\ pc = "idle"
  /\ kind = "none" /\ canceller = <<>> /\ timer = FALSE /\ freed = FALSE
  /\ credentials \in {"none", "given", "missing"}
  /\ delivered = FALSE /\ early = FALSE /\ disturbed = FALSE

Running(o) == phase[o] = "running"

-----------------------------------------------------------------------------
(* The worker.                                                             *)

\* disconnect(): QUIT if there is a connection, whatever the answer.
Disconnected ==
  /\ mSmtp' = FALSE /\ stream' = "none" /\ seen' = {} /\ authed' = FALSE
  /\ mState' = IF mSmtp THEN "DISCONNECTED" ELSE mState

Return(o, error) ==
  /\ pError' = error
  /\ pc' = "idle" /\ kind' = "none"
  /\ Queue!Finish(o)

\* main() of an operation begins; a send first forgets earlier cancels.
Begin(o) ==
  /\ Queue!Begin(o)
  /\ kind' \in IF o \in Sends THEN {"send"}
               ELSE IF o \in Others THEN Kinds \ {"send"} ELSE {"disconnect"}
  /\ pc' = CASE kind' = "send" -> "reset"
             [] kind' = "disconnect" -> "quit"
             [] OTHER -> "connect"
  /\ UNCHANGED <<clientVars, connectionVars, history, mSendingCancelled,
                 mCanCancel, pError, r, credentials>>

\* setSendingCancelled(false), and the checks of sender, recipients and file.
Reset(o) ==
  /\ Running(o) /\ pc = "reset"
  /\ mSendingCancelled' = FALSE
  /\ \/ pc' = "connect" /\ UNCHANGED <<queueVars, pError, kind>>
     \/ Return(o, "Input")
  /\ UNCHANGED <<clientVars, connectionVars, history, mCanCancel, r, credentials>>

\* noop() of a session that never connected returns without writing pError,
\* a local of main(): the operation reports whatever was on the stack.
NoopUnset(o) ==
  /\ Running(o) /\ pc = "connect" /\ kind = "noop" /\ ~mSmtp
  /\ \E garbage \in Errors : Return(o, garbage)
  /\ UNCHANGED <<clientVars, connectionVars, history, mSendingCancelled,
                 mCanCancel, r, credentials>>

\* connect(): a new libetpan session, which is freed again when it fails.
Connect(o) ==
  /\ authed' = FALSE /\ seen' = {}
  /\ \/ /\ mSmtp' = TRUE /\ stream' = "up" /\ mState' = "CONNECTED"
        /\ pc' = "login"
        /\ UNCHANGED <<queueVars, pError, kind>>
     \/ /\ mSmtp' = FALSE /\ stream' = "none" /\ mState' = "DISCONNECTED"
        /\ \E error \in {"Connection", "Setup"} : Return(o, error)

\* connectIfNeeded(): a connection that is closed or was marked is replaced.
ConnectIfNeeded(o) ==
  LET replace == mSmtp /\ (mShouldDisconnect \/ stream = "none") IN
  /\ Running(o) /\ pc = "connect" /\ (mSmtp \/ kind # "noop")
  /\ mShouldDisconnect' = FALSE
  /\ IF mState = "DISCONNECTED" \/ replace
     THEN Connect(o)
     ELSE /\ pc' = "login"
          /\ UNCHANGED <<queueVars, pError, kind, mSmtp, stream, mState, authed, seen>>
  /\ UNCHANGED <<clientVars, history, mSendingCancelled, mCanCancel, r, credentials>>

\* What a command on the connection comes to.
Answered == stream = "up" /\ UNCHANGED <<stream, seen>>
NotAnswered(who) == stream' = "broken" /\ seen' = seen \cup {who}

\* Mutant: the session is logged in before the server's answer is known.
Login_Early(o) ==
  /\ Running(o) /\ pc = "login"
  /\ mState' = "LOGGEDIN"
  /\ \/ /\ mState = "LOGGEDIN" /\ pc' = "act"
        /\ UNCHANGED <<queueVars, pError, kind, stream, seen, authed>>
     \/ /\ mState = "CONNECTED" /\ Answered /\ pc' = "act" /\ authed' = TRUE
        /\ UNCHANGED <<queueVars, pError, kind>>
     \/ /\ mState = "CONNECTED" /\ Answered /\ Return(o, "Authentication")
        /\ UNCHANGED authed
  /\ UNCHANGED <<clientVars, mSmtp, mShouldDisconnect, history, mSendingCancelled, mCanCancel, r, credentials>>

\* Mutant: a connection that fails while logging in is not marked.
Login_Unmarked(o) ==
  /\ Running(o) /\ pc = "login"
  /\ \/ /\ mState = "CONNECTED"
        /\ NotAnswered("login") /\ Return(o, "Connection")
        /\ UNCHANGED <<mState, authed, mShouldDisconnect>>
     \/ /\ pc' = "act"
        /\ UNCHANGED <<queueVars, pError, kind, mShouldDisconnect, mState, stream, seen, authed>>
  /\ UNCHANGED <<clientVars, mSmtp, history, mSendingCancelled, mCanCancel, r, credentials>>

\* login() with an account that names a user.
Authenticate(o) ==
  \/ /\ credentials = "given" /\ Answered
     /\ mState' = "LOGGEDIN" /\ authed' = TRUE /\ pc' = "act"
     /\ UNCHANGED <<queueVars, pError, kind, mShouldDisconnect>>
  \/ /\ credentials = "given" /\ Answered
     /\ Return(o, "Authentication")
     /\ UNCHANGED <<mState, mShouldDisconnect, authed>>
  \/ /\ credentials = "given" /\ NotAnswered("login")
     /\ mShouldDisconnect' = TRUE
     /\ Return(o, "Connection")
     /\ UNCHANGED <<mState, authed>>
  \/ /\ credentials = "missing"
     /\ mShouldDisconnect' = TRUE
     /\ Return(o, "Connection")
     /\ UNCHANGED <<mState, stream, seen, authed>>

\* loginIfNeeded() past the connection: login(), unless it was done before.
Login(o) ==
  /\ Running(o) /\ pc = "login"
  /\ \/ /\ mState = "LOGGEDIN" \/ credentials = "none"
        /\ mState' = "LOGGEDIN" /\ pc' = "act"
        /\ UNCHANGED <<queueVars, pError, kind, mShouldDisconnect, stream, seen, authed>>
     \/ mState = "CONNECTED" /\ Authenticate(o)
  /\ UNCHANGED <<clientVars, mSmtp, history, mSendingCancelled, mCanCancel, r, credentials>>

\* What login, check account and NOOP do once logged in.  NOOP does not mark
\* a connection that fails.
Command(o) ==
  /\ Running(o) /\ pc = "act" /\ kind # "send"
  /\ \/ /\ kind = "login"
        /\ Return(o, "None")
        /\ UNCHANGED <<stream, seen, mShouldDisconnect>>
     \/ /\ kind # "login"
        /\ Answered
        /\ \E error \in IF kind = "check" THEN {"None", "Refused"} ELSE {"None"} :
             Return(o, error)
        /\ UNCHANGED mShouldDisconnect
     \/ /\ kind # "login"
        /\ NotAnswered(kind)
        /\ mShouldDisconnect' = (kind = "check" \/ mShouldDisconnect)
        /\ Return(o, "Connection")
  /\ UNCHANGED <<clientVars, mSmtp, mState, authed, history, mSendingCancelled,
                 mCanCancel, r, credentials>>

\* Mutant: sendMessage() forgets earlier cancels only now, once connected.
Check_ResetsFirst(o) ==
  /\ Running(o) /\ pc = "act" /\ kind = "send"
  /\ mSendingCancelled' = FALSE
  /\ pc' = "arm"
  /\ UNCHANGED <<queueVars, clientVars, connectionVars, history, mCanCancel,
                 pError, r, kind, credentials>>

\* internalSendMessage() asks whether it was cancelled; if so it returns with
\* pError as loginIfNeeded() left it.
Check(o) ==
  /\ Running(o) /\ pc = "act" /\ kind = "send"
  /\ IF mSendingCancelled
     THEN Return(o, "None")
     ELSE pc' = "arm" /\ UNCHANGED <<queueVars, pError, kind>>
  /\ UNCHANGED <<clientVars, connectionVars, history, mSendingCancelled,
                 mCanCancel, r, credentials>>

\* The main thread holds the lock of mCanCancel while it cancels a stream.
LockHeld == ~Idle /\ canceller[2] = "cancel"

Arm(o) ==
  /\ Running(o) /\ pc = "arm" /\ ~LockHeld
  /\ mCanCancel' = TRUE
  /\ pc' = "send"
  /\ UNCHANGED <<queueVars, clientVars, connectionVars, history,
                 mSendingCancelled, pError, r, kind, credentials>>

\* mailesmtp_send(): the message is taken, or refused, or the connection
\* fails, perhaps after the server took it.  It does not close anything.
Send(o) ==
  /\ Running(o) /\ pc = "send"
  /\ \/ Answered /\ r' = "ok" /\ delivered' = TRUE
     \/ Answered /\ r' = "refused" /\ UNCHANGED delivered
     \/ /\ NotAnswered("send") /\ r' = "stream"
        /\ delivered' \in {FALSE, stream = "up"}
  /\ pc' = "disarm"
  /\ UNCHANGED <<queueVars, clientVars, mSmtp, mState, mShouldDisconnect, authed,
                 early, disturbed, mSendingCancelled, mCanCancel, pError, kind,
                 credentials>>

\* Mutant: the stream is closed without the lock, before mCanCancel is reset.
Disarm_AfterClose(o) ==
  /\ Running(o) /\ pc = "disarm"
  /\ stream' = "none"
  /\ pc' = "close"
  /\ mCanCancel' = FALSE
  /\ UNCHANGED <<queueVars, clientVars, mSmtp, mState, mShouldDisconnect, authed,
                 seen, history, mSendingCancelled, pError, r, kind, credentials>>

Disarm(o) ==
  /\ Running(o) /\ pc = "disarm" /\ ~LockHeld
  /\ mCanCancel' = FALSE
  /\ pc' = "close"
  /\ UNCHANGED <<queueVars, clientVars, connectionVars, history,
                 mSendingCancelled, pError, r, kind, credentials>>

\* Mutant: what went wrong while sending is forgotten.
SendError_StreamIsFine(result) == IF result = "refused" THEN "Refused" ELSE "None"

SendError(result) ==
  CASE result = "ok" -> "None"
    [] result = "stream" -> "Connection"
    [] result = "refused" -> "Refused"

\* The connection does not survive a send: it is closed here, or by QUIT.
Close(o) ==
  /\ Running(o) /\ pc = "close"
  /\ stream' = "none" /\ seen' = {} /\ authed' = FALSE
  /\ r' = "ok" \* dead from here
  /\ \E pipelining \in BOOLEAN :
       mShouldDisconnect' = (pipelining \/ r = "stream" \/ mShouldDisconnect)
  /\ Return(o, SendError(r))
  /\ UNCHANGED <<clientVars, mSmtp, mState, history, mSendingCancelled,
                 mCanCancel, credentials>>

\* SMTPDisconnectOperation, the client's or the delayed one.
Disconnect(o) ==
  /\ Running(o) /\ pc = "quit"
  /\ Disconnected
  /\ Return(o, "None")
  /\ UNCHANGED <<clientVars, mShouldDisconnect, history, mSendingCancelled,
                 mCanCancel, r, credentials>>

-----------------------------------------------------------------------------
(* The main thread.                                                        *)

\* runOperation(): whatever is started takes the place of the delayed
\* disconnect.
Start(o) ==
  /\ Idle /\ ~freed
  /\ o \in Sends \cup Others
  /\ Cardinality({x \in Sends \cup Others : phase[x] # "new"}) < MaxStarted
  /\ Queue!Add(o)
  /\ timer' = FALSE
  /\ UNCHANGED <<canceller, freed, connectionVars, history, mSendingCancelled,
                 mCanCancel, pError, r, pc, kind, credentials>>

\* What SMTPSendWithDataOperation adds to cancel(): cancelMessageSending() of
\* the session, whichever message it is sending, for each of the sends.
CancelSends(sends) == IF sends = {} THEN <<>> ELSE <<sends, "flag">>

\* Operation::cancel().
Cancel(o) ==
  /\ Idle /\ ~freed
  /\ o \in (Sends \cup Others) \ cancelled
  /\ Queue!Cancel({o})
  /\ canceller' = CancelSends({o} \cap Sends)
  /\ UNCHANGED <<timer, freed, connectionVars, history, mSendingCancelled,
                 mCanCancel, pError, r, pc, kind, credentials>>

\* Everything in the queue is cancelled, a delayed disconnect among it.
CancelAllOperations ==
  LET queued == {waiting[i] : i \in DOMAIN waiting} IN
  /\ Idle /\ ~freed
  /\ queued \ cancelled # {}
  /\ Cardinality(Disconnects \ (cancelled \cup queued)) >= MaxStarted
  /\ Queue!Cancel(queued)
  /\ canceller' = CancelSends(queued \cap Sends)
  /\ UNCHANGED <<timer, freed, connectionVars, history, mSendingCancelled,
                 mCanCancel, pError, r, pc, kind, credentials>>

CancelFlag ==
  /\ ~Idle /\ canceller[2] = "flag"
  /\ mSendingCancelled' = TRUE
  /\ \E o \in canceller[1] :
       LET sending == {x \in Sends : Running(x) /\ pc # "reset"}
       IN /\ canceller' = <<canceller[1] \ {o}, "look">>
          /\ disturbed' = (disturbed \/ sending \ {o} # {})
          /\ early' = (early \/ (o \in sending /\ pc \in {"connect", "login", "act"}))
  /\ UNCHANGED <<queueVars, timer, freed, connectionVars, delivered, mCanCancel,
                 pError, r, pc, kind, credentials>>

\* With the lock taken: is there a stream that may be cancelled?
CancelLook ==
  /\ ~Idle /\ canceller[2] = "look"
  /\ canceller' = IF mCanCancel /\ mSmtp /\ stream # "none"
                  THEN <<canceller[1], "cancel">> ELSE CancelSends(canceller[1])
  /\ UNCHANGED <<queueVars, timer, freed, connectionVars, history,
                 mSendingCancelled, mCanCancel, pError, r, pc, kind, credentials>>

\* mailstream_cancel(), and the lock is released.
CancelStream ==
  /\ LockHeld
  /\ stream' = IF stream = "up" THEN "broken" ELSE stream
  /\ canceller' = CancelSends(canceller[1])
  /\ UNCHANGED <<queueVars, timer, freed, mSmtp, mState, mShouldDisconnect, authed,
                 seen, history, mSendingCancelled, mCanCancel, pError, r, pc,
                 kind, credentials>>

Cancelling == CancelFlag \/ CancelLook \/ CancelStream

\* The queue's work on the main thread (callbacks, telling the worker to
\* quit) and the worker's outside of main().
Answer(o) ==
  /\ Idle
  /\ Queue!Call(o) \/ Queue!Drop(o)
  /\ pError' = "None"
  /\ delivered' = FALSE /\ early' = FALSE /\ disturbed' = FALSE
  /\ UNCHANGED <<clientVars, connectionVars, mSendingCancelled,
                 mCanCancel, r, pc, kind, credentials>>

Wait ==
  /\ (Idle /\ Queue!Quit) \/ Queue!Stop \/ \E o \in Operations : Queue!Skip(o)
  /\ UNCHANGED <<clientVars, connectionVars, history, mSendingCancelled,
                 mCanCancel, pError, r, pc, kind, credentials>>

\* Mutant: the disconnect is not scheduled for a connection that a send left.
Stopped_OnlyIfOpen ==
  /\ Idle
  /\ Queue!Stopped
  /\ timer' = (timer \/ stream = "up")
  /\ UNCHANGED <<canceller, freed, connectionVars, history, mSendingCancelled,
                 mCanCancel, pError, r, pc, kind, credentials>>

\* queueStoppedRunning(): tryAutomaticDisconnect(), also when more was added and
\* the worker starts again, which does not call the disconnect off.
Stopped ==
  /\ Idle
  /\ Queue!Stopped
  /\ timer' = (timer \/ mState # "DISCONNECTED")
  /\ UNCHANGED <<canceller, freed, connectionVars, history, mSendingCancelled,
                 mCanCancel, pError, r, pc, kind, credentials>>

\* tryAutomaticDisconnectAfterDelay(), 30 seconds later, whatever runs by now.
Elapse ==
  /\ Idle /\ timer
  /\ timer' = FALSE
  /\ LET created == {d \in Disconnects : phase[d] = "new"}
     IN created # {} /\ Queue!Add(CHOOSE d \in created : TRUE)
  /\ UNCHANGED <<canceller, freed, connectionVars, history, mSendingCancelled,
                 mCanCancel, pError, r, pc, kind, credentials>>

\* The client's last reference goes while nothing runs.  A pending disconnect
\* that does not keep the session alive is cancelled by the destructors, and
\* they do not close the connection.
Free ==
  /\ Idle /\ ~freed /\ worker = "none"
  /\ ~(timer /\ TimerRetains)
  /\ freed' = TRUE /\ timer' = FALSE
  /\ UNCHANGED <<queueVars, canceller, connectionVars, history, mSendingCancelled,
                 mCanCancel, pError, r, pc, kind, credentials>>

\* The server, or the network, gives the connection up.
ServerDrops ==
  /\ stream = "up"
  /\ stream' = "broken"
  /\ UNCHANGED <<queueVars, clientVars, mSmtp, mState, mShouldDisconnect, authed,
                 seen, history, mSendingCancelled, mCanCancel, pError, r, pc,
                 kind, credentials>>

-----------------------------------------------------------------------------
Main(o) ==
  \/ Begin(o) \/ Reset(o) \/ NoopUnset(o) \/ ConnectIfNeeded(o) \/ Login(o)
  \/ Command(o) \/ Check(o) \/ Arm(o) \/ Send(o) \/ Disarm(o) \/ Close(o)
  \/ Disconnect(o)

Next ==
  \/ \E o \in Operations : Main(o) \/ Answer(o) \/ Start(o) \/ Cancel(o)
  \/ CancelAllOperations \/ Cancelling \/ Wait \/ Stopped \/ Elapse \/ Free \/ ServerDrops

Spec == Init /\ [][Next]_vars

\* Threads run, the run loop delivers, timers elapse and, since the stream has
\* a timeout (mTimeout), every command on it comes to an end.
FairSpec ==
  /\ Spec
  /\ WF_vars(\E o \in Operations : Main(o))
  /\ WF_vars(Cancelling)
  /\ WF_vars(Wait \/ Stopped \/ \E o \in Operations : Answer(o))
  /\ WF_vars(Elapse)

-----------------------------------------------------------------------------
(* Properties.                                                             *)

\* The stream that mailstream_cancel() is called on, from the main thread, is
\* not closed and freed meanwhile by the worker that uses it.
CancelsLiveStream == LockHeld => mSmtp /\ stream # "none"

\* A send that reports success did send the message, unless another send was
\* cancelled while it ran.
UndisturbedSuccessMeansSent ==
  \A o \in Sends :
    phase[o] = "finished" /\ pError = "None" /\ o \notin cancelled
      => delivered \/ disturbed

\* What MCOSMTPSendOperation.h says: a send that failed says so.
SuccessMeansSent ==
  \A o \in Sends :
    phase[o] = "finished" /\ pError = "None" /\ o \notin cancelled
      => delivered

\* A send cancelled while it connects or logs in does not go out.
EarlyCancelIsHeard == ~(early /\ delivered)

\* A connection that an operation saw fail is not used by the next one: one
\* fault is reported once.  NOOP alone does not tell the session.
FailedConnectionIsReplaced ==
  pc \in {"login", "act", "arm", "send"} => seen \subseteq {"noop"}

\* A message goes out only on a connection the server let the user into.
SendsAuthenticated ==
  pc = "send" => mSmtp /\ stream # "none"
                 /\ (authed \/ credentials = "none")

\* Where the pending disconnect keeps the session alive, no connection stays
\* open for ever, whenever the client lets go.
NoConnectionLeftOpen == TimerRetains => (mSmtp ~> ~mSmtp)
=============================================================================
