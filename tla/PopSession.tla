----------------------------- MODULE PopSession -----------------------------
(***************************************************************************)
(* POPSession, under the operations a client queues on a POPAsyncSession.  *)
(* POP numbers the messages of a mailbox when a connection logs in, and an *)
(* operation names messages by the numbers the client knew when it was     *)
(* made: on a connection that came later they stand for other messages.    *)
(* Only the worker touches the session; the server, its mailbox and        *)
(* another client of it are the environment.                               *)
(***************************************************************************)
EXTENDS Integers, Sequences, FiniteSets

CONSTANTS
  Messages,    \* those that are ever in the mailbox
  MaxQueued    \* operations that wait while one runs, a bound

VARIABLES
  mPop,      \* there is a libetpan session
  stream,    \* its connection: "none", "up", or "broken" and not noticed yet
  mState,
  queue,     \* the operations that wait
  op,        \* the operation that runs
  at,        \* where it is
  pError,    \* how the last one ended
  box,       \* the mailbox, oldest message first
  numbers,   \* what the server's numbers stand for on this connection
  marked,    \* the numbers marked as deleted on this connection
  known,     \* the list of messages the client goes by
  fresh,     \* disconnect() was not called since that list was made: history
  acts       \* what the last operation did and was meant to do, once it has
             \* done it: history

popVars == <<mPop, stream, mState>>
serverVars == <<box, numbers, marked>>
clientVars == <<known, fresh>>
vars == <<popVars, queue, op, at, pError, serverVars, clientVars, acts>>

States == {"DISCONNECTED", "CONNECTED", "LOGGEDIN", "LISTED"}
Errors == {"None", "Connection", "Setup", "Authentication", "Command"}
Names == {"list", "fetch", "delete", "check", "noop"}

Numbers == 1..Cardinality(Messages)

\* An operation as the client makes it: the numbers it is about and, history,
\* the messages the client means by them and whether its list was fresh.
Operations == [name : Names, which : SUBSET Numbers, meant : SUBSET Messages,
               fresh : BOOLEAN]
Acts == [did : SUBSET Messages, meant : SUBSET Messages, fresh : BOOLEAN]

TypeOK ==
  /\ mPop \in BOOLEAN /\ stream \in {"none", "up", "broken"}
  /\ mState \in States
  /\ queue \in Seq(Operations) /\ op \in Operations
  /\ at \in {"idle", "connect", "login", "list", "command", "disconnect"}
  /\ pError \in Errors
  /\ {box, numbers, known} \subseteq Seq(Messages)
  /\ marked \subseteq Numbers
  /\ fresh \in BOOLEAN
  /\ acts \subseteq Acts

Init ==
  /\ mPop = FALSE /\ stream = "none" /\ mState = "DISCONNECTED"
  /\ queue = <<>> /\ at = "idle" /\ pError = "None"
  /\ op = [name |-> "check", which |-> {}, meant |-> {}, fresh |-> FALSE]
  /\ \E f \in [Numbers -> Messages] :
       /\ {f[i] : i \in Numbers} = Messages
       /\ \E n \in 0..Cardinality(Messages) : box = SubSeq(f, 1, n)
  /\ numbers = <<>> /\ marked = {}
  /\ known = <<>> /\ fresh = FALSE /\ acts = {}

\* The client makes an operation with numbers of the list it has, and queues
\* it, whatever is queued or runs.  To disconnect is to delete nothing.
Ask ==
  /\ Len(queue) < MaxQueued
  /\ \E name \in Names, which \in SUBSET DOMAIN known :
       /\ name \in {"list", "check", "noop"} => which = {}
       /\ name = "fetch" => Cardinality(which) = 1
       /\ queue' = Append(queue,
            [name |-> name, which |-> which,
             meant |-> {known[i] : i \in which}, fresh |-> fresh])
  /\ UNCHANGED <<popVars, op, at, pError, serverVars, clientVars, acts>>

\* cancelAllOperations(): what waits will not run.
CancelAllOperations ==
  /\ queue # <<>> /\ queue' = <<>>
  /\ UNCHANGED <<popVars, op, at, pError, serverVars, clientVars, acts>>

\* An operation ends; deleting always ends with a disconnect().
Fail(error) ==
  /\ pError' = error
  /\ at' = IF op.name = "delete" THEN "disconnect" ELSE "idle"

Succeed == pError' = "None" /\ at' = "idle"

\* The worker takes the first operation.
Begin ==
  /\ at = "idle" /\ queue # <<>>
  /\ op' = Head(queue) /\ queue' = Tail(queue)
  /\ acts' = {}
  /\ \/ /\ op'.name = "noop" /\ ~mPop          \* pError was never written
        /\ at' = "idle" /\ pError' \in Errors
     \/ /\ op'.name = "delete" /\ op'.which = {}
        /\ at' = "disconnect" /\ pError' = "None"
     \/ /\ op'.name = "noop" => mPop
        /\ op'.name = "delete" => op'.which # {}
        /\ at' = "connect" /\ UNCHANGED pError
  /\ UNCHANGED <<popVars, serverVars, clientVars>>

\* Mutant: a broken connection is replaced by the next operation, as in the
\* other sessions.
ConnectIfNeeded_Replaces ==
  /\ at = "connect"
  /\ mPop' = TRUE
  /\ IF mState = "DISCONNECTED" \/ stream = "broken"
     THEN stream' = "up" /\ mState' = "CONNECTED"
     ELSE UNCHANGED <<stream, mState>>
  /\ at' = "login"
  /\ UNCHANGED <<queue, op, pError, serverVars, clientVars, acts>>

\* connectIfNeeded().  A connect() that fails leaves the libetpan session
\* there, with an open connection when it was the certificate that failed;
\* the next one puts another in its place without freeing it.
ConnectIfNeeded ==
  /\ at = "connect"
  /\ \/ /\ mState = "DISCONNECTED"
        /\ mPop' = TRUE
        /\ \/ stream' = "up" /\ mState' = "CONNECTED" /\ at' = "login"
              /\ UNCHANGED pError
           \/ stream' = "none" /\ Fail("Connection") /\ UNCHANGED mState
           \/ stream' = "up" /\ Fail("Setup") /\ UNCHANGED mState
     \/ /\ mState # "DISCONNECTED"
        /\ at' = "login"
        /\ UNCHANGED <<popVars, pError>>
  /\ UNCHANGED <<queue, op, serverVars, clientVars, acts>>

\* Nothing marks a connection that fails: it stays, and fails again.
NoAnswer ==
  /\ stream' = "broken"
  /\ Fail("Connection")

LoginIfNeeded ==
  /\ at = "login"
  /\ \/ /\ mState # "CONNECTED"
        /\ IF op.name = "check" THEN Succeed ELSE at' = "list" /\ UNCHANGED pError
        /\ UNCHANGED <<stream, mState, serverVars>>
     \/ /\ mState = "CONNECTED" /\ stream = "up"
        /\ mState' = "LOGGEDIN"
        /\ numbers' = box /\ marked' = {}
        /\ IF op.name = "check" THEN Succeed ELSE at' = "list" /\ UNCHANGED pError
        /\ UNCHANGED <<stream, box>>
     \/ /\ mState = "CONNECTED" /\ stream = "up"
        /\ Fail("Authentication")
        /\ UNCHANGED <<stream, mState, serverVars>>
     \/ /\ mState = "CONNECTED"
        /\ NoAnswer
        /\ UNCHANGED <<mState, serverVars>>
  /\ UNCHANGED <<mPop, queue, op, clientVars, acts>>

\* fetchMessages(), for itself or, unless it was done before on this
\* connection, for an operation that needs the list: that list the client does
\* not see, nor that of an operation it cancelled meanwhile.
ListIfNeeded ==
  /\ at = "list"
  /\ \/ /\ op.name = "noop" \/ (op.name # "list" /\ mState = "LISTED")
        /\ at' = "command"
        /\ UNCHANGED <<stream, mState, pError, clientVars>>
     \/ /\ op.name # "noop" /\ (op.name = "list" \/ mState # "LISTED")
        /\ \/ /\ stream = "up" /\ mState' = "LISTED"
              /\ IF op.name = "list" THEN Succeed ELSE at' = "command" /\ UNCHANGED pError
              /\ \/ op.name = "list" /\ known' = numbers /\ fresh' = TRUE
                 \/ UNCHANGED clientVars
              /\ UNCHANGED stream
           \/ /\ stream = "up" /\ Fail("Command")
              /\ UNCHANGED <<stream, mState, clientVars>>
           \/ NoAnswer /\ UNCHANGED <<mState, clientVars>>
  /\ UNCHANGED <<mPop, queue, op, serverVars, acts>>

\* The operation that runs has dealt with these messages.
Act(messages) == acts' = {[did |-> messages, meant |-> op.meant, fresh |-> op.fresh]}

\* NOOP; TOP or RETR of one message; DELE of the first that is left.
Command ==
  /\ at = "command"
  /\ \/ /\ op.name = "noop" /\ stream = "up" /\ Succeed
        /\ UNCHANGED <<op, stream, marked, acts>>
     \/ /\ op.name = "fetch" /\ stream = "up"
        /\ \/ \E i \in op.which \cap DOMAIN numbers : Act({numbers[i]}) /\ Succeed
           \/ Fail("Command") /\ UNCHANGED acts
        /\ UNCHANGED <<op, stream, marked>>
     \/ /\ op.name = "delete" /\ stream = "up"
        /\ \/ \E i \in op.which \cap DOMAIN numbers :
                /\ \A j \in op.which : i <= j
                /\ marked' = marked \cup {i}
                /\ op' = [op EXCEPT !.which = @ \ {i}]
                /\ IF op.which = {i} THEN at' = "disconnect" /\ pError' = "None"
                   ELSE UNCHANGED <<at, pError>>
           \/ Fail("Command") /\ UNCHANGED <<op, marked>>
        /\ UNCHANGED <<stream, acts>>
     \/ NoAnswer /\ UNCHANGED <<op, marked, acts>>
  /\ UNCHANGED <<mPop, mState, queue, box, numbers, clientVars>>

\* disconnect(): the server deletes what was marked when it sees QUIT, whose
\* answer is not looked at.  The client goes by the list it has until it asks
\* for another, and what it queued keeps its numbers.
Disconnect ==
  /\ at = "disconnect" /\ at' = "idle"
  /\ IF mPop
     THEN /\ mPop' = FALSE /\ stream' = "none" /\ mState' = "DISCONNECTED"
          /\ LET deleted == IF stream = "up" THEN {numbers[i] : i \in marked} ELSE {}
             IN  box' = SelectSeq(box, LAMBDA m : m \notin deleted) /\ Act(deleted)
          /\ numbers' = <<>> /\ marked' = {}
          /\ fresh' = FALSE
          /\ queue' = [k \in DOMAIN queue |-> [queue[k] EXCEPT !.fresh = FALSE]]
     ELSE UNCHANGED <<popVars, queue, serverVars, fresh, acts>>
  /\ UNCHANGED <<op, pError, known>>

\* The connection is lost, with what was marked on it.
ServerDrops ==
  /\ stream = "up" /\ stream' = "broken"
  /\ UNCHANGED <<mPop, mState, queue, op, at, pError, serverVars, clientVars, acts>>

\* Another client deletes a message, while nobody else is logged in.
OtherDeletes ==
  /\ ~(stream = "up" /\ mState \in {"LOGGEDIN", "LISTED"})
  /\ \E m \in {box[i] : i \in DOMAIN box} : box' = SelectSeq(box, LAMBDA x : x # m)
  /\ UNCHANGED <<popVars, queue, op, at, pError, numbers, marked, clientVars, acts>>

Next ==
  \/ Ask \/ CancelAllOperations \/ Begin
  \/ ConnectIfNeeded \/ LoginIfNeeded \/ ListIfNeeded \/ Command \/ Disconnect
  \/ ServerDrops \/ OtherDeletes

Spec == Init /\ [][Next]_vars

-----------------------------------------------------------------------------
\* What an operation fetches or deletes is what the client listed under its
\* numbers, whatever fails, is lost or is deleted by another client, as long
\* as nothing called disconnect() after the list was made.
ActsOnWhatWasListed == \A a \in acts : a.fresh => a.did \subseteq a.meant

\* What MCOPOPSession.h says of a listed message's index, that it can be used
\* as a reference for the message in the other operations.
IndexIsAReference == \A a \in acts : a.did \subseteq a.meant
=============================================================================
