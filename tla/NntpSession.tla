---------------------------- MODULE NntpSession ----------------------------
(***************************************************************************)
(* NNTPSession, under the operations of an NNTPAsyncSession: connection    *)
(* and login when needed, and a GROUP before every command about one.      *)
(***************************************************************************)
EXTENDS Integers, Sequences

CONSTANT Groups

VARIABLES
  mNNTP,     \* there is a libetpan session
  stream,    \* its connection: "none", "up", or "broken" and not noticed yet
  mState,
  op,        \* the operation that runs: its name, group and commands left
  at,        \* where it is
  pError,    \* how the last one ended
  group,     \* the group selected on the server
  ignored,   \* the answer to the last GROUP was neither success nor reported
  read       \* the group asked for, the one an article came from, and ignored,
             \* as of the last article: history

nntpVars == <<mNNTP, stream, mState>>
vars == <<nntpVars, op, at, pError, group, ignored, read>>

Plain == {"check", "list", "subscribed", "date", "post", "disconnect"}
OneInGroup == {"article", "header", "all"}
InGroup == OneInGroup \cup {"overview"}
Names == Plain \cup InGroup \cup {"byid"}
Errors == {"None", "Connection", "Setup", "Authentication", "Group", "Command",
           "File"}
NoGroup == "no group"

TypeOK ==
  /\ mNNTP \in BOOLEAN /\ stream \in {"none", "up", "broken"}
  /\ mState \in {"DISCONNECTED", "CONNECTED", "LOGGEDIN", "LISTED", "SELECTED"}
  /\ op \in [name : Names, group : Groups \cup {NoGroup}, left : 0..2]
  /\ at \in {"idle", "connect", "login", "select", "command"}
  /\ pError \in Errors
  /\ group \in Groups \cup {NoGroup}
  /\ ignored \in BOOLEAN

Init ==
  /\ mNNTP = FALSE /\ stream = "none" /\ mState = "DISCONNECTED"
  /\ op = [name |-> "check", group |-> NoGroup, left |-> 0]
  /\ at = "idle" /\ pError = "None"
  /\ group = NoGroup /\ ignored = FALSE /\ read = <<>>

Return(error) == pError' = error /\ at' = "idle"

\* An operation starts.  An overview asks for each range of indexes (at most
\* two here).  Posting a file that cannot be read ends before it connects.
\* Fetching by message id does not connect: the client has done something else
\* before, or libetpan is given no session.
Begin ==
  /\ at = "idle"
  /\ \/ \E name \in Plain :
          /\ op' = [name |-> name, group |-> NoGroup, left |-> 1]
          /\ \/ at' = "connect" /\ UNCHANGED pError
             \/ name = "post" /\ Return("File")
     \/ /\ mNNTP
        /\ op' = [name |-> "byid", group |-> NoGroup, left |-> 1]
        /\ at' = "command" /\ UNCHANGED pError
     \/ \E g \in Groups, n \in 0..2 :
          \/ /\ n = 1
             /\ \E name \in OneInGroup : op' = [name |-> name, group |-> g, left |-> n]
             /\ at' = "connect" /\ UNCHANGED pError
          \/ /\ op' = [name |-> "overview", group |-> g, left |-> n]
             /\ IF n = 0 THEN Return("None") ELSE at' = "connect" /\ UNCHANGED pError
  /\ UNCHANGED <<nntpVars, group, ignored, read>>

\* connectIfNeeded().  As in POPSession, a connect() that fails leaves its
\* libetpan session behind.
ConnectIfNeeded ==
  /\ at = "connect"
  /\ \/ /\ mState = "DISCONNECTED"
        /\ mNNTP' = TRUE /\ group' = NoGroup
        /\ \/ stream' = "up" /\ mState' = "CONNECTED" /\ at' = "login"
              /\ UNCHANGED pError
           \/ stream' = "none" /\ Return("Connection") /\ UNCHANGED mState
           \/ stream' = "up" /\ Return("Setup") /\ UNCHANGED mState
     \/ /\ mState # "DISCONNECTED"
        /\ at' = "login"
        /\ UNCHANGED <<nntpVars, pError, group>>
  /\ UNCHANGED <<op, ignored, read>>

NoAnswer == stream' = "broken" /\ Return("Connection")

\* The operation that is to disconnect does what checking the account does.
LoggedIn ==
  IF op.name \in {"check", "disconnect"} THEN Return("None")
  ELSE /\ at' = IF op.name \in InGroup THEN "select" ELSE "command"
       /\ UNCHANGED pError

\* loginIfNeeded() past the connection.  An account without user and password
\* is logged in without a word to the server.
LoginIfNeeded ==
  /\ at = "login"
  /\ \/ /\ mState # "CONNECTED"
        /\ LoggedIn
        /\ UNCHANGED <<stream, mState>>
     \/ /\ mState = "CONNECTED"
        /\ LoggedIn /\ mState' = "LOGGEDIN"
        /\ UNCHANGED stream
     \/ /\ mState = "CONNECTED" /\ stream = "up"
        /\ Return("Authentication")
        /\ UNCHANGED <<stream, mState>>
     \/ mState = "CONNECTED" /\ NoAnswer /\ UNCHANGED mState
  /\ UNCHANGED <<mNNTP, op, group, ignored, read>>

\* Mutant: GROUP is not sent when a group is selected.
SelectGroup_Once ==
  /\ at = "select" /\ at' = "command"
  /\ \/ mState = "SELECTED" /\ UNCHANGED <<mState, group>>
     \/ mState # "SELECTED" /\ mState' = "SELECTED" /\ group' = op.group
  /\ ignored' = FALSE
  /\ UNCHANGED <<mNNTP, stream, op, pError, read>>

\* selectGroup().  An answer that is not one of the three it knows (a demand
\* for authentication, say) passes for success.
SelectGroup ==
  /\ at = "select"
  /\ \/ /\ stream = "up"
        /\ \/ group' = op.group /\ ignored' = FALSE
           \/ ignored' = TRUE /\ UNCHANGED group
        /\ mState' = "SELECTED" /\ at' = "command"
        /\ UNCHANGED <<stream, pError>>
     \/ stream = "up" /\ Return("Group") /\ UNCHANGED <<stream, mState, group, ignored>>
     \/ NoAnswer /\ UNCHANGED <<mState, group, ignored>>
  /\ UNCHANGED <<mNNTP, op, read>>

\* The command itself.  An answer about articles is of the group selected, but
\* LISTGROUP (for all of them) names its group again.  Listing subscriptions
\* does not look at the result: what it then reads of a list that was never
\* set is left out.
Command ==
  /\ at = "command"
  /\ \/ /\ stream = "up"
        /\ group' = IF op.name = "all" THEN op.group ELSE group
        /\ read' = IF op.name \in InGroup THEN <<op.group, group', ignored>> ELSE read
        /\ mState' = IF op.name \in {"list", "all"} THEN "LISTED" ELSE mState
        /\ op' = [op EXCEPT !.left = @ - 1]
        /\ IF op.left > 1 THEN at' = "connect" /\ UNCHANGED pError ELSE Return("None")
        /\ UNCHANGED stream
     \/ /\ stream = "up"
        /\ Return(IF op.name = "subscribed" THEN "None" ELSE "Command")
        /\ UNCHANGED <<stream, mState, op, group, read>>
     \/ /\ stream' = "broken"
        /\ Return(CASE op.name = "subscribed" -> "None"
                    [] op.name = "header" -> "Command"
                    [] OTHER -> "Connection")
        /\ UNCHANGED <<mState, op, group, read>>
  /\ UNCHANGED <<mNNTP, ignored>>

ServerDrops ==
  /\ stream = "up" /\ stream' = "broken"
  /\ UNCHANGED <<mNNTP, mState, op, at, pError, group, ignored, read>>

Next ==
  \/ Begin \/ ConnectIfNeeded \/ LoginIfNeeded \/ SelectGroup \/ Command
  \/ ServerDrops

Spec == Init /\ [][Next]_vars

-----------------------------------------------------------------------------
\* Articles come from the group they were asked of, unless the server gave an
\* answer to GROUP that selectGroup() passes over.
ReadsTheGroupAsked == read # <<>> => read[1] = read[2] \/ read[3]

\* What MCONNTPSession.h says of disconnectOperation: it will disconnect the
\* session.
DisconnectDisconnects ==
  at = "idle" /\ op = [name |-> "disconnect", group |-> NoGroup, left |-> 1]
    /\ pError = "None" => mState = "DISCONNECTED"
=============================================================================
