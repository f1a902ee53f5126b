---------------------------- MODULE ImapSession ----------------------------
(***************************************************************************)
(* IMAPSession (src/core/imap/MCIMAPSession.cpp): one IMAP connection, run *)
(* by the worker thread of its operation queue.  Every public method first *)
(* brings the connection to the state it needs - connectIfNeeded,          *)
(* loginIfNeeded, selectIfNeeded, each calling the one before - and then   *)
(* sends its commands.  login() configures the session and in doing so     *)
(* calls methods that start with loginIfNeeded again.                      *)
(*                                                                         *)
(* pc is the C++ function about to go on, stack the functions to return    *)
(* to.  One step is one exchange with the server, or one decision between  *)
(* two exchanges.  Message data, flags and headers are left out.           *)
(***************************************************************************)
EXTENDS Integers, Sequences, FiniteSets

CONSTANTS
  Folders,                  \* folder names as clients spell them
  INBOX,
  Fold,                     \* caseInsensitiveCompare: names with one image agree
  Operations,               \* the operations clients use
  Servers,                  \* the servers met: the extensions each offers
  MaxChunks,                \* bound: commands one operation splits its set into
  maxRetries,               \* of fetchMessageAttachmentToFileByChunksByUID
  MaxFaults,                \* bound: connections that fail
  NULL

Features == {"Namespace", "Id", "CompressDeflate", "QResync"}

\* Operations that select INBOX, that select their folder, that split their
\* set into chunks (a subset of the latter), and the others.
InboxOperations == {"renameFolder", "deleteFolder", "createFolder",
                    "subscribeFolder", "unsubscribeFolder"}
ChunkedOperations == {"copyMessages", "moveMessages", "storeFlags",
                      "storeLabels"}
FolderOperations ==
  ChunkedOperations \cup
  {"append", "expunge", "uidMapping", "fetchMessages", "fetchMessage",
   "fetchAttachment", "fetchToFile", "fetchToFileByChunks", "search"}
LoginOperations == {"customCommand", "getQuota", "folderInfo", "folderStatus",
                    "fetchAllFolders", "fetchSubscribedFolders"}
OtherOperations == {"connect", "checkAccount", "capability", "identity",
                    "fetchNamespace", "noop", "disconnect"}
AllOperations == InboxOperations \cup FolderOperations \cup LoginOperations
                   \cup OtherOperations

ASSUME SessionAssumption ==
  /\ INBOX \in Folders
  /\ NULL \notin Folders \cup AllOperations
  /\ Operations \subseteq AllOperations
  /\ Servers \subseteq SUBSET Features
  /\ MaxChunks \in Nat \ {0}
  /\ maxRetries \in Nat
  /\ MaxFaults \in Nat

VARIABLES
  mAutomaticConfigurationEnabled,
  serverFeatures,     \* the extensions the server advertises
  mState,             \* STATE_DISCONNECTED .. STATE_SELECTED
  mImap,              \* the libetpan session is allocated
  mShouldDisconnect,
  mCurrentFolder,
  mFeatures,          \* mNamespaceEnabled, mIdentityEnabled, ...
  mDelimiter,         \* mDelimiter is known
  mDefaultNamespace,  \* mDefaultNamespace is not NULL
  pError, pc, stack,
  op, folder,         \* the operation whose main() runs, and its folder
  left,               \* commands its loop has still to send
  nRetries,
  stream,             \* the socket: closed, ok, broken, or stale - with the
                      \* rest of an answer that could not be parsed in it
  srvAuth, srvSelected,   \* the connection as the server sees it
  preauth,            \* it was authenticated from its greeting on
  faults,
  todo,               \* history: commands the server has still to execute
  tainted,            \* history: an answer came from a stale stream
  forgotten,          \* history: login() or noop() went on after a failure
  strayed             \* history: a custom command changed the selection

config == <<mAutomaticConfigurationEnabled, serverFeatures>>
session == <<mState, mImap, mCurrentFolder>>
settings == <<mFeatures, mDelimiter, mDefaultNamespace>>
call == <<op, folder>>
loop == <<left, nRetries>>
server == <<srvAuth, srvSelected, preauth, strayed>>
link == <<stream, faults>>
history == <<todo, tainted, forgotten>>
vars == <<config, session, mShouldDisconnect, settings, pError, pc, stack, call, loop,
          server, link, history>>

States == {"DISCONNECTED", "CONNECTED", "LOGGEDIN", "SELECTED"}
Replies == {"ok", "stream", "parse", "other"}
Failures == {"stream", "parse"}
N(b) == IF b THEN 1 ELSE 0

Goto(label, frames) == pc' = label /\ stack' = frames
Return == Goto(Head(stack), Tail(stack))

\* What a libetpan call returns.  legal: the server can execute the command
\* in the state it is in.  A broken stream stays broken; after an answer that
\* could not be parsed, anything may be read.
Reply(r, legal) ==
  /\ mImap
  /\ stream = "broken" => r = "stream"
  /\ stream = "ok" => (r = "ok" => legal) /\ (r \in Failures => faults > 0)
  /\ faults' = faults - N(stream = "ok" /\ r \in Failures)
  /\ stream' = IF r = "stream" THEN "broken"
               ELSE IF r = "parse" THEN "stale" ELSE stream

\* The error of each result, other being the one for a server's refusal ...
ErrorOf(r, other) ==
  IF r = "ok" THEN "ErrorNone"
  ELSE IF r = "stream" THEN "ErrorConnection"
  ELSE IF r = "parse" THEN "ErrorParse" ELSE other

\* ... and the mark the next connectIfNeeded() looks for.
Mark(r) == mShouldDisconnect' = (mShouldDisconnect \/ r \in Failures)

Executed(r) ==
  /\ todo' = todo - N(r = "ok" /\ stream = "ok")
  /\ tainted' = (tainted \/ (r = "ok" /\ stream = "stale"))

-----------------------------------------------------------------------------
\* Connecting.

\* The server's side of a connection not used so far.
NewConnection(authenticated) ==
  /\ srvAuth' = authenticated /\ preauth' = authenticated
  /\ srvSelected' = NULL /\ strayed' = FALSE

\* Mutant: the libetpan session is not taken away.
Unsetup_KeepsSession ==
  /\ mState' = "DISCONNECTED"
  /\ stream' = "closed"
  /\ NewConnection(FALSE)
  /\ forgotten' = FALSE
  /\ UNCHANGED mImap

Unsetup ==
  /\ mImap' = FALSE
  /\ mState' = "DISCONNECTED"
  /\ stream' = "closed"
  /\ NewConnection(FALSE)
  /\ forgotten' = FALSE

\* Mutant: the mark of a failed connection is not looked at.
StayConnected_IgnoresMark ==
  /\ pc = "connectIfNeeded"
  /\ mState # "DISCONNECTED"
  /\ pError' = "ErrorNone"
  /\ Return
  /\ UNCHANGED <<session, mShouldDisconnect, settings, call, loop, server,
                 link, history>>

StayConnected ==
  /\ pc = "connectIfNeeded"
  /\ ~mShouldDisconnect /\ mState # "DISCONNECTED"
  /\ pError' = "ErrorNone"
  /\ Return
  /\ UNCHANGED <<session, mShouldDisconnect, settings, call, loop, server,
                 link, history>>

ConnectErrors == {"ErrorConnection", "ErrorTLSNotAvailable", "ErrorCertificate"}

ConnectFails ==
  /\ Unsetup
  /\ pError' \in ConnectErrors
  /\ Return
  /\ UNCHANGED mFeatures

\* What the session learns of the server only adds to what it knew: the flags
\* outlive the connection.
capabilitySetWithSessionState == mFeatures' = mFeatures \cup serverFeatures

\* The greeting of a Courier server enables NAMESPACE.
Greeting ==
  mFeatures' \in {mFeatures, mFeatures \cup (serverFeatures \cap {"Namespace"})}

\* With automatic configuration the capabilities are taken from the greeting
\* or asked for.  A PREAUTH greeting is no error, and the state is CONNECTED
\* all the same.
ConnectSucceeds ==
  /\ mImap' = TRUE
  /\ mState' = "CONNECTED"
  /\ stream' = "ok"
  /\ \E authenticated \in BOOLEAN : NewConnection(authenticated)
  /\ forgotten' = FALSE
  /\ \/ ~mAutomaticConfigurationEnabled /\ Greeting /\ pError' = "ErrorNone" /\ Return
     \/ /\ mAutomaticConfigurationEnabled
        /\ capabilitySetWithSessionState
        /\ pError' = "ErrorNone"
        /\ Return
     \/ /\ mAutomaticConfigurationEnabled
        /\ Greeting
        /\ Goto("connectIfNeeded", <<"capability", "connectCapability">> \o stack)
        /\ UNCHANGED pError

\* Mutant: the state of the previous connection is kept.
Connect_KeepsState ==
  /\ pc = "connectIfNeeded"
  /\ mShouldDisconnect \/ mState = "DISCONNECTED"
  /\ mShouldDisconnect' = FALSE
  /\ mImap' = TRUE
  /\ mState' = IF mState = "DISCONNECTED" THEN "CONNECTED" ELSE mState
  /\ stream' = "ok"
  /\ NewConnection(FALSE)
  /\ forgotten' = FALSE
  /\ pError' = "ErrorNone" /\ Return
  /\ UNCHANGED <<mCurrentFolder, settings, call, loop, faults, todo, tainted>>

\* disconnect() if the connection is marked, then connect().
Connect ==
  /\ pc = "connectIfNeeded"
  /\ mShouldDisconnect \/ mState = "DISCONNECTED"
  /\ mShouldDisconnect' = FALSE
  /\ ConnectFails \/ ConnectSucceeds
  /\ UNCHANGED <<mCurrentFolder, mDelimiter, mDefaultNamespace, call, loop,
                 faults, todo, tainted>>

\* connect() asked for the capabilities: without them it gives up, and closes
\* the connection.
ConnectCapability ==
  /\ pc = "connectCapability"
  /\ \/ pError = "ErrorNone" /\ UNCHANGED <<session, server, stream, forgotten>>
     \/ pError # "ErrorNone" /\ Unsetup /\ UNCHANGED mCurrentFolder
  /\ Return
  /\ UNCHANGED <<mShouldDisconnect, settings, pError, call, loop, faults, todo,
                 tainted>>

\* "if (* pError != ErrorNone) return", wherever the code says so.
Propagate ==
  /\ pc \in {"loginIfNeeded", "capability", "loginCapability", "identity",
             "fetchNamespace", "loginNamespace"}
  /\ pError # "ErrorNone"
  /\ Return
  /\ UNCHANGED <<session, mShouldDisconnect, settings, pError, call, loop,
                 server, link, history>>

\* A function called from main() or from connect() or login(): one command.
AskServer(label, error, legal) ==
  /\ pc = label
  /\ pError = "ErrorNone"
  /\ \E r \in Replies :
       /\ Reply(r, legal)
       /\ Mark(r)
       /\ pError' = ErrorOf(r, error)
  /\ Return
  /\ UNCHANGED <<session, mDelimiter, mDefaultNamespace, call, loop, server,
                 history>>

Capability ==
  /\ AskServer("capability", "ErrorCapability", TRUE)
  /\ IF pError' = "ErrorNone" THEN capabilitySetWithSessionState
                              ELSE UNCHANGED mFeatures

Identity ==
  /\ AskServer("identity", "ErrorIdentity", TRUE)
  /\ UNCHANGED mFeatures

FetchNamespace ==
  /\ AskServer("fetchNamespace", "ErrorNamespace", srvAuth)
  /\ UNCHANGED mFeatures

-----------------------------------------------------------------------------
\* Logging in.

\* After connectIfNeeded() succeeded.
LoginIfNeeded ==
  /\ pc = "loginIfNeeded"
  /\ pError = "ErrorNone"
  /\ IF mState = "CONNECTED" THEN Goto("login", stack) ELSE Return
  /\ UNCHANGED <<session, mShouldDisconnect, settings, pError, call, loop,
                 server, link, history>>

LoginFails ==
  \/ \E r \in Failures :
       Reply(r, TRUE) /\ Mark(r) /\ pError' = ErrorOf(r, "ErrorNone")
  \/ Reply("other", TRUE) /\ pError' = "ErrorAuthentication" /\ Mark("other")
  \/ /\ Reply("other", TRUE)   \* "Service temporarily unavailable"
     /\ pError' = "ErrorConnection"
     /\ mShouldDisconnect' = TRUE

\* The session counts as logged in before it is configured.  LOGIN is no
\* command of an authenticated connection (RFC 3501, 6.2).
LoginSucceeds ==
  /\ Reply("ok", ~srvAuth)
  /\ mState' = "LOGGEDIN"
  /\ srvAuth' = TRUE
  /\ \/ /\ ~mAutomaticConfigurationEnabled
        /\ UNCHANGED mFeatures
        /\ Goto("enableFeatures", stack)
     \/ /\ mAutomaticConfigurationEnabled   \* capabilities came with the answer
        /\ capabilitySetWithSessionState
        /\ Goto("enableFeatures", stack)
     \/ /\ mAutomaticConfigurationEnabled
        /\ UNCHANGED mFeatures
        /\ Goto("connectIfNeeded", <<"capability", "loginCapability">> \o stack)

Login ==
  /\ pc = "login"
  /\ \/ LoginSucceeds
        /\ UNCHANGED <<mShouldDisconnect, pError, srvSelected, preauth, strayed>>
     \/ LoginFails /\ Return /\ UNCHANGED <<mState, mFeatures, server>>
  /\ UNCHANGED <<mImap, mCurrentFolder, mDelimiter, mDefaultNamespace, call,
                 loop, history>>

LoginCapability ==
  /\ pc = "loginCapability"
  /\ pError = "ErrorNone"
  /\ Goto("enableFeatures", stack)
  /\ UNCHANGED <<session, mShouldDisconnect, settings, pError, call, loop,
                 server, link, history>>

\* A command whose failure login() ignores.
Ignored(r) == forgotten' = (forgotten \/ r \in Failures)

EnableCompression ==
  /\ pc = "enableFeatures"
  /\ \/ /\ "CompressDeflate" \in mFeatures
        /\ \E r \in Replies : Reply(r, srvAuth) /\ Mark(r) /\ Ignored(r)
     \/ /\ "CompressDeflate" \notin mFeatures
        /\ UNCHANGED <<mShouldDisconnect, link, forgotten>>
  /\ Goto("enableQResync", stack)
  /\ UNCHANGED <<session, settings, pError, call, loop, server, todo, tainted>>

\* enableFeature(): its failures are not even marked.
EnableFeature ==
  /\ pc = "enableQResync"
  /\ \/ "QResync" \in mFeatures /\ \E r \in Replies : Reply(r, srvAuth) /\ Ignored(r)
     \/ "QResync" \notin mFeatures /\ UNCHANGED <<link, forgotten>>
  /\ \/ ~mAutomaticConfigurationEnabled /\ Goto("loginDone", stack)
     \/ /\ mAutomaticConfigurationEnabled /\ "Namespace" \in mFeatures
        /\ Goto("connectIfNeeded",
                <<"loginIfNeeded", "fetchNamespace", "loginNamespace">> \o stack)
     \/ /\ mAutomaticConfigurationEnabled /\ "Namespace" \notin mFeatures
        /\ Goto("loginList", stack)
  /\ UNCHANGED <<session, mShouldDisconnect, settings, pError, call, loop,
                 server, todo, tainted>>

GotoIdentity ==
  IF "Id" \in mFeatures
  THEN Goto("connectIfNeeded", <<"identity", "loginDone">> \o stack)
  ELSE Goto("loginDone", stack)

\* The answer to NAMESPACE may name no personal namespace.
LoginNamespace ==
  /\ pc = "loginNamespace"
  /\ pError = "ErrorNone"
  /\ \/ mDefaultNamespace' = TRUE /\ mDelimiter' = TRUE /\ GotoIdentity
     \/ Goto("loginList", stack) /\ UNCHANGED <<mDelimiter, mDefaultNamespace>>
  /\ UNCHANGED <<session, mShouldDisconnect, mFeatures, pError, call, loop,
                 server, link, history>>

\* LIST "" "": a failure ends login() but does not mark the connection.
LoginList ==
  /\ pc = "loginList"
  /\ \/ /\ Reply("ok", srvAuth)
        /\ mDefaultNamespace' = TRUE /\ mDelimiter' = TRUE
        /\ GotoIdentity
        /\ UNCHANGED <<pError, forgotten>>
     \/ /\ \E r \in Replies :    \* "ok" with no folder in the answer
             /\ Reply(r, srvAuth)
             /\ Ignored(r)
             /\ pError' = IF r = "ok" THEN "ErrorNonExistantFolder"
                          ELSE ErrorOf(r, "ErrorNonExistantFolder")
        /\ Return
        /\ UNCHANGED <<mDelimiter, mDefaultNamespace>>
  /\ UNCHANGED <<session, mShouldDisconnect, mFeatures, call, loop, server,
                 todo, tainted>>

\* identity()'s error is ignored.
LoginDone ==
  /\ pc = "loginDone"
  /\ pError' = "ErrorNone"
  /\ forgotten' = (forgotten \/ stream \in {"broken", "stale"})
  /\ Return
  /\ UNCHANGED <<session, mShouldDisconnect, settings, call, loop, server, link,
                 todo, tainted>>

-----------------------------------------------------------------------------
\* Selecting a folder.

Target == IF op \in InboxOperations THEN INBOX ELSE folder

\* Mutant: any selected folder will do.
SelectIfNeeded_AnyFolder ==
  /\ pc = "selectIfNeeded"
  /\ pError = "ErrorNone"
  /\ Goto(IF mState = "LOGGEDIN" THEN "select" ELSE "command", stack)
  /\ UNCHANGED <<session, mShouldDisconnect, settings, pError, call, loop,
                 server, link, history>>

\* After loginIfNeeded() succeeded.  A session that is not logged in all the
\* same goes on as if the folder were selected.
SelectIfNeeded ==
  /\ pc = "selectIfNeeded"
  /\ pError = "ErrorNone"
  /\ \/ /\ mState = "SELECTED"
        /\ Goto(IF Fold[mCurrentFolder] = Fold[Target] THEN "command"
                                                       ELSE "select", stack)
     \/ mState = "LOGGEDIN" /\ Goto("select", stack)
     \/ mState \in {"CONNECTED", "DISCONNECTED"} /\ Goto("command", stack)
  /\ UNCHANGED <<session, mShouldDisconnect, settings, pError, call, loop,
                 server, link, history>>

\* Mutant: a refused SELECT leaves the session where it was.
SelectFails_KeepsState ==
  /\ UNCHANGED <<mState, mCurrentFolder>>
  /\ srvSelected' = NULL
  /\ pError' = "ErrorNonExistantFolder"

\* A refused SELECT leaves no folder selected (RFC 3501, 6.3.1).
SelectFails ==
  /\ mState' = "LOGGEDIN"
  /\ mCurrentFolder' = NULL
  /\ srvSelected' = NULL
  /\ pError' = "ErrorNonExistantFolder"

\* folderInfo's main() selects whatever is selected, and is done.  Whether a
\* failure is the answer, the caller decides (Refuse).
Select ==
  /\ pc = "select"
  /\ mState \in {"LOGGEDIN", "SELECTED"}
  /\ \E r \in Replies :
       /\ Reply(r, srvAuth)
       /\ Mark(r)
       /\ \/ /\ r = "ok"
             /\ mState' = "SELECTED"
             /\ mCurrentFolder' = Target
             /\ srvSelected' = IF stream = "ok" THEN Target ELSE srvSelected
             /\ pError' = "ErrorNone"
             /\ Goto(IF op = "folderInfo" THEN "answer" ELSE "command", stack)
             /\ IF op = "folderInfo" THEN Executed(r)
                                     ELSE UNCHANGED <<todo, tainted>>
          \/ /\ r = "other"
             /\ SelectFails
             /\ Goto("command", stack)
             /\ UNCHANGED <<todo, tainted>>
          \/ /\ r \in Failures
             /\ srvSelected' \in {srvSelected, Target}
             /\ pError' = ErrorOf(r, "ErrorNone")
             /\ Goto("command", stack)
             /\ UNCHANGED <<mState, mCurrentFolder, todo, tainted>>
       /\ strayed' = (strayed /\ r \in Failures)
  /\ UNCHANGED <<mImap, settings, call, loop, srvAuth, preauth, forgotten>>

-----------------------------------------------------------------------------
\* The operations.

\* main() of the operation: what each does before its own commands.
Frames(o) ==
  IF o = "connect" THEN <<"answer">>
  ELSE IF o = "identity" THEN <<"identity", "answer">>
  ELSE IF o = "checkAccount" THEN <<"loginIfNeeded", "answer">>
  ELSE IF o = "fetchNamespace"
       THEN <<"loginIfNeeded", "fetchNamespace", "answer">>
  ELSE IF o \in InboxOperations \cup FolderOperations
       THEN <<"loginIfNeeded", "selectIfNeeded">>
  ELSE <<"loginIfNeeded", "command">>

\* The commands of its loop: the chunks of its set, which may be empty; the
\* two commands of createFolder, the two selectIfNeeded() of fetchToFile.
Lengths(o) ==
  IF o \in ChunkedOperations THEN 0..MaxChunks
  ELSE IF o = "fetchToFileByChunks" THEN 1..MaxChunks
  ELSE IF o \in {"createFolder", "fetchToFile"} THEN {2} ELSE {1}

\* Without a libetpan session noop() returns and leaves the error unset.
Begin(o, f, n) ==
  /\ pc = "idle"
  /\ o # "disconnect"
  /\ n \in Lengths(o)
  /\ op' = o /\ folder' = f
  /\ left' = n /\ nRetries' = 0
  /\ todo' = IF o = "fetchToFile" THEN 1
             ELSE IF o \in OtherOperations THEN 0 ELSE n
  /\ tainted' = FALSE
  /\ pError' = "unset"
  /\ IF o = "noop" /\ ~mImap THEN Goto("answer", <<>>)
                             ELSE Goto("connectIfNeeded", Frames(o))
  /\ UNCHANGED <<session, mShouldDisconnect, settings, server, link, forgotten>>

\* IMAPCapabilityOperation answers from what the connection has stored.
StoredCapabilities ==
  /\ pc = "idle"
  /\ "capability" \in Operations
  /\ mImap
  /\ op' = "capability" /\ folder' = NULL
  /\ capabilitySetWithSessionState
  /\ pError' = "ErrorNone"
  /\ Goto("answer", <<>>)
  /\ todo' = 0 /\ tainted' = FALSE
  /\ UNCHANGED <<session, mShouldDisconnect, mDelimiter, mDefaultNamespace,
                 loop, server, link, forgotten>>

\* A message file that cannot be read is found out before anything is sent.
AppendUnreadable ==
  /\ pc = "idle"
  /\ "append" \in Operations
  /\ op' = "append" /\ folder' \in Folders
  /\ pError' = "ErrorFile"
  /\ Goto("answer", <<>>)
  /\ todo' = 1 /\ tainted' = FALSE
  /\ UNCHANGED <<session, mShouldDisconnect, settings, loop, server, link,
                 forgotten>>

\* The mark is not taken off.
Disconnect ==
  /\ pc = "idle"
  /\ "disconnect" \in Operations
  /\ op' = "disconnect" /\ folder' = NULL
  /\ Unsetup
  /\ pError' = "ErrorNone"
  /\ Goto("answer", <<>>)
  /\ todo' = 0 /\ tainted' = FALSE
  /\ UNCHANGED <<mCurrentFolder, mShouldDisconnect, settings, loop, faults>>

\* fetchMessageAttachmentToFileByChunksByUID tries a chunk again.
Retries ==
  /\ op = "fetchToFileByChunks"
  /\ pError \in {"ErrorConnection", "ErrorParse"}
  /\ nRetries < maxRetries

\* Mutant: a retry is not counted.
Again_NotCounted ==
  /\ UNCHANGED nRetries
  /\ Goto("connectIfNeeded", Frames(op))

Again ==
  /\ nRetries' = nRetries + 1
  /\ Goto("connectIfNeeded", Frames(op))

\* fetchMessages calls itself when headers come with no message; what the
\* second call says is overwritten.
SecondFetch == op = "fetchMessages" /\ left = 0

\* The functions before an operation's commands failed.
Refuse ==
  /\ pc \in {"selectIfNeeded", "command"}
  /\ pError # "ErrorNone"
  /\ \/ Retries /\ Again
     \/ ~Retries /\ Goto("answer", <<>>) /\ UNCHANGED nRetries
  /\ pError' = IF SecondFetch THEN "ErrorNone" ELSE pError
  /\ UNCHANGED <<session, mShouldDisconnect, settings, call, left, server, link,
                 history>>

\* An operation's command: sent, executed if the server can, and its result
\* turned into an error.
Send(r, error, legal) ==
  /\ Reply(r, legal)
  /\ Mark(r)
  /\ Executed(r)
  /\ pError' = ErrorOf(r, error)

Runs(o) == pc = "command" /\ op = o /\ pError = "ErrorNone"

OneCommand(o, error, legal) ==
  /\ Runs(o)
  /\ \E r \in Replies : Send(r, error, legal)
  /\ Goto("answer", <<>>)
  /\ UNCHANGED <<session, settings, call, loop, server, forgotten>>

HasSelected == srvAuth /\ srvSelected # NULL

\* The client's own command may select a folder, or close the one selected.
\* (After a LOGOUT the next command fails, like any on a broken connection.)
CustomCommand ==
  /\ Runs("customCommand")
  /\ \E r \in Replies :
       /\ Send(r, "ErrorCustomCommand", srvAuth)
       /\ IF stream # "ok" THEN UNCHANGED srvSelected
          ELSE srvSelected' \in IF r = "ok" THEN Folders \cup {NULL}
                                ELSE {srvSelected, NULL}
  /\ strayed' = (strayed \/ srvSelected' # srvSelected)
  /\ Goto("answer", <<>>)
  /\ UNCHANGED <<session, settings, call, loop, srvAuth, preauth, forgotten>>

GetQuota == OneCommand("getQuota", "ErrorFetch", srvAuth)
RenameFolder == OneCommand("renameFolder", "ErrorRename", srvAuth)
DeleteFolder == OneCommand("deleteFolder", "ErrorDelete", srvAuth)
SubscribeFolder == OneCommand("subscribeFolder", "ErrorSubscribe", srvAuth)
UnsubscribeFolder == OneCommand("unsubscribeFolder", "ErrorSubscribe", srvAuth)
AppendMessage == OneCommand("append", "ErrorAppend", srvAuth)
Expunge == OneCommand("expunge", "ErrorExpunge", HasSelected)
Search == OneCommand("search", "ErrorFetch", HasSelected)
FetchMessage == OneCommand("fetchMessage", "ErrorFetch", HasSelected)
FetchAttachment == OneCommand("fetchAttachment", "ErrorFetch", HasSelected)
FetchMessageNumberUIDMapping ==
  OneCommand("uidMapping", "ErrorFetch", HasSelected)

\* folderStatus() asserts that the session is logged in.
FolderStatus ==
  /\ mState \in {"LOGGEDIN", "SELECTED"}
  /\ OneCommand("folderStatus", "ErrorNonExistantFolder", srvAuth)

FolderInfo ==
  /\ Runs("folderInfo")
  /\ Goto("select", <<>>)
  /\ UNCHANGED <<session, mShouldDisconnect, settings, pError, call, loop,
                 server, link, history>>

\* noop() reports two of the failures and marks none.
Noop ==
  /\ Runs("noop")
  /\ \E r \in Replies :
       /\ Reply(r, TRUE)
       /\ Ignored(r)
       /\ pError' = IF r = "parse" THEN "ErrorNone" ELSE ErrorOf(r, "ErrorNoop")
  /\ Goto("answer", <<>>)
  /\ UNCHANGED <<session, mShouldDisconnect, settings, call, loop, server, todo,
                 tainted>>

\* main() asks for the capabilities when none are stored.
CapabilityOperation ==
  /\ Runs("capability")
  /\ Goto("connectIfNeeded", <<"capability", "answer">>)
  /\ UNCHANGED <<session, mShouldDisconnect, settings, pError, call, loop,
                 server, link, history>>

\* create, then subscribeFolder(), which selects INBOX again.
CreateFolder ==
  /\ Runs("createFolder")
  /\ \E r \in Replies :
       /\ Send(r, IF left = 2 THEN "ErrorCreate" ELSE "ErrorSubscribe", srvAuth)
       /\ IF r = "ok" /\ left = 2
          THEN /\ left' = 1
               /\ Goto("connectIfNeeded", <<"loginIfNeeded", "selectIfNeeded">>)
          ELSE Goto("answer", <<>>) /\ UNCHANGED left
  /\ UNCHANGED <<session, settings, call, nRetries, server, forgotten>>

\* Mutant: a refused chunk is skipped.
Chunked_SkipsRefused(o, error) ==
  /\ Runs(o)
  /\ \/ left = 0 /\ UNCHANGED <<mShouldDisconnect, pError, left, link, todo, tainted>>
        /\ Goto("answer", <<>>)
     \/ /\ left > 0
        /\ \E r \in Replies :
             /\ Reply(r, HasSelected) /\ Mark(r) /\ Executed(r)
             /\ pError' = ErrorOf(r, "ErrorNone")
             /\ left' = left - 1
             /\ Goto(IF r \notin Failures /\ left > 1 THEN "command" ELSE "answer", <<>>)
  /\ UNCHANGED <<session, settings, call, nRetries, server, forgotten>>

\* The loop over the chunks of a set: the first failure ends it.
Chunked(o, error) ==
  /\ Runs(o)
  /\ \/ /\ left = 0
        /\ Goto("answer", <<>>)
        /\ UNCHANGED <<mShouldDisconnect, pError, left, link, todo, tainted>>
     \/ /\ left > 0
        /\ \E r \in Replies :
             /\ Send(r, error, HasSelected)
             /\ left' = left - 1
             /\ Goto(IF r = "ok" /\ left > 1 THEN "command" ELSE "answer", <<>>)
  /\ UNCHANGED <<session, settings, call, nRetries, server, forgotten>>

CopyMessages == Chunked("copyMessages", "ErrorCopy")
MoveMessages == Chunked("moveMessages", "ErrorCopy")
StoreFlags == Chunked("storeFlags", "ErrorStore")
StoreLabels == Chunked("storeLabels", "ErrorStore")

\* Headers that came with no message are fetched again in full, by a call of
\* its own.
FetchMessages ==
  /\ Runs("fetchMessages")
  /\ \E r \in Replies :
       \/ /\ left = 1
          /\ Send(r, "ErrorFetch", HasSelected)
          /\ Goto("answer", <<>>)
          /\ UNCHANGED left
       \/ /\ left = 1 /\ r = "ok"
          /\ Reply(r, HasSelected)
          /\ left' = 0
          /\ Goto("connectIfNeeded", Frames(op))
          /\ UNCHANGED <<mShouldDisconnect, pError, todo, tainted>>
       \/ /\ SecondFetch
          /\ Reply(r, HasSelected) /\ Mark(r) /\ Executed(r)
          /\ pError' = "ErrorNone"
          /\ Goto("answer", <<>>)
          /\ UNCHANGED left
  /\ UNCHANGED <<session, settings, call, nRetries, server, forgotten>>

\* selectIfNeeded(), then fetchNonDecodedMessageAttachment(), which calls it
\* again.
FetchToFile ==
  /\ Runs("fetchToFile")
  /\ \/ /\ left = 2
        /\ left' = 1
        /\ Goto("connectIfNeeded", Frames(op))
        /\ UNCHANGED <<mShouldDisconnect, pError, link, todo, tainted>>
     \/ /\ left = 1
        /\ \E r \in Replies : Send(r, "ErrorFetch", HasSelected)
        /\ Goto("answer", <<>>)
        /\ UNCHANGED left
  /\ UNCHANGED <<session, settings, call, nRetries, server, forgotten>>

\* Each chunk starts with selectIfNeeded(); connection and parse errors are
\* tried again up to maxRetries times in a row.
FetchToFileByChunks ==
  /\ Runs("fetchToFileByChunks")
  /\ \E r \in Replies :
       /\ Send(r, "ErrorFetch", HasSelected)
       /\ \/ /\ r = "ok" /\ left > 1
             /\ left' = left - 1 /\ nRetries' = 0
             /\ Goto("connectIfNeeded", Frames(op))
          \/ r = "ok" /\ left = 1 /\ Goto("answer", <<>>) /\ UNCHANGED loop
          \/ r # "ok" /\ UNCHANGED <<pc, stack, loop>>
  /\ UNCHANGED <<session, settings, call, server, forgotten>>

\* fetchDelimiterIfNeeded(); an empty answer leaves the delimiter unknown.
FetchDelimiter ==
  /\ pc = "command" /\ pError = "ErrorNone"
  /\ op \in {"fetchAllFolders", "fetchSubscribedFolders"}
  /\ \/ mDelimiter /\ Goto("list", <<>>)
        /\ UNCHANGED <<mShouldDisconnect, pError, mDelimiter, link>>
     \/ /\ ~mDelimiter
        /\ \E r \in Replies :
             /\ Reply(r, srvAuth) /\ Mark(r)
             /\ pError' = ErrorOf(r, "ErrorNonExistantFolder")
             /\ (r = "ok" /\ mDelimiter' = TRUE) \/ UNCHANGED mDelimiter
             /\ Goto(IF r = "ok" THEN "list" ELSE "answer", <<>>)
  /\ UNCHANGED <<session, mFeatures, mDefaultNamespace, call, loop, server,
                 history>>

\* LSUB; the default namespace is used unchecked.
FetchSubscribedFolders ==
  /\ pc = "list" /\ op = "fetchSubscribedFolders"
  /\ mDefaultNamespace
  /\ \E r \in Replies : Send(r, "ErrorNonExistantFolder", srvAuth)
  /\ Goto("answer", <<>>)
  /\ UNCHANGED <<session, settings, call, loop, server, forgotten>>

\* LIST or XLIST, then LIST "" "INBOX" if the answer has no INBOX: the last
\* of the two results is the error.
FetchAllFolders ==
  /\ pc = "list" /\ op = "fetchAllFolders"
  /\ \E r \in Replies :
       \/ /\ left = 1
          /\ Send(r, "ErrorNonExistantFolder", srvAuth)
          /\ \/ r = "ok" /\ left' = 0 /\ UNCHANGED <<pc, stack>>
             \/ Goto("answer", <<>>) /\ UNCHANGED left
       \/ /\ left = 0
          /\ Reply(r, srvAuth) /\ Mark(r)
          /\ pError' = ErrorOf(r, "ErrorNonExistantFolder")
          /\ Goto("answer", <<>>)
          /\ UNCHANGED <<left, todo, tainted>>
  /\ UNCHANGED <<session, settings, call, nRetries, server, forgotten>>

\* setError(), the end of main() and of its variables.  What the server makes
\* of a connection that failed no longer matters.
Answer ==
  /\ pc = "answer"
  /\ Goto("idle", <<>>)
  /\ op' = NULL /\ folder' = NULL /\ left' = 0 /\ nRetries' = 0
  /\ pError' = "unset"
  /\ todo' = 0 /\ tainted' = FALSE
  /\ IF stream = "ok" THEN UNCHANGED server ELSE NewConnection(FALSE)
  /\ UNCHANGED <<session, mShouldDisconnect, settings, link, forgotten>>

\* MCAssert() aborts the process; so does a command for no libetpan session,
\* and a default namespace that is NULL.
Asserts ==
  /\ pc = "connectIfNeeded" /\ mState = "DISCONNECTED" => ~mImap
  /\ pc = "login" => mState = "CONNECTED"
  /\ pc = "selectIfNeeded" /\ mState = "SELECTED" => mCurrentFolder # NULL
  /\ pc = "select" \/ (op = "folderStatus" /\ pc = "command"
                         /\ pError = "ErrorNone") =>
       mState \in {"LOGGEDIN", "SELECTED"}

\* The next step sends a command.
Sends ==
  \/ pc = "list"
  \/ pc = "fetchNamespace" /\ pError = "ErrorNone"
  \/ /\ pc = "command" /\ pError = "ErrorNone"
     /\ op \notin {"capability", "folderInfo"}
     /\ op \in ChunkedOperations => left > 0
     /\ op = "fetchToFile" => left = 1
     /\ op \in {"fetchAllFolders", "fetchSubscribedFolders"} => ~mDelimiter

Crash ==
  /\ \/ ~Asserts
     \/ Sends /\ ~mImap
     \/ pc = "list" /\ op = "fetchSubscribedFolders" /\ ~mDefaultNamespace
  /\ Goto("crashed", <<>>)
  /\ UNCHANGED <<session, mShouldDisconnect, settings, pError, call, loop,
                 server, link, history>>
-----------------------------------------------------------------------------
Init ==
  /\ mAutomaticConfigurationEnabled \in BOOLEAN
  /\ serverFeatures \in Servers
  /\ mState = "DISCONNECTED" /\ mImap = FALSE /\ mCurrentFolder = NULL
  /\ mShouldDisconnect = FALSE
  /\ mFeatures = {} /\ mDelimiter = FALSE /\ mDefaultNamespace = FALSE
  /\ pError = "unset" /\ pc = "idle" /\ stack = <<>>
  /\ op = NULL /\ folder = NULL /\ left = 0 /\ nRetries = 0
  /\ stream = "closed" /\ srvAuth = FALSE /\ srvSelected = NULL
  /\ faults = MaxFaults
  /\ preauth = FALSE
  /\ todo = 0 /\ tainted = FALSE /\ forgotten = FALSE /\ strayed = FALSE

Client ==
  /\ UNCHANGED config
  /\ \/ \E o \in Operations, n \in 0..MaxChunks + 2 :
          \E f \in IF o \in FolderOperations \cup {"folderInfo"}
                    THEN Folders ELSE {NULL} : Begin(o, f, n)
     \/ StoredCapabilities
     \/ AppendUnreadable
     \/ Disconnect

Configuration ==
  /\ UNCHANGED config
  /\ \/ StayConnected \/ Connect \/ ConnectCapability \/ Propagate \/ Capability
     \/ Identity \/ FetchNamespace \/ LoginIfNeeded \/ Login \/ LoginCapability
     \/ EnableCompression \/ EnableFeature \/ LoginNamespace \/ LoginList
     \/ LoginDone

Commands ==
  /\ UNCHANGED config
  /\ \/ SelectIfNeeded \/ Select \/ Refuse
     \/ CustomCommand \/ GetQuota \/ RenameFolder \/ DeleteFolder \/ CreateFolder
     \/ SubscribeFolder \/ UnsubscribeFolder \/ AppendMessage \/ CopyMessages
     \/ MoveMessages \/ Expunge \/ FetchMessageNumberUIDMapping \/ FetchMessages
     \/ FetchMessage \/ FetchAttachment \/ FetchToFile \/ FetchToFileByChunks
     \/ Search \/ StoreFlags \/ StoreLabels \/ FolderStatus \/ FolderInfo \/ Noop
     \/ CapabilityOperation \/ FetchDelimiter \/ FetchSubscribedFolders
     \/ FetchAllFolders \/ Answer \/ Crash

Next == Client \/ Configuration \/ Commands

Spec == Init /\ [][Next]_vars

\* Servers answer or time out: the worker goes on.  Clients need not.
FairSpec == Spec /\ WF_vars(Configuration \/ Commands)

-----------------------------------------------------------------------------
Labels == {"idle", "connectIfNeeded", "connectCapability", "capability",
           "loginIfNeeded", "login", "loginCapability", "enableFeatures",
           "enableQResync", "fetchNamespace", "loginNamespace", "loginList",
           "identity", "loginDone", "selectIfNeeded", "select", "command",
           "list", "answer", "crashed"}

Errors == ConnectErrors \cup
  {"unset", "ErrorNone", "ErrorParse", "ErrorCapability", "ErrorIdentity",
   "ErrorNamespace", "ErrorAuthentication", "ErrorNonExistantFolder",
   "ErrorCustomCommand", "ErrorFetch", "ErrorRename", "ErrorDelete",
   "ErrorCreate", "ErrorSubscribe", "ErrorAppend", "ErrorExpunge",
   "ErrorCopy", "ErrorStore", "ErrorNoop", "ErrorFile"}

TypeOK ==
  /\ mAutomaticConfigurationEnabled \in BOOLEAN /\ serverFeatures \in Servers
  /\ mState \in States
  /\ mImap \in BOOLEAN
  /\ mShouldDisconnect \in BOOLEAN
  /\ mCurrentFolder \in Folders \cup {NULL}
  /\ mFeatures \subseteq Features
  /\ mDelimiter \in BOOLEAN /\ mDefaultNamespace \in BOOLEAN
  /\ pError \in Errors /\ pc \in Labels /\ stack \in Seq(Labels)
  /\ op \in Operations \cup {NULL} /\ folder \in Folders \cup {NULL}
  /\ left \in Nat /\ nRetries \in 0..maxRetries
  /\ stream \in {"closed", "ok", "broken", "stale"}
  /\ srvAuth \in BOOLEAN /\ srvSelected \in Folders \cup {NULL}
  /\ preauth \in BOOLEAN /\ strayed \in BOOLEAN
  /\ faults \in 0..MaxFaults
  /\ todo \in Int /\ tainted \in BOOLEAN /\ forgotten \in BOOLEAN

\* What the session believes of a connection in order is what the server
\* believes, at every step of every method: mState and mCurrentFolder survive
\* reconnections, refused SELECTs and failures half-way through a login.  (Of
\* the selection this holds until the client's own command changes it.)
StateMatchesServer ==
  stream = "ok" =>
    /\ mImap /\ mState # "DISCONNECTED"
    /\ srvAuth <=> mState \in {"LOGGEDIN", "SELECTED"} \/ preauth
    /\ strayed \/ srvSelected = IF mState = "SELECTED" THEN mCurrentFolder ELSE NULL

\* selectIfNeeded(): a command for a folder is executed in that folder or in
\* none - never in the folder a connection was left in by another operation.
\* (The session does not look at what custom commands select.)
CommandsHitTheirFolder ==
  pc = "command" /\ pError = "ErrorNone" /\ stream = "ok" /\ ~strayed
    /\ op \in FolderOperations =>
      srvSelected = IF mState = "SELECTED" THEN folder ELSE NULL

\* mShouldDisconnect: a connection that failed is replaced before it is used
\* for an operation's command, except after the failures that login() and
\* noop() let pass (those of COMPRESS, ENABLE, LIST, ID and NOOP).
FailedConnectionIsReplaced ==
  pc \in {"select", "command", "list"} /\ pError = "ErrorNone" /\ ~forgotten =>
    stream \in {"ok", "closed"}

\* "ErrorNone" is answered only when the server has executed every command
\* of the operation, each chunk of a set included.  (fetchMessages has a
\* property of its own, as has an answer read from a stream that was stale.)
SuccessMeansDone ==
  pc = "answer" /\ pError = "ErrorNone" /\ ~tainted /\ op # "fetchMessages"
    => todo = 0

\* "On success `error` will be nil and `messages` will be an array of
\* MCOIMAPMessage" (MCOIMAPFetchMessagesOperation.h:35).  The code does not
\* keep this, so no run checks it (README, "Disagreements"): a second FETCH
\* that fails leaves ErrorNone and no messages.
NoErrorMeansMessages ==
  pc = "answer" /\ pError = "ErrorNone" /\ ~tainted /\ op = "fetchMessages"
    => todo = 0

\* MCAssert() at MCIMAPSession.cpp:615, 660, 804, 1085, 1163 and 1233: methods
\* find the session in the state the ...IfNeeded() before them promise.
AssertionsHold == Asserts

\* ... which they do with a server that does not offer COMPRESS, the only
\* extension whose failure is remembered in the middle of login().
AssertionsHoldUncompressed ==
  "CompressDeflate" \notin serverFeatures => Asserts

\* main() returns, or aborts, however servers fail: logging in again while
\* logging in and trying chunks again come to an end.
EveryOperationIsAnswered == pc # "idle" ~> pc \in {"idle", "crashed"}
=============================================================================
