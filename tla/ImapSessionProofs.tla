-------------------------- MODULE ImapSessionProofs --------------------------
(***************************************************************************)
(* The session and the server agree, and a command for a folder is sent    *)
(* while that folder is selected: proofs for every set of folders, every   *)
(* number of chunks, retries and failures, and every server.               *)
(*                                                                         *)
(* The strengthening says what the C++ call stack knows: which functions   *)
(* can be suspended in which order, that login() is only ever entered on a *)
(* connected session, and that the innermost caller of selectIfNeeded() is *)
(* an operation that has a folder.                                         *)
(*                                                                         *)
(* Two more parts follow a failure until it is marked and answered         *)
(* (FaultInv), and the commands of an operation until all are executed     *)
(* (DoneInv).  The last lists the call stacks of a login that neither      *)
(* disconnects nor logs in again (CallInv), for the assertions.            *)
(***************************************************************************)
EXTENDS ImapSession, SequenceTheorems, TLAPS

SelectingOperations == InboxOperations \cup FolderOperations

\* Functions that can be suspended while another runs, ...
Suspended == {"connectCapability", "capability", "loginIfNeeded",
              "loginCapability", "fetchNamespace", "loginNamespace",
              "identity", "loginDone"}

\* ... those that run with others suspended below them, ...
Nested == Suspended \cup
  {"connectIfNeeded", "login", "enableFeatures", "enableQResync", "loginList"}

\* ... and where an operation goes on when the last of them returns.
Outermost(o) ==
  IF o \in SelectingOperations THEN {"selectIfNeeded"}
  ELSE IF o \in OtherOperations THEN {"command", "answer"} ELSE {"command"}

\* A call stack: suspended functions above the operation.
CallStack(s, outermost) ==
  /\ s \in Seq(Suspended \cup outermost)
  /\ s # <<>>
  /\ \A i \in 1..Len(s) : s[i] \in outermost <=> i = Len(s)

StackInv ==
  IF pc \in Nested THEN CallStack(stack, Outermost(op)) ELSE stack = <<>>

ControlInv ==
  /\ pc \in Labels
  /\ StackInv
  /\ pc = "selectIfNeeded" => op \in SelectingOperations
  /\ pc = "select" => op \in SelectingOperations \cup {"folderInfo"}
  /\ pc = "login" => mState = "CONNECTED"
  /\ op \in FolderOperations \cup {"folderInfo"} => folder \in Folders

\* Everything TypeOK says, but for the stack.
FlagTypes ==
  /\ mAutomaticConfigurationEnabled \in BOOLEAN
  /\ mImap \in BOOLEAN
  /\ mShouldDisconnect \in BOOLEAN
  /\ mDelimiter \in BOOLEAN
  /\ mDefaultNamespace \in BOOLEAN
  /\ srvAuth \in BOOLEAN
  /\ preauth \in BOOLEAN
  /\ strayed \in BOOLEAN
  /\ tainted \in BOOLEAN
  /\ forgotten \in BOOLEAN

ValueTypes ==
  /\ serverFeatures \in Servers
  /\ mState \in States
  /\ mCurrentFolder \in Folders \cup {NULL}
  /\ mFeatures \subseteq Features
  /\ pError \in Errors
  /\ op \in Operations \cup {NULL} /\ folder \in Folders \cup {NULL}
  /\ left \in Nat /\ nRetries \in 0..maxRetries
  /\ stream \in {"closed", "ok", "broken", "stale"}
  /\ srvSelected \in Folders \cup {NULL}
  /\ faults \in 0..MaxFaults
  /\ todo \in Int

DataTypes == FlagTypes /\ ValueTypes

\* The folder a session has selected; for a command, the operation's own.
CurrentInv == mState = "SELECTED" => mCurrentFolder \in Folders

CommandInv ==
  pc = "command" /\ pError = "ErrorNone" /\ op \in FolderOperations
    /\ mState = "SELECTED" => mCurrentFolder = folder

TypeInv == DataTypes /\ ControlInv

IInv == TypeInv /\ StateMatchesServer /\ CurrentInv /\ CommandInv

\* Folders have names that differ in more than case: what selectIfNeeded()
\* takes for granted.
FoldsApart == \A f, g \in Folders : Fold[f] = Fold[g] => f = g

-----------------------------------------------------------------------------
\* Calls and returns.

LEMMA LabelsOfStacks ==
  ASSUME NEW o
  PROVE  /\ Suspended \cap Outermost(o) = {}
         /\ Suspended \cup Outermost(o) \subseteq Labels
         /\ Suspended \subseteq Nested
         /\ Nested \cap Outermost(o) = {}
         /\ Nested \subseteq Labels
BY DEF Suspended, Nested, Outermost, Labels

LEMMA EmptyStack ==
  ASSUME NEW S, NEW s \in Seq(S)
  PROVE  s = <<>> <=> Len(s) = 0
OBVIOUS

LEMMA CallOne ==
  ASSUME NEW T, NEW a \in T
  PROVE  CallStack(<<a>>, T)
<1>1. <<a>> \in Seq(Suspended \cup T)
  OBVIOUS
<1> QED
  BY <1>1 DEF CallStack

LEMMA PushedTwo ==
  ASSUME NEW S, NEW a \in S, NEW b \in S, NEW s \in Seq(S)
  PROVE  /\ <<a, b>> \o s \in Seq(S)
         /\ Len(<<a, b>> \o s) = Len(s) + 2
         /\ (<<a, b>> \o s)[1] = a /\ (<<a, b>> \o s)[2] = b
         /\ \A i \in 3..Len(s) + 2 : (<<a, b>> \o s)[i] = s[i - 2]
OBVIOUS

\* Functions are suspended: the stack stays a call stack.
LEMMA CallTwo ==
  ASSUME NEW s, NEW T, NEW a \in Suspended, NEW b \in Suspended, CallStack(s,
         T),
         Suspended \cap T = {}
  PROVE  CallStack(<<a, b>> \o s, T)
<1> DEFINE S == Suspended \cup T
           t == <<a, b>> \o s
<1>1. s \in Seq(S) /\ a \in S /\ b \in S
  BY DEF CallStack
<1>2. /\ t \in Seq(S) /\ Len(t) = Len(s) + 2
      /\ t[1] = a /\ t[2] = b
      /\ \A i \in 3..Len(s) + 2 : t[i] = s[i - 2]
  BY <1>1, PushedTwo
<1>3. Len(s) \in Nat /\ Len(s) # 0
  BY <1>1, EmptyStack DEF CallStack
<1> HIDE DEF t
<1>4. ASSUME NEW i \in 1..Len(t) PROVE t[i] \in T <=> i = Len(t)
  <2>1. CASE i \in 1..2
    BY <2>1, <1>2, <1>3
  <2>2. CASE i \notin 1..2
    <3>1. i - 2 \in 1..Len(s) /\ i \in 3..Len(s) + 2
      BY <2>2, <1>2, <1>3
    <3>2. s[i - 2] \in T <=> i - 2 = Len(s)
      BY <3>1 DEF CallStack
    <3> QED
      BY <3>1, <3>2, <1>2, <1>3
  <2> QED
    BY <2>1, <2>2
<1>5. t # <<>>
  BY <1>2, <1>3, EmptyStack
<1> QED
  BY <1>2, <1>4, <1>5 DEF CallStack, t

LEMMA PushedThree ==
  ASSUME NEW S, NEW a \in S, NEW b \in S, NEW c \in S, NEW s \in Seq(S)
  PROVE  /\ <<a, b, c>> \o s \in Seq(S)
         /\ Len(<<a, b, c>> \o s) = Len(s) + 3
         /\ (<<a, b, c>> \o s)[1] = a /\ (<<a, b, c>> \o s)[2] = b
         /\ (<<a, b, c>> \o s)[3] = c
         /\ \A i \in 4..Len(s) + 3 : (<<a, b, c>> \o s)[i] = s[i - 3]
OBVIOUS

\* Functions are suspended: the stack stays a call stack.
LEMMA CallThree ==
  ASSUME NEW s, NEW T, NEW a \in Suspended, NEW b \in Suspended,
         NEW c \in Suspended, CallStack(s, T),
         Suspended \cap T = {}
  PROVE  CallStack(<<a, b, c>> \o s, T)
<1> DEFINE S == Suspended \cup T
           t == <<a, b, c>> \o s
<1>1. s \in Seq(S) /\ a \in S /\ b \in S /\ c \in S
  BY DEF CallStack
<1>2. /\ t \in Seq(S) /\ Len(t) = Len(s) + 3
      /\ t[1] = a /\ t[2] = b /\ t[3] = c
      /\ \A i \in 4..Len(s) + 3 : t[i] = s[i - 3]
  BY <1>1, PushedThree
<1>3. Len(s) \in Nat /\ Len(s) # 0
  BY <1>1, EmptyStack DEF CallStack
<1> HIDE DEF t
<1>4. ASSUME NEW i \in 1..Len(t) PROVE t[i] \in T <=> i = Len(t)
  <2>1. CASE i \in 1..3
    BY <2>1, <1>2, <1>3
  <2>2. CASE i \notin 1..3
    <3>1. i - 3 \in 1..Len(s) /\ i \in 4..Len(s) + 3
      BY <2>2, <1>2, <1>3
    <3>2. s[i - 3] \in T <=> i - 3 = Len(s)
      BY <3>1 DEF CallStack
    <3> QED
      BY <3>1, <3>2, <1>2, <1>3
  <2> QED
    BY <2>1, <2>2
<1>5. t # <<>>
  BY <1>2, <1>3, EmptyStack
<1> QED
  BY <1>2, <1>4, <1>5 DEF CallStack, t

LEMMA Popped ==
  ASSUME NEW S, NEW s \in Seq(S), s # <<>>
  PROVE  /\ Len(s) \in Nat \ {0}
         /\ Head(s) = s[1] /\ s[1] \in S
         /\ Tail(s) \in Seq(S)
         /\ Len(Tail(s)) = Len(s) - 1
         /\ \A i \in 1..Len(s) - 1 : Tail(s)[i] = s[i + 1]
         /\ Len(s) = 1 => Tail(s) = <<>>
         /\ Len(s) # 1 => Tail(s) # <<>>
<1>1. Len(s) \in Nat \ {0}
  OBVIOUS
<1>2. Head(s) = s[1] /\ s[1] \in S
  BY <1>1
<1>3. Tail(s) \in Seq(S) /\ Len(Tail(s)) = Len(s) - 1
  OBVIOUS
<1>4. \A i \in 1..Len(s) - 1 : Tail(s)[i] = s[i + 1]
  BY <1>1
<1>5. Tail(s) = <<>> <=> Len(Tail(s)) = 0
  BY <1>3, EmptyStack
<1> QED
  BY <1>1, <1>2, <1>3, <1>4, <1>5

\* A function returns: to one that was suspended, or to the operation.
LEMMA CallPop ==
  ASSUME NEW s, NEW T, CallStack(s, T), Suspended \cap T = {}
  PROVE  \/ Head(s) \in Suspended /\ CallStack(Tail(s), T)
         \/ Head(s) \in T /\ Tail(s) = <<>>
<1> DEFINE S == Suspended \cup T
           t == Tail(s)
<1>1. s \in Seq(S) /\ s # <<>>
  BY DEF CallStack
<1>2. /\ Len(s) \in Nat \ {0} /\ Head(s) = s[1] /\ s[1] \in S
      /\ t \in Seq(S) /\ Len(t) = Len(s) - 1
      /\ \A i \in 1..Len(s) - 1 : t[i] = s[i + 1]
      /\ Len(s) = 1 => t = <<>>
      /\ Len(s) # 1 => t # <<>>
  BY <1>1, Popped
<1>3. s[1] \in T <=> 1 = Len(s)
  <2>1. 1 \in 1..Len(s)
    BY <1>2
  <2> QED
    BY <2>1 DEF CallStack
<1>4. CASE Len(s) = 1
  BY <1>2, <1>3, <1>4
<1>5. CASE Len(s) # 1
  <2>1. Head(s) \in Suspended
    BY <1>2, <1>3, <1>5
  <2>2. ASSUME NEW i \in 1..Len(t) PROVE t[i] \in T <=> i = Len(t)
    <3>1. i + 1 \in 1..Len(s) /\ i \in 1..Len(s) - 1
      BY <1>2
    <3>2. s[i + 1] \in T <=> i + 1 = Len(s)
      BY <3>1 DEF CallStack
    <3> HIDE DEF t
    <3> QED
      BY <3>1, <3>2, <1>2
  <2> QED
    BY <2>1, <2>2, <1>2, <1>5 DEF CallStack
<1> QED
  BY <1>4, <1>5

LEMMA FramesAreCallStacks ==
  ASSUME NEW o
  PROVE  /\ CallStack(Frames(o), Outermost(o))
         /\ CallStack(<<"capability", "answer">>, Outermost("capability"))
<1>1. ASSUME NEW T, NEW a \in Suspended, NEW b \in T, Suspended \cap T = {}
      PROVE  CallStack(<<a, b>>, T)
  <2>1. <<a, b>> \in Seq(Suspended \cup T)
    OBVIOUS
  <2> QED
    BY <1>1, <2>1 DEF CallStack
<1>2. ASSUME NEW T, NEW a \in Suspended, NEW b \in Suspended, NEW c \in T,
             Suspended \cap T = {}
      PROVE  CallStack(<<a, b, c>>, T)
  <2>1. <<a, b, c>> \in Seq(Suspended \cup T)
    OBVIOUS
  <2> QED
    BY <1>2, <2>1 DEF CallStack
<1>3. /\ Suspended \cap Outermost(o) = {}
      /\ Suspended \cap Outermost("capability") = {}
  BY LabelsOfStacks
<1>4. {"identity", "loginIfNeeded", "fetchNamespace", "capability"}
        \subseteq Suspended
  BY DEF Suspended
<1>5. CallStack(<<"capability", "answer">>, Outermost("capability"))
  <2>1. "answer" \in Outermost("capability")
    BY DEF Outermost, SelectingOperations, InboxOperations, FolderOperations,
       ChunkedOperations, OtherOperations
  <2> QED
    BY <2>1, <1>1, <1>3, <1>4
<1>6. CallStack(Frames(o), Outermost(o))
  <2>1. CASE o \in SelectingOperations
    <3>1. Outermost(o) = {"selectIfNeeded"}
      BY <2>1 DEF Outermost
    <3>2. Frames(o) = <<"loginIfNeeded", "selectIfNeeded">>
      BY <2>1 DEF Frames, SelectingOperations, InboxOperations,
         FolderOperations, ChunkedOperations
    <3> QED
      BY <3>1, <3>2, <1>1, <1>3, <1>4
  <2>2. CASE o \notin SelectingOperations
    <3>1. /\ "command" \in Outermost(o)
          /\ o \in OtherOperations => "answer" \in Outermost(o)
      BY <2>2 DEF Outermost
    <3>2. o \notin OtherOperations => Frames(o) = <<"loginIfNeeded", "command">>
      BY <2>2 DEF Frames, SelectingOperations, OtherOperations
    <3>3. \/ Frames(o) = <<"answer">>
          \/ Frames(o) = <<"identity", "answer">>
          \/ Frames(o) = <<"loginIfNeeded", "answer">>
          \/ Frames(o) = <<"loginIfNeeded", "fetchNamespace", "answer">>
          \/ Frames(o) = <<"loginIfNeeded", "command">>
      BY <2>2 DEF Frames, SelectingOperations
    <3> QED
      BY <3>1, <3>2, <3>3, <1>1, <1>2, <1>3, <1>4, CallOne
  <2> QED
    BY <2>1, <2>2
<1> QED
  BY <1>5, <1>6
LEMMA ReturnStep ==
  ASSUME pc \in Nested, StackInv, Return, UNCHANGED op
  PROVE  /\ StackInv' /\ pc' \in Labels
         /\ pc' \notin {"login", "select", "list", "idle", "crashed"}
         /\ pc' = "selectIfNeeded" => op' \in SelectingOperations
         /\ pc' = "command" => op' \notin SelectingOperations
         /\ pc' = "answer" => op' \in OtherOperations
<1>1. pc' = Head(stack) /\ stack' = Tail(stack)
  BY DEF Return, Goto
<1>2. CallStack(stack, Outermost(op))
  BY DEF StackInv
<1>3. \/ pc' \in Suspended /\ CallStack(stack', Outermost(op))
      \/ pc' \in Outermost(op) /\ stack' = <<>>
  BY <1>1, <1>2, CallPop, LabelsOfStacks
<1>4. StackInv' /\ pc' \in Labels
  BY <1>3, LabelsOfStacks DEF StackInv
<1> QED
  BY <1>3, <1>4 DEF Suspended, Outermost

LEMMA CallStep ==
  ASSUME NEW l \in Nested, NEW s, CallStack(s, Outermost(op)), Goto(l, s),
         UNCHANGED op
  PROVE  StackInv' /\ pc' \in Labels /\ pc' = l
<1>1. pc' = l /\ stack' = s
  BY DEF Goto
<1> QED
  BY <1>1, LabelsOfStacks DEF StackInv

LEMMA LeaveStep ==
  ASSUME NEW l \in Labels \ Nested, Goto(l, <<>>)
  PROVE  StackInv' /\ pc' = l
BY DEF StackInv, Goto

-----------------------------------------------------------------------------
\* ControlInv is an invariant.

LEMMA ReturnControl ==
  ASSUME ControlInv, pc \in Nested, Return, UNCHANGED <<op, folder>>
  PROVE  ControlInv'
BY ReturnStep DEF ControlInv

LEMMA CallControl ==
  ASSUME ControlInv, NEW l \in Nested, NEW s, CallStack(s, Outermost(op)),
         Goto(l, s), l = "login" => mState' = "CONNECTED",
         UNCHANGED <<op, folder>>
  PROVE  ControlInv'
<1>1. l \notin {"selectIfNeeded", "select"}
  BY DEF Nested, Suspended
<1> QED
  BY <1>1, CallStep DEF ControlInv

LEMMA LeaveControl ==
  ASSUME ControlInv, NEW l \in Labels \ Nested, Goto(l, <<>>),
         l = "selectIfNeeded" => op' \in SelectingOperations,
         l = "select" => op' \in SelectingOperations \cup {"folderInfo"},
         op' \in FolderOperations \cup {"folderInfo"} => folder' \in Folders
  PROVE  ControlInv'
<1>1. pc' \notin Nested
  BY DEF Goto
<1>2. pc' # "login"
  BY <1>1 DEF Nested
<1> QED
  BY <1>2, LeaveStep DEF ControlInv

LEMMA StayControl ==
  ASSUME ControlInv, pc = "command", UNCHANGED <<pc, stack, op, folder>>
  PROVE  ControlInv'
BY DEF ControlInv, StackInv

LEMMA ControlStep ==
  ASSUME DataTypes, ControlInv, Next
  PROVE  ControlInv'
<1> USE DEF call
<1>a. {"connectIfNeeded", "connectCapability", "capability", "loginIfNeeded",
       "login", "loginCapability", "enableFeatures", "enableQResync",
       "fetchNamespace", "loginNamespace", "loginList", "identity",
       "loginDone"} = Nested
  BY DEF Nested, Suspended
<1>b. {"idle", "selectIfNeeded", "select", "command", "list", "answer",
       "crashed"} = Labels \ Nested
  BY <1>a DEF Labels
<1>c. pc \in Nested => CallStack(stack, Outermost(op))
  BY DEF ControlInv, StackInv
<1>d. pc \notin Nested => stack = <<>>
  BY DEF ControlInv, StackInv
<1>e. /\ CallStack(Frames(op), Outermost(op))
      /\ "capability" \notin SelectingOperations
  BY FramesAreCallStacks DEF SelectingOperations, InboxOperations,
     FolderOperations, ChunkedOperations
<1>f. \A a, b \in Suspended :
        pc \in Nested => CallStack(<<a, b>> \o stack, Outermost(op))
  BY <1>c, CallTwo, LabelsOfStacks
<1>g. \A a, b, c \in Suspended :
        pc \in Nested => CallStack(<<a, b, c>> \o stack, Outermost(op))
  BY <1>c, CallThree, LabelsOfStacks
<1>h. {"capability", "connectCapability", "loginCapability", "loginIfNeeded",
       "fetchNamespace", "loginNamespace", "identity", "loginDone"} = Suspended
  BY DEF Suspended
<1>1. CASE StayConnected
  BY <1>1, <1>a, ReturnControl DEF StayConnected
<1>2. CASE ConnectCapability
  BY <1>2, <1>a, ReturnControl DEF ConnectCapability
<1>3. CASE Propagate
  BY <1>3, <1>a, ReturnControl DEF Propagate
<1>4. CASE Capability
  BY <1>4, <1>a, ReturnControl DEF Capability, AskServer
<1>5. CASE Identity
  BY <1>5, <1>a, ReturnControl DEF Identity, AskServer
<1>6. CASE FetchNamespace
  BY <1>6, <1>a, ReturnControl DEF FetchNamespace, AskServer
<1>7. CASE LoginDone
  BY <1>7, <1>a, ReturnControl DEF LoginDone
<1>8. CASE Connect
  <2>1. CASE Return
    BY <1>8, <2>1, <1>a, ReturnControl DEF Connect
  <2>2. CASE Goto("connectIfNeeded",
                  <<"capability", "connectCapability">> \o stack)
    <3>1. CallStack(<<"capability", "connectCapability">> \o stack,
                    Outermost(op))
      BY <1>8, <1>a, <1>f, <1>h DEF Connect
    <3> QED
      BY <1>8, <2>2, <3>1, <1>a, CallControl DEF Connect
  <2> QED
    BY <1>8, <2>1, <2>2 DEF Connect, ConnectFails, ConnectSucceeds
<1>9. CASE LoginIfNeeded
  <2>1. CASE mState = "CONNECTED"
    BY <1>9, <2>1, <1>a, <1>c, CallControl DEF LoginIfNeeded, session
  <2>2. CASE mState # "CONNECTED"
    BY <1>9, <2>2, <1>a, ReturnControl DEF LoginIfNeeded
  <2> QED
    BY <2>1, <2>2
<1>10. CASE Login
  <2>1. CASE Return
    BY <1>10, <2>1, <1>a, ReturnControl DEF Login
  <2>2. CASE Goto("enableFeatures", stack)
    BY <1>10, <2>2, <1>a, <1>c, CallControl DEF Login
  <2>3. CASE Goto("connectIfNeeded",
                  <<"capability", "loginCapability">> \o stack)
    <3>1. CallStack(<<"capability", "loginCapability">> \o stack, Outermost(op))
      BY <1>10, <1>a, <1>f, <1>h DEF Login
    <3> QED
      BY <1>10, <2>3, <3>1, <1>a, CallControl DEF Login
  <2> QED
    BY <1>10, <2>1, <2>2, <2>3 DEF Login, LoginSucceeds
<1>11. CASE LoginCapability
  BY <1>11, <1>a, <1>c, CallControl DEF LoginCapability
<1>12. CASE EnableCompression
  BY <1>12, <1>a, <1>c, CallControl DEF EnableCompression
<1>13. CASE EnableFeature
  <2>1. CASE Goto("loginDone", stack)
    BY <1>13, <2>1, <1>a, <1>c, CallControl DEF EnableFeature
  <2>2. CASE Goto("loginList", stack)
    BY <1>13, <2>2, <1>a, <1>c, CallControl DEF EnableFeature
  <2>3. CASE Goto("connectIfNeeded",
               <<"loginIfNeeded", "fetchNamespace", "loginNamespace">> \o stack)
    <3>1. CallStack(<<"loginIfNeeded", "fetchNamespace", "loginNamespace">>
                      \o stack, Outermost(op))
      BY <1>13, <1>a, <1>g, <1>h DEF EnableFeature
    <3> QED
      BY <1>13, <2>3, <3>1, <1>a, CallControl DEF EnableFeature
  <2> QED
    BY <1>13, <2>1, <2>2, <2>3 DEF EnableFeature
<1>14. CASE LoginNamespace
  <2>1. CASE GotoIdentity
    <3>1. CASE Goto("loginDone", stack)
      BY <1>14, <3>1, <1>a, <1>c, CallControl DEF LoginNamespace
    <3>2. CASE Goto("connectIfNeeded", <<"identity", "loginDone">> \o stack)
      <4>1. CallStack(<<"identity", "loginDone">> \o stack, Outermost(op))
        BY <1>14, <1>a, <1>f, <1>h DEF LoginNamespace
      <4> QED
        BY <1>14, <3>2, <4>1, <1>a, CallControl DEF LoginNamespace
    <3> QED
      BY <2>1, <3>1, <3>2 DEF GotoIdentity
  <2>2. CASE Goto("loginList", stack)
    BY <1>14, <2>2, <1>a, <1>c, CallControl DEF LoginNamespace
  <2> QED
    BY <1>14, <2>1, <2>2 DEF LoginNamespace
<1>15. CASE LoginList
  <2>1. CASE GotoIdentity
    <3>1. CASE Goto("loginDone", stack)
      BY <1>15, <3>1, <1>a, <1>c, CallControl DEF LoginList
    <3>2. CASE Goto("connectIfNeeded", <<"identity", "loginDone">> \o stack)
      <4>1. CallStack(<<"identity", "loginDone">> \o stack, Outermost(op))
        BY <1>15, <1>a, <1>f, <1>h DEF LoginList
      <4> QED
        BY <1>15, <3>2, <4>1, <1>a, CallControl DEF LoginList
    <3> QED
      BY <2>1, <3>1, <3>2 DEF GotoIdentity
  <2>2. CASE Return
    BY <1>15, <2>2, <1>a, <1>c, ReturnControl DEF LoginList
  <2> QED
    BY <1>15, <2>1, <2>2 DEF LoginList
<1>16. CASE SelectIfNeeded
  <2>1. Goto("command", <<>>) \/ Goto("select", <<>>)
    BY <1>16, <1>a, <1>d DEF SelectIfNeeded
  <2> QED
    BY <1>16, <2>1, <1>b, LeaveControl DEF SelectIfNeeded, ControlInv
<1>17. CASE Select
  <2>1. Goto("command", <<>>) \/ Goto("answer", <<>>)
    BY <1>17, <1>a, <1>d DEF Select
  <2> QED
    BY <1>17, <2>1, <1>b, LeaveControl DEF Select, ControlInv
<1>18. CASE Refuse
  <2>1. CASE Goto("answer", <<>>)
    BY <1>18, <2>1, <1>b, LeaveControl DEF Refuse, ControlInv
  <2>2. CASE Goto("connectIfNeeded", Frames(op))
    BY <1>18, <2>2, <1>a, <1>e, CallControl DEF Refuse
  <2> QED
    BY <1>18, <2>1, <2>2 DEF Refuse, Again
<1>19. CASE CustomCommand
  BY <1>19, <1>b, LeaveControl DEF CustomCommand, ControlInv
<1>20. CASE GetQuota
  BY <1>20, <1>b, LeaveControl DEF GetQuota, OneCommand, ControlInv
<1>21. CASE RenameFolder
  BY <1>21, <1>b, LeaveControl DEF RenameFolder, OneCommand, ControlInv
<1>22. CASE DeleteFolder
  BY <1>22, <1>b, LeaveControl DEF DeleteFolder, OneCommand, ControlInv
<1>23. CASE SubscribeFolder
  BY <1>23, <1>b, LeaveControl DEF SubscribeFolder, OneCommand, ControlInv
<1>24. CASE UnsubscribeFolder
  BY <1>24, <1>b, LeaveControl DEF UnsubscribeFolder, OneCommand, ControlInv
<1>25. CASE AppendMessage
  BY <1>25, <1>b, LeaveControl DEF AppendMessage, OneCommand, ControlInv
<1>26. CASE Expunge
  BY <1>26, <1>b, LeaveControl DEF Expunge, OneCommand, ControlInv
<1>27. CASE Search
  BY <1>27, <1>b, LeaveControl DEF Search, OneCommand, ControlInv
<1>28. CASE FetchMessage
  BY <1>28, <1>b, LeaveControl DEF FetchMessage, OneCommand, ControlInv
<1>29. CASE FetchAttachment
  BY <1>29, <1>b, LeaveControl DEF FetchAttachment, OneCommand, ControlInv
<1>30. CASE FetchMessageNumberUIDMapping
  BY <1>30, <1>b, LeaveControl DEF FetchMessageNumberUIDMapping, OneCommand,
     ControlInv
<1>31. CASE FolderStatus
  BY <1>31, <1>b, LeaveControl DEF FolderStatus, OneCommand, ControlInv
<1>32. CASE Answer
  <2>1. op' = NULL /\ NULL \notin FolderOperations \cup {"folderInfo"}
    BY <1>32, SessionAssumption DEF Answer, AllOperations, LoginOperations
  <2> QED
    BY <1>32, <2>1, <1>b, LeaveControl DEF Answer
<1>33. CASE FolderInfo
  BY <1>33, <1>b, LeaveControl DEF FolderInfo, ControlInv, Runs
<1>34. CASE Noop
  BY <1>34, <1>b, LeaveControl DEF Noop, ControlInv
<1>35. CASE Crash
  BY <1>35, <1>b, LeaveControl DEF Crash, ControlInv
<1>36. CASE CapabilityOperation
  <2>1. op = "capability"
    BY <1>36 DEF CapabilityOperation, Runs
  <2>2. CallStack(<<"capability", "answer">>, Outermost(op))
    BY <2>1, FramesAreCallStacks
  <2> QED
    BY <1>36, <2>2, <1>a, CallControl DEF CapabilityOperation
<1>37. CASE CreateFolder
  <2>1. CASE Goto("answer", <<>>)
    BY <1>37, <2>1, <1>b, LeaveControl DEF CreateFolder, ControlInv
  <2>2. CASE Goto("connectIfNeeded", <<"loginIfNeeded", "selectIfNeeded">>)
    <3>1. op = "createFolder"
      BY <1>37 DEF CreateFolder, Runs
    <3>2. Frames(op) = <<"loginIfNeeded", "selectIfNeeded">>
      BY <3>1 DEF Frames, InboxOperations
    <3> QED
      BY <1>37, <2>2, <3>2, <1>a, <1>e, CallControl DEF CreateFolder
  <2> QED
    BY <1>37, <2>1, <2>2 DEF CreateFolder
<1>38. CASE CopyMessages
  <2>1. Goto("answer", <<>>) \/ Goto("command", <<>>)
    BY <1>38 DEF CopyMessages, Chunked
  <2> QED
    BY <1>38, <2>1, <1>b, LeaveControl DEF CopyMessages, Chunked, ControlInv
<1>39. CASE MoveMessages
  <2>1. Goto("answer", <<>>) \/ Goto("command", <<>>)
    BY <1>39 DEF MoveMessages, Chunked
  <2> QED
    BY <1>39, <2>1, <1>b, LeaveControl DEF MoveMessages, Chunked, ControlInv
<1>40. CASE StoreFlags
  <2>1. Goto("answer", <<>>) \/ Goto("command", <<>>)
    BY <1>40 DEF StoreFlags, Chunked
  <2> QED
    BY <1>40, <2>1, <1>b, LeaveControl DEF StoreFlags, Chunked, ControlInv
<1>41. CASE StoreLabels
  <2>1. Goto("answer", <<>>) \/ Goto("command", <<>>)
    BY <1>41 DEF StoreLabels, Chunked
  <2> QED
    BY <1>41, <2>1, <1>b, LeaveControl DEF StoreLabels, Chunked, ControlInv
<1>42. CASE FetchMessages
  <2>1. Goto("answer", <<>>) \/ Goto("connectIfNeeded", Frames(op))
    BY <1>42 DEF FetchMessages
  <2>2. CASE Goto("answer", <<>>)
    BY <1>42, <2>2, <1>b, LeaveControl DEF FetchMessages, ControlInv
  <2>3. CASE Goto("connectIfNeeded", Frames(op))
    BY <1>42, <2>3, <1>a, <1>e, CallControl DEF FetchMessages
  <2> QED
    BY <2>1, <2>2, <2>3
<1>43. CASE FetchToFile
  <2>1. Goto("answer", <<>>) \/ Goto("connectIfNeeded", Frames(op))
    BY <1>43 DEF FetchToFile
  <2>2. CASE Goto("answer", <<>>)
    BY <1>43, <2>2, <1>b, LeaveControl DEF FetchToFile, ControlInv
  <2>3. CASE Goto("connectIfNeeded", Frames(op))
    BY <1>43, <2>3, <1>a, <1>e, CallControl DEF FetchToFile
  <2> QED
    BY <2>1, <2>2, <2>3
<1>44. CASE FetchToFileByChunks
  <2>1. \/ Goto("answer", <<>>) \/ UNCHANGED <<pc, stack>>
        \/ Goto("connectIfNeeded", Frames(op))
    BY <1>44 DEF FetchToFileByChunks
  <2>2. CASE Goto("answer", <<>>) \/ UNCHANGED <<pc, stack>>
    BY <1>44, <2>2, <1>b, LeaveControl, StayControl DEF FetchToFileByChunks,
       Runs, ControlInv
  <2>3. CASE Goto("connectIfNeeded", Frames(op))
    BY <1>44, <2>3, <1>a, <1>e, CallControl DEF FetchToFileByChunks
  <2> QED
    BY <2>1, <2>2, <2>3
<1>45. CASE FetchDelimiter
  <2>1. Goto("answer", <<>>) \/ Goto("list", <<>>)
    BY <1>45 DEF FetchDelimiter
  <2> QED
    BY <1>45, <2>1, <1>b, LeaveControl DEF FetchDelimiter, ControlInv
<1>46. CASE FetchSubscribedFolders
  BY <1>46, <1>b, LeaveControl DEF FetchSubscribedFolders, ControlInv
<1>47. CASE FetchAllFolders
  <2>1. pc = "list" /\ op = "fetchAllFolders"
    BY <1>47 DEF FetchAllFolders
  <2>2. CASE Goto("answer", <<>>)
    BY <1>47, <2>2, <1>b, LeaveControl DEF FetchAllFolders, ControlInv
  <2>3. CASE UNCHANGED <<pc, stack>>
    BY <1>47, <2>1, <2>3 DEF FetchAllFolders, ControlInv, StackInv
  <2> QED
    BY <1>47, <2>2, <2>3 DEF FetchAllFolders
<1>48. CASE StoredCapabilities
  <2>1. op' = "capability" /\ op' \notin FolderOperations
    BY <1>48 DEF StoredCapabilities, FolderOperations, ChunkedOperations
  <2> QED
    BY <1>48, <2>1, <1>b, LeaveControl DEF StoredCapabilities
<1>49. CASE Disconnect
  <2>1. op' = "disconnect" /\ op' \notin FolderOperations
    BY <1>49 DEF Disconnect, FolderOperations, ChunkedOperations
  <2> QED
    BY <1>49, <2>1, <1>b, LeaveControl DEF Disconnect
<1>50. ASSUME NEW o \in Operations, NEW m \in 0..MaxChunks + 2,
             NEW f \in IF o \in FolderOperations \cup {"folderInfo"}
                       THEN Folders ELSE {NULL},
             Begin(o, f, m)
      PROVE  ControlInv'
  <2>1. op' = o /\ folder' = f
    BY <1>50 DEF Begin
  <2>2. op' \in FolderOperations \cup {"folderInfo"} => folder' \in Folders
    BY <2>1
  <2>3. CASE Goto("answer", <<>>)
    BY <2>2, <2>3, <1>b, LeaveControl
  <2>4. CASE Goto("connectIfNeeded", Frames(o))
    <3>1. CallStack(stack', Outermost(op'))
      BY <2>1, <2>4, FramesAreCallStacks DEF Goto
    <3>2. pc' = "connectIfNeeded" /\ pc' \in Nested
      BY <2>4, <1>a DEF Goto
    <3> QED
      BY <2>2, <3>1, <3>2, LabelsOfStacks DEF ControlInv, StackInv
  <2> QED
    BY <1>50, <2>3, <2>4 DEF Begin
<1>51. CASE AppendUnreadable
  BY <1>51, <1>b, LeaveControl DEF AppendUnreadable
<1> QED
  BY <1>1, <1>2, <1>3, <1>4, <1>5, <1>6, <1>7, <1>8, <1>9, <1>10, <1>11,
     <1>12, <1>13, <1>14, <1>15, <1>16, <1>17, <1>18, <1>19, <1>20, <1>21,
     <1>22, <1>23, <1>24, <1>25, <1>26, <1>27, <1>28, <1>29, <1>30, <1>31,
     <1>32, <1>33, <1>34, <1>35, <1>36, <1>37, <1>38, <1>39, <1>40, <1>41,
     <1>42, <1>43, <1>44, <1>45, <1>46, <1>47, <1>48, <1>49, <1>50, <1>51
  DEF Next, Client, Configuration, Commands

-----------------------------------------------------------------------------
\* DataTypes is an invariant.

LEMMA ConfigStays == Next => UNCHANGED config
BY DEF Next, Client, Configuration, Commands

LEMMA ServersHaveFeatures ==
  serverFeatures \in Servers => serverFeatures \subseteq Features
BY SessionAssumption

LEMMA DataStep ==
  ASSUME DataTypes, ControlInv, Next
  PROVE  DataTypes'
<1> USE SessionAssumption, ServersHaveFeatures, ConfigStays
    DEF DataTypes, FlagTypes, ValueTypes, Reply, Mark, ErrorOf, Executed, N,
        Replies, Failures, Errors, ConnectErrors, States, session, settings,
        call, loop, server, link, history, config, NewConnection
<1>1. CASE StayConnected
  BY <1>1 DEF StayConnected
<1>2. CASE Connect
  <2>1. FlagTypes'
    BY <1>2, Zenon DEF Connect, ConnectFails, ConnectSucceeds, Unsetup,
       Greeting, capabilitySetWithSessionState
  <2>2. ValueTypes'
    BY <1>2 DEF Connect, ConnectFails, ConnectSucceeds, Unsetup, Greeting,
       capabilitySetWithSessionState
  <2> QED
    BY <2>1, <2>2
<1>3. CASE ConnectCapability
  <2>1. FlagTypes'
    BY <1>3, Zenon DEF ConnectCapability, Unsetup
  <2>2. ValueTypes'
    BY <1>3 DEF ConnectCapability, Unsetup
  <2> QED
    BY <2>1, <2>2
<1>4. CASE Propagate
  BY <1>4 DEF Propagate
<1>5. CASE Capability
  BY <1>5 DEF Capability, AskServer, capabilitySetWithSessionState
<1>6. CASE Identity
  BY <1>6 DEF Identity, AskServer
<1>7. CASE FetchNamespace
  BY <1>7 DEF FetchNamespace, AskServer
<1>8. CASE LoginIfNeeded
  BY <1>8 DEF LoginIfNeeded
<1>9. CASE Login
  <2>1. FlagTypes'
    BY <1>9, Zenon DEF Login, LoginSucceeds, LoginFails,
       capabilitySetWithSessionState
  <2>2. ValueTypes'
    BY <1>9 DEF Login, LoginSucceeds, LoginFails,
       capabilitySetWithSessionState
  <2> QED
    BY <2>1, <2>2
<1>10. CASE LoginCapability
  BY <1>10 DEF LoginCapability
<1>11. CASE EnableCompression
  BY <1>11 DEF EnableCompression, Ignored
<1>12. CASE EnableFeature
  BY <1>12 DEF EnableFeature, Ignored
<1>13. CASE LoginNamespace
  <2>1. FlagTypes'
    BY <1>13, Zenon DEF LoginNamespace
  <2>2. ValueTypes'
    BY <1>13 DEF LoginNamespace
  <2> QED
    BY <2>1, <2>2
<1>14. CASE LoginList
  <2>1. FlagTypes'
    BY <1>14, Zenon DEF LoginList, Ignored
  <2>2. ValueTypes'
    BY <1>14 DEF LoginList, Ignored
  <2> QED
    BY <2>1, <2>2
<1>15. CASE LoginDone
  BY <1>15 DEF LoginDone
<1>16. CASE SelectIfNeeded
  BY <1>16 DEF SelectIfNeeded
<1>17. CASE Select
  <2>1. FlagTypes'
    BY <1>17, Zenon DEF Select, SelectFails, Target
  <2>2. ValueTypes'
    BY <1>17 DEF Select, SelectFails, Target
  <2> QED
    BY <2>1, <2>2
<1>18. CASE Refuse
  BY <1>18 DEF Refuse, Retries, Again
<1>19. CASE CustomCommand
  <2>1. FlagTypes'
    BY <1>19, Zenon DEF CustomCommand, Send
  <2>2. srvSelected' \in Folders \cup {NULL}
    BY <1>19 DEF CustomCommand
  <2>3. ValueTypes'
    BY <1>19, <2>2 DEF CustomCommand, Send
  <2> QED
    BY <2>1, <2>3
<1>20. CASE GetQuota
  BY <1>20 DEF GetQuota, OneCommand, Send
<1>21. CASE RenameFolder
  BY <1>21 DEF RenameFolder, OneCommand, Send
<1>22. CASE DeleteFolder
  BY <1>22 DEF DeleteFolder, OneCommand, Send
<1>23. CASE SubscribeFolder
  BY <1>23 DEF SubscribeFolder, OneCommand, Send
<1>24. CASE UnsubscribeFolder
  BY <1>24 DEF UnsubscribeFolder, OneCommand, Send
<1>25. CASE AppendMessage
  BY <1>25 DEF AppendMessage, OneCommand, Send
<1>26. CASE Expunge
  BY <1>26 DEF Expunge, OneCommand, Send
<1>27. CASE Search
  BY <1>27 DEF Search, OneCommand, Send
<1>28. CASE FetchMessage
  BY <1>28 DEF FetchMessage, OneCommand, Send
<1>29. CASE FetchAttachment
  BY <1>29 DEF FetchAttachment, OneCommand, Send
<1>30. CASE FetchMessageNumberUIDMapping
  BY <1>30 DEF FetchMessageNumberUIDMapping, OneCommand, Send
<1>31. CASE CreateFolder
  BY <1>31 DEF CreateFolder, Send
<1>32. CASE CopyMessages
  BY <1>32 DEF CopyMessages, Chunked, Send
<1>33. CASE MoveMessages
  BY <1>33 DEF MoveMessages, Chunked, Send
<1>34. CASE StoreFlags
  BY <1>34 DEF StoreFlags, Chunked, Send
<1>35. CASE StoreLabels
  BY <1>35 DEF StoreLabels, Chunked, Send
<1>36. CASE FetchMessages
  BY <1>36 DEF FetchMessages, Send
<1>37. CASE FetchToFile
  BY <1>37 DEF FetchToFile, Send
<1>38. CASE FetchToFileByChunks
  BY <1>38 DEF FetchToFileByChunks, Send
<1>39. CASE FolderStatus
  BY <1>39 DEF FolderStatus, OneCommand, Send
<1>40. CASE FolderInfo
  BY <1>40 DEF FolderInfo
<1>41. CASE Noop
  BY <1>41 DEF Noop, Ignored
<1>42. CASE CapabilityOperation
  BY <1>42 DEF CapabilityOperation
<1>43. CASE FetchDelimiter
  <2>1. FlagTypes'
    BY <1>43, Zenon DEF FetchDelimiter
  <2>2. ValueTypes'
    BY <1>43 DEF FetchDelimiter
  <2> QED
    BY <2>1, <2>2
<1>44. CASE FetchSubscribedFolders
  BY <1>44 DEF FetchSubscribedFolders, Send
<1>45. CASE FetchAllFolders
  BY <1>45 DEF FetchAllFolders, Send
<1>46. CASE Answer
  <2>1. FlagTypes'
    BY <1>46, Zenon DEF Answer
  <2>2. ValueTypes'
    BY <1>46 DEF Answer
  <2> QED
    BY <2>1, <2>2
<1>47. CASE Crash
  BY <1>47 DEF Crash
<1>48. CASE StoredCapabilities
  <2>1. FlagTypes'
    BY <1>48, Zenon DEF StoredCapabilities, capabilitySetWithSessionState
  <2>2. ValueTypes'
    BY <1>48 DEF StoredCapabilities, capabilitySetWithSessionState
  <2> QED
    BY <2>1, <2>2
<1>49. CASE Disconnect
  <2>1. FlagTypes'
    BY <1>49, Zenon DEF Disconnect, Unsetup
  <2>2. ValueTypes'
    BY <1>49 DEF Disconnect, Unsetup
  <2> QED
    BY <2>1, <2>2
<1>50. ASSUME NEW o \in Operations, NEW m \in 0..MaxChunks + 2,
             NEW f \in IF o \in FolderOperations \cup {"folderInfo"}
                       THEN Folders ELSE {NULL},
             Begin(o, f, m)
      PROVE  DataTypes'
  <2>1. FlagTypes'
    BY <1>50, Zenon DEF Begin
  <2>2. m \in Nat /\ f \in Folders \cup {NULL}
    OBVIOUS
  <2>3. ValueTypes'
    BY <1>50, <2>2 DEF Begin
  <2> QED
    BY <2>1, <2>3
<1>51. CASE AppendUnreadable
  <2>1. FlagTypes'
    BY <1>51, Zenon DEF AppendUnreadable
  <2>2. ValueTypes'
    BY <1>51 DEF AppendUnreadable
  <2> QED
    BY <2>1, <2>2
<1> QED
  BY <1>1, <1>2, <1>3, <1>4, <1>5, <1>6, <1>7, <1>8, <1>9, <1>10, <1>11,
     <1>12, <1>13, <1>14, <1>15, <1>16, <1>17, <1>18, <1>19, <1>20, <1>21,
     <1>22, <1>23, <1>24, <1>25, <1>26, <1>27, <1>28, <1>29, <1>30, <1>31,
     <1>32, <1>33, <1>34, <1>35, <1>36, <1>37, <1>38, <1>39, <1>40, <1>41,
     <1>42, <1>43, <1>44, <1>45, <1>46, <1>47, <1>48, <1>49, <1>50, <1>51 DEF Next,
     Client, Configuration, Commands

-----------------------------------------------------------------------------
\* StateMatchesServer is an invariant.

\* Most steps leave what the session and the server believe alone, and can
\* only spoil the connection.
LEMMA Unrelated ==
  ASSUME StateMatchesServer, UNCHANGED <<session, server>>,
         stream' = "ok" => stream = "ok"
  PROVE  StateMatchesServer'
BY DEF StateMatchesServer, session, server

LEMMA ServerStep ==
  ASSUME DataTypes, ControlInv, StateMatchesServer, Next
  PROVE  StateMatchesServer'
<1> USE DEF Reply, link, NewConnection
<1>1. CASE StayConnected
  BY <1>1, Unrelated DEF StayConnected
<1>2. CASE Propagate
  BY <1>2, Unrelated DEF Propagate
<1>3. CASE Capability
  BY <1>3, Unrelated DEF Capability, AskServer
<1>4. CASE Identity
  BY <1>4, Unrelated DEF Identity, AskServer
<1>5. CASE FetchNamespace
  BY <1>5, Unrelated DEF FetchNamespace, AskServer
<1>6. CASE LoginIfNeeded
  BY <1>6, Unrelated DEF LoginIfNeeded
<1>7. CASE LoginCapability
  BY <1>7, Unrelated DEF LoginCapability
<1>8. CASE EnableCompression
  BY <1>8, Unrelated DEF EnableCompression
<1>9. CASE EnableFeature
  BY <1>9, Unrelated DEF EnableFeature
<1>10. CASE LoginNamespace
  BY <1>10, Unrelated DEF LoginNamespace
<1>11. CASE LoginList
  BY <1>11, Unrelated DEF LoginList
<1>12. CASE LoginDone
  BY <1>12, Unrelated DEF LoginDone
<1>13. CASE SelectIfNeeded
  BY <1>13, Unrelated DEF SelectIfNeeded
<1>14. CASE Refuse
  BY <1>14, Unrelated DEF Refuse
<1>15. CASE CustomCommand
  <2>1. UNCHANGED <<session, srvAuth, preauth>> /\ (stream' = "ok" => stream = "ok")
    BY <1>15 DEF CustomCommand, Send
  <2>2. stream = "ok" /\ ~strayed' => ~strayed /\ srvSelected' = srvSelected
    BY <1>15 DEF CustomCommand, DataTypes, FlagTypes
  <2> QED
    BY <2>1, <2>2 DEF StateMatchesServer, session
<1>16. CASE GetQuota
  BY <1>16, Unrelated DEF GetQuota, OneCommand, Send
<1>17. CASE RenameFolder
  BY <1>17, Unrelated DEF RenameFolder, OneCommand, Send
<1>18. CASE DeleteFolder
  BY <1>18, Unrelated DEF DeleteFolder, OneCommand, Send
<1>19. CASE SubscribeFolder
  BY <1>19, Unrelated DEF SubscribeFolder, OneCommand, Send
<1>20. CASE UnsubscribeFolder
  BY <1>20, Unrelated DEF UnsubscribeFolder, OneCommand, Send
<1>21. CASE AppendMessage
  BY <1>21, Unrelated DEF AppendMessage, OneCommand, Send
<1>22. CASE Expunge
  BY <1>22, Unrelated DEF Expunge, OneCommand, Send
<1>23. CASE Search
  BY <1>23, Unrelated DEF Search, OneCommand, Send
<1>24. CASE FetchMessage
  BY <1>24, Unrelated DEF FetchMessage, OneCommand, Send
<1>25. CASE FetchAttachment
  BY <1>25, Unrelated DEF FetchAttachment, OneCommand, Send
<1>26. CASE FetchMessageNumberUIDMapping
  BY <1>26, Unrelated DEF FetchMessageNumberUIDMapping, OneCommand, Send
<1>27. CASE CreateFolder
  BY <1>27, Unrelated DEF CreateFolder, Send
<1>28. CASE CopyMessages
  BY <1>28, Unrelated DEF CopyMessages, Chunked, Send
<1>29. CASE MoveMessages
  BY <1>29, Unrelated DEF MoveMessages, Chunked, Send
<1>30. CASE StoreFlags
  BY <1>30, Unrelated DEF StoreFlags, Chunked, Send
<1>31. CASE StoreLabels
  BY <1>31, Unrelated DEF StoreLabels, Chunked, Send
<1>32. CASE FetchMessages
  BY <1>32, Unrelated DEF FetchMessages, Send
<1>33. CASE FetchToFile
  BY <1>33, Unrelated DEF FetchToFile, Send
<1>34. CASE FetchToFileByChunks
  BY <1>34, Unrelated DEF FetchToFileByChunks, Send
<1>35. CASE FolderStatus
  BY <1>35, Unrelated DEF FolderStatus, OneCommand, Send
<1>36. CASE FolderInfo
  BY <1>36, Unrelated DEF FolderInfo
<1>37. CASE Noop
  BY <1>37, Unrelated DEF Noop
<1>38. CASE CapabilityOperation
  BY <1>38, Unrelated DEF CapabilityOperation
<1>39. CASE FetchDelimiter
  BY <1>39, Unrelated DEF FetchDelimiter
<1>40. CASE FetchSubscribedFolders
  BY <1>40, Unrelated DEF FetchSubscribedFolders, Send
<1>41. CASE FetchAllFolders
  BY <1>41, Unrelated DEF FetchAllFolders, Send
<1>42. CASE Answer
  <2>1. CASE stream = "ok"
    BY <1>42, <2>1, Unrelated DEF Answer
  <2>2. CASE stream # "ok"
    BY <1>42, <2>2 DEF Answer, StateMatchesServer
  <2> QED
    BY <2>1, <2>2
<1>43. CASE Crash
  BY <1>43, Unrelated DEF Crash
<1>44. CASE StoredCapabilities
  BY <1>44, Unrelated DEF StoredCapabilities
<1>45. CASE Connect
  BY <1>45 DEF Connect, ConnectFails, ConnectSucceeds, Unsetup,
     StateMatchesServer
<1>46. CASE ConnectCapability
  <2>1. CASE UNCHANGED <<session, server, stream>>
    BY <2>1, Unrelated
  <2>2. CASE Unsetup
    BY <2>2 DEF Unsetup, StateMatchesServer
  <2> QED
    BY <1>46, <2>1, <2>2 DEF ConnectCapability
<1>47. CASE Login
  <2>1. CASE LoginFails /\ UNCHANGED <<mState, server>>
    <3>1. UNCHANGED <<session, server>>
      BY <1>47, <2>1 DEF Login, session
    <3> QED
      BY <2>1, <3>1, Unrelated DEF LoginFails, Failures
  <2>2. CASE LoginSucceeds
    BY <1>47, <2>2
    DEF Login, LoginSucceeds, StateMatchesServer, ControlInv, session, server
  <2> QED
    BY <1>47, <2>1, <2>2 DEF Login
<1>48. CASE Select
  BY <1>48 DEF Select, SelectFails, StateMatchesServer, Failures, DataTypes,
     FlagTypes, session, server
<1>49. CASE Disconnect
  BY <1>49 DEF Disconnect, Unsetup, StateMatchesServer
<1>50. ASSUME NEW o \in Operations, NEW m \in 0..MaxChunks + 2, NEW f,
             Begin(o, f, m)
      PROVE  StateMatchesServer'
  BY <1>50, Unrelated DEF Begin
<1>51. CASE AppendUnreadable
  BY <1>51, Unrelated DEF AppendUnreadable
<1> QED
  BY <1>1, <1>2, <1>3, <1>4, <1>5, <1>6, <1>7, <1>8, <1>9, <1>10, <1>11,
     <1>12, <1>13, <1>14, <1>15, <1>16, <1>17, <1>18, <1>19, <1>20, <1>21,
     <1>22, <1>23, <1>24, <1>25, <1>26, <1>27, <1>28, <1>29, <1>30, <1>31,
     <1>32, <1>33, <1>34, <1>35, <1>36, <1>37, <1>38, <1>39, <1>40, <1>41,
     <1>42, <1>43, <1>44, <1>45, <1>46, <1>47, <1>48, <1>49, <1>50, <1>51 DEF Next,
     Client, Configuration, Commands

-----------------------------------------------------------------------------
\* CurrentInv and CommandInv are invariants.

LEMMA TargetsAreFolders ==
  ASSUME DataTypes, ControlInv,
         op \in SelectingOperations \cup {"folderInfo"}
  PROVE  /\ Target \in Folders
         /\ op \in FolderOperations => Target = folder
<1>1. InboxOperations \cap (FolderOperations \cup {"folderInfo"}) = {}
  BY DEF InboxOperations, FolderOperations, ChunkedOperations
<1> QED
  BY <1>1, SessionAssumption DEF Target, SelectingOperations, ControlInv

LEMMA CurrentStep ==
  ASSUME DataTypes, ControlInv, CurrentInv, Next
  PROVE  CurrentInv'
<1> USE DEF CurrentInv, session
<1>1. CASE StayConnected
  BY <1>1 DEF StayConnected
<1>2. CASE Connect
  BY <1>2 DEF Connect, ConnectFails, ConnectSucceeds, Unsetup
<1>3. CASE ConnectCapability
  BY <1>3 DEF ConnectCapability, Unsetup
<1>4. CASE Propagate
  BY <1>4 DEF Propagate
<1>5. CASE Capability
  BY <1>5 DEF Capability, AskServer
<1>6. CASE Identity
  BY <1>6 DEF Identity, AskServer
<1>7. CASE FetchNamespace
  BY <1>7 DEF FetchNamespace, AskServer
<1>8. CASE LoginIfNeeded
  BY <1>8 DEF LoginIfNeeded
<1>9. CASE Login
  BY <1>9 DEF Login, LoginSucceeds, LoginFails
<1>10. CASE LoginCapability
  BY <1>10 DEF LoginCapability
<1>11. CASE EnableCompression
  BY <1>11 DEF EnableCompression
<1>12. CASE EnableFeature
  BY <1>12 DEF EnableFeature
<1>13. CASE LoginNamespace
  BY <1>13 DEF LoginNamespace
<1>14. CASE LoginList
  BY <1>14 DEF LoginList
<1>15. CASE LoginDone
  BY <1>15 DEF LoginDone
<1>16. CASE SelectIfNeeded
  BY <1>16 DEF SelectIfNeeded
<1>17. CASE Select
  BY <1>17, TargetsAreFolders DEF Select, SelectFails, ControlInv
<1>18. CASE Refuse
  BY <1>18 DEF Refuse
<1>19. CASE CustomCommand
  BY <1>19 DEF CustomCommand
<1>20. CASE GetQuota
  BY <1>20 DEF GetQuota, OneCommand
<1>21. CASE RenameFolder
  BY <1>21 DEF RenameFolder, OneCommand
<1>22. CASE DeleteFolder
  BY <1>22 DEF DeleteFolder, OneCommand
<1>23. CASE SubscribeFolder
  BY <1>23 DEF SubscribeFolder, OneCommand
<1>24. CASE UnsubscribeFolder
  BY <1>24 DEF UnsubscribeFolder, OneCommand
<1>25. CASE AppendMessage
  BY <1>25 DEF AppendMessage, OneCommand
<1>26. CASE Expunge
  BY <1>26 DEF Expunge, OneCommand
<1>27. CASE Search
  BY <1>27 DEF Search, OneCommand
<1>28. CASE FetchMessage
  BY <1>28 DEF FetchMessage, OneCommand
<1>29. CASE FetchAttachment
  BY <1>29 DEF FetchAttachment, OneCommand
<1>30. CASE FetchMessageNumberUIDMapping
  BY <1>30 DEF FetchMessageNumberUIDMapping, OneCommand
<1>31. CASE CreateFolder
  BY <1>31 DEF CreateFolder
<1>32. CASE CopyMessages
  BY <1>32 DEF CopyMessages, Chunked
<1>33. CASE MoveMessages
  BY <1>33 DEF MoveMessages, Chunked
<1>34. CASE StoreFlags
  BY <1>34 DEF StoreFlags, Chunked
<1>35. CASE StoreLabels
  BY <1>35 DEF StoreLabels, Chunked
<1>36. CASE FetchMessages
  BY <1>36 DEF FetchMessages
<1>37. CASE FetchToFile
  BY <1>37 DEF FetchToFile
<1>38. CASE FetchToFileByChunks
  BY <1>38 DEF FetchToFileByChunks
<1>39. CASE FolderStatus
  BY <1>39 DEF FolderStatus, OneCommand
<1>40. CASE FolderInfo
  BY <1>40 DEF FolderInfo
<1>41. CASE Noop
  BY <1>41 DEF Noop
<1>42. CASE CapabilityOperation
  BY <1>42 DEF CapabilityOperation
<1>43. CASE FetchDelimiter
  BY <1>43 DEF FetchDelimiter
<1>44. CASE FetchSubscribedFolders
  BY <1>44 DEF FetchSubscribedFolders
<1>45. CASE FetchAllFolders
  BY <1>45 DEF FetchAllFolders
<1>46. CASE Answer
  BY <1>46 DEF Answer
<1>47. CASE Crash
  BY <1>47 DEF Crash
<1>48. CASE StoredCapabilities
  BY <1>48 DEF StoredCapabilities
<1>49. CASE Disconnect
  BY <1>49 DEF Disconnect, Unsetup
<1>50. ASSUME NEW o \in Operations, NEW m \in 0..MaxChunks + 2, NEW f,
             Begin(o, f, m)
      PROVE  CurrentInv'
  BY <1>50 DEF Begin
<1>51. CASE AppendUnreadable
  BY <1>51 DEF AppendUnreadable
<1> QED
  BY <1>1, <1>2, <1>3, <1>4, <1>5, <1>6, <1>7, <1>8, <1>9, <1>10, <1>11,
     <1>12, <1>13, <1>14, <1>15, <1>16, <1>17, <1>18, <1>19, <1>20, <1>21,
     <1>22, <1>23, <1>24, <1>25, <1>26, <1>27, <1>28, <1>29, <1>30, <1>31,
     <1>32, <1>33, <1>34, <1>35, <1>36, <1>37, <1>38, <1>39, <1>40, <1>41,
     <1>42, <1>43, <1>44, <1>45, <1>46, <1>47, <1>48, <1>49, <1>50, <1>51 DEF Next,
     Client, Configuration, Commands

\* A step that does not arrive at an operation's command.
LEMMA ElsewhereStep ==
  ASSUME NEW l, NEW s, Goto(l, s), l # "command"
  PROVE  CommandInv'
BY DEF CommandInv, Goto

\* Returning never leads to the command of a folder operation.
LEMMA ReturnCommand ==
  ASSUME ControlInv, pc \in Nested, Return, UNCHANGED op
  PROVE  CommandInv'
BY ReturnStep DEF CommandInv, ControlInv, SelectingOperations

LEMMA CommandStep ==
  ASSUME FoldsApart, DataTypes, ControlInv, CurrentInv, CommandInv, Next
  PROVE  CommandInv'
<1> USE DEF call
<1>a. {"connectIfNeeded", "connectCapability", "capability", "loginIfNeeded",
       "login", "loginCapability", "enableFeatures", "enableQResync",
       "fetchNamespace", "loginNamespace", "loginList", "identity",
       "loginDone"} = Nested
  BY DEF Nested, Suspended
<1>1. CASE StayConnected
  BY <1>1, <1>a, ReturnCommand, ElsewhereStep DEF StayConnected
<1>2. CASE Connect
  BY <1>2, <1>a, ReturnCommand, ElsewhereStep DEF Connect, ConnectFails,
     ConnectSucceeds
<1>3. CASE ConnectCapability
  BY <1>3, <1>a, ReturnCommand, ElsewhereStep DEF ConnectCapability
<1>4. CASE Propagate
  BY <1>4, <1>a, ReturnCommand, ElsewhereStep DEF Propagate
<1>5. CASE Capability
  BY <1>5, <1>a, ReturnCommand, ElsewhereStep DEF Capability, AskServer
<1>6. CASE Identity
  BY <1>6, <1>a, ReturnCommand, ElsewhereStep DEF Identity, AskServer
<1>7. CASE FetchNamespace
  BY <1>7, <1>a, ReturnCommand, ElsewhereStep DEF FetchNamespace, AskServer
<1>8. CASE LoginIfNeeded
  BY <1>8, <1>a, ReturnCommand, ElsewhereStep DEF LoginIfNeeded
<1>9. CASE Login
  BY <1>9, <1>a, ReturnCommand, ElsewhereStep DEF Login, LoginSucceeds
<1>10. CASE LoginCapability
  BY <1>10, <1>a, ReturnCommand, ElsewhereStep DEF LoginCapability
<1>11. CASE EnableCompression
  BY <1>11, <1>a, ReturnCommand, ElsewhereStep DEF EnableCompression
<1>12. CASE EnableFeature
  BY <1>12, <1>a, ReturnCommand, ElsewhereStep DEF EnableFeature
<1>13. CASE LoginNamespace
  BY <1>13, <1>a, ReturnCommand, ElsewhereStep DEF LoginNamespace,
     GotoIdentity
<1>14. CASE LoginList
  BY <1>14, <1>a, ReturnCommand, ElsewhereStep DEF LoginList, GotoIdentity
<1>15. CASE LoginDone
  BY <1>15, <1>a, ReturnCommand, ElsewhereStep DEF LoginDone
<1>16. CASE SelectIfNeeded
  <2>1. UNCHANGED <<mCurrentFolder, folder, op, mState>>
    BY <1>16 DEF SelectIfNeeded, session
  <2>2. CASE pc' = "command" /\ mState = "SELECTED" /\ op \in FolderOperations
    <3>1. Fold[mCurrentFolder] = Fold[Target]
      BY <1>16, <2>2 DEF SelectIfNeeded, Goto
    <3>2. Target = folder /\ Target \in Folders
      BY <2>2, TargetsAreFolders DEF SelectingOperations
    <3>3. mCurrentFolder = folder
      BY <2>2, <3>1, <3>2 DEF FoldsApart, CurrentInv
    <3> QED
      BY <2>1, <3>3 DEF CommandInv
  <2> QED
    BY <2>1, <2>2 DEF CommandInv
<1>17. CASE Select
  <2>1. op \in FolderOperations => Target = folder
    BY <1>17, TargetsAreFolders DEF Select, ControlInv
  <2> QED
    BY <1>17, <2>1 DEF Select, SelectFails, CommandInv, Goto, ErrorOf, Failures
<1>18. CASE Refuse
  BY <1>18, <1>a, ReturnCommand, ElsewhereStep DEF Refuse, Again
<1>19. CASE CustomCommand
  BY <1>19, <1>a, ReturnCommand, ElsewhereStep DEF CustomCommand
<1>20. CASE GetQuota
  BY <1>20, <1>a, ReturnCommand, ElsewhereStep DEF GetQuota, OneCommand
<1>21. CASE RenameFolder
  BY <1>21, <1>a, ReturnCommand, ElsewhereStep DEF RenameFolder, OneCommand
<1>22. CASE DeleteFolder
  BY <1>22, <1>a, ReturnCommand, ElsewhereStep DEF DeleteFolder, OneCommand
<1>23. CASE SubscribeFolder
  BY <1>23, <1>a, ReturnCommand, ElsewhereStep DEF SubscribeFolder,
     OneCommand
<1>24. CASE UnsubscribeFolder
  BY <1>24, <1>a, ReturnCommand, ElsewhereStep DEF UnsubscribeFolder,
     OneCommand
<1>25. CASE AppendMessage
  BY <1>25, <1>a, ReturnCommand, ElsewhereStep DEF AppendMessage, OneCommand
<1>26. CASE Expunge
  BY <1>26, <1>a, ReturnCommand, ElsewhereStep DEF Expunge, OneCommand
<1>27. CASE Search
  BY <1>27, <1>a, ReturnCommand, ElsewhereStep DEF Search, OneCommand
<1>28. CASE FetchMessage
  BY <1>28, <1>a, ReturnCommand, ElsewhereStep DEF FetchMessage, OneCommand
<1>29. CASE FetchAttachment
  BY <1>29, <1>a, ReturnCommand, ElsewhereStep DEF FetchAttachment,
     OneCommand
<1>30. CASE FetchMessageNumberUIDMapping
  BY <1>30, <1>a, ReturnCommand, ElsewhereStep DEF
     FetchMessageNumberUIDMapping, OneCommand
<1>31. CASE CreateFolder
  BY <1>31, <1>a, ReturnCommand, ElsewhereStep DEF CreateFolder
<1>32. CASE CopyMessages
  BY <1>32 DEF CopyMessages, Chunked, CommandInv, Goto, Runs, ErrorOf, Send,
     session
<1>33. CASE MoveMessages
  BY <1>33 DEF MoveMessages, Chunked, CommandInv, Goto, Runs, ErrorOf, Send,
     session
<1>34. CASE StoreFlags
  BY <1>34 DEF StoreFlags, Chunked, CommandInv, Goto, Runs, ErrorOf, Send,
     session
<1>35. CASE StoreLabels
  BY <1>35 DEF StoreLabels, Chunked, CommandInv, Goto, Runs, ErrorOf, Send,
     session
<1>36. CASE FetchMessages
  BY <1>36, <1>a, ReturnCommand, ElsewhereStep DEF FetchMessages
<1>37. CASE FetchToFile
  BY <1>37, <1>a, ReturnCommand, ElsewhereStep DEF FetchToFile
<1>38. CASE FetchToFileByChunks
  BY <1>38 DEF FetchToFileByChunks, CommandInv, Goto, Runs, ErrorOf, Send,
     session
<1>39. CASE FolderStatus
  BY <1>39, <1>a, ReturnCommand, ElsewhereStep DEF FolderStatus, OneCommand
<1>40. CASE FolderInfo
  BY <1>40, <1>a, ReturnCommand, ElsewhereStep DEF FolderInfo
<1>41. CASE Noop
  BY <1>41, <1>a, ReturnCommand, ElsewhereStep DEF Noop
<1>42. CASE CapabilityOperation
  BY <1>42, <1>a, ReturnCommand, ElsewhereStep DEF CapabilityOperation
<1>43. CASE FetchDelimiter
  BY <1>43, <1>a, ReturnCommand, ElsewhereStep DEF FetchDelimiter
<1>44. CASE FetchSubscribedFolders
  BY <1>44, <1>a, ReturnCommand, ElsewhereStep DEF FetchSubscribedFolders
<1>45. CASE FetchAllFolders
  BY <1>45 DEF FetchAllFolders, CommandInv, Goto
<1>46. CASE Answer
  BY <1>46, <1>a, ReturnCommand, ElsewhereStep DEF Answer
<1>47. CASE Crash
  BY <1>47, <1>a, ReturnCommand, ElsewhereStep DEF Crash
<1>48. CASE StoredCapabilities
  BY <1>48, <1>a, ReturnCommand, ElsewhereStep DEF StoredCapabilities
<1>49. CASE Disconnect
  BY <1>49, <1>a, ReturnCommand, ElsewhereStep DEF Disconnect
<1>50. ASSUME NEW o \in Operations, NEW m \in 0..MaxChunks + 2, NEW f,
             Begin(o, f, m)
      PROVE  CommandInv'
  BY <1>50, ElsewhereStep DEF Begin
<1>51. CASE AppendUnreadable
  BY <1>51, ElsewhereStep DEF AppendUnreadable
<1> QED
  BY <1>1, <1>2, <1>3, <1>4, <1>5, <1>6, <1>7, <1>8, <1>9, <1>10, <1>11,
     <1>12, <1>13, <1>14, <1>15, <1>16, <1>17, <1>18, <1>19, <1>20, <1>21,
     <1>22, <1>23, <1>24, <1>25, <1>26, <1>27, <1>28, <1>29, <1>30, <1>31,
     <1>32, <1>33, <1>34, <1>35, <1>36, <1>37, <1>38, <1>39, <1>40, <1>41,
     <1>42, <1>43, <1>44, <1>45, <1>46, <1>47, <1>48, <1>49, <1>50, <1>51 DEF Next,
     Client, Configuration, Commands

-----------------------------------------------------------------------------
\* The theorems.

LEMMA InitInv == Init => IInv
<1> SUFFICES ASSUME Init PROVE IInv
  OBVIOUS
<1> USE SessionAssumption DEF Init
<1>1. FlagTypes
  BY DEF FlagTypes
<1>2. ValueTypes
  BY DEF ValueTypes, States, Errors
<1>3. ControlInv
  BY LabelsOfStacks
  DEF ControlInv, StackInv, Labels, Nested, Suspended, AllOperations,
      LoginOperations
<1>4. StateMatchesServer /\ CurrentInv /\ CommandInv
  BY DEF StateMatchesServer, CurrentInv, CommandInv
<1> QED
  BY <1>1, <1>2, <1>3, <1>4 DEF IInv, TypeInv, DataTypes

LEMMA StutterInv ==
  ASSUME IInv, UNCHANGED vars
  PROVE  IInv'
BY DEF IInv, TypeInv, DataTypes, FlagTypes, ValueTypes, ControlInv, StackInv,
   StateMatchesServer, CurrentInv, CommandInv, vars, config, session, settings,
   call, loop, server, link, history

LEMMA CallStacksAreSequences ==
  ASSUME ControlInv
  PROVE  stack \in Seq(Labels)
<1>1. <<>> \in Seq(Labels)
  OBVIOUS
<1>2. CASE pc \in Nested
  <2>1. stack \in Seq(Suspended \cup Outermost(op))
    BY <1>2 DEF ControlInv, StackInv, CallStack
  <2> DEFINE S == Suspended \cup Outermost(op)
  <2>2. S \subseteq Labels
    BY LabelsOfStacks
  <2> HIDE DEF S
  <2> QED
    BY <2>1, <2>2 DEF S
<1> QED
  BY <1>1, <1>2 DEF ControlInv, StackInv

\* The session and the server agree on what is logged in and selected, at
\* every step of every method, for any folders, operations and servers, any
\* number of chunks, retries and failures (mState, mCurrentFolder).
THEOREM SessionAndServerAgree == Spec => []StateMatchesServer
<1> DEFINE Inv == TypeInv /\ StateMatchesServer
<1>1. Init => Inv
  BY InitInv DEF IInv
<1>2. Inv /\ [Next]_vars => Inv'
  <2>1. CASE Next
    BY <2>1, DataStep, ControlStep, ServerStep DEF TypeInv
  <2>2. CASE UNCHANGED vars
    BY <2>2 DEF TypeInv, DataTypes, FlagTypes, ValueTypes, ControlInv,
       StackInv,
       StateMatchesServer, vars, config, session, settings, call, loop, server,
       link, history
  <2> QED
    BY <2>1, <2>2
<1>3. Inv => StateMatchesServer
  OBVIOUS
<1> QED
  BY <1>1, <1>2, <1>3, PTL DEF Spec

\* Every variable keeps its type: retries are counted up to maxRetries, no
\* loop counts below zero, and the call stack holds labels only.
THEOREM SessionTypes == Spec => []TypeOK
<1>1. Init => TypeInv
  BY InitInv DEF IInv
<1>2. TypeInv /\ [Next]_vars => TypeInv'
  <2>1. CASE Next
    BY <2>1, DataStep, ControlStep DEF TypeInv
  <2>2. CASE UNCHANGED vars
    BY <2>2 DEF TypeInv, DataTypes, FlagTypes, ValueTypes, ControlInv,
       StackInv,
       vars, config, session, settings, call, loop, server, link, history
  <2> QED
    BY <2>1, <2>2
<1>3. TypeInv => TypeOK
  BY CallStacksAreSequences
  DEF TypeInv, TypeOK, DataTypes, FlagTypes, ValueTypes, ControlInv
<1> QED
  BY <1>1, <1>2, <1>3, PTL DEF Spec

\* When no two folders differ in case only, the commands of an operation on a
\* folder are executed in that folder or not at all (selectIfNeeded).
THEOREM CommandsReachTheirFolder ==
  ASSUME FoldsApart
  PROVE  Spec => []CommandsHitTheirFolder
<1>1. Init => IInv
  BY InitInv
<1>2. IInv /\ [Next]_vars => IInv'
  <2>1. CASE Next
    BY <2>1, DataStep, ControlStep, ServerStep, CurrentStep, CommandStep
    DEF IInv, TypeInv
  <2>2. CASE UNCHANGED vars
    BY <2>2, StutterInv
  <2> QED
    BY <2>1, <2>2
<1>3. IInv => CommandsHitTheirFolder
  BY DEF IInv, StateMatchesServer, CommandInv, CommandsHitTheirFolder
<1> QED
  BY <1>1, <1>2, <1>3, PTL DEF Spec
-----------------------------------------------------------------------------
\* A failed connection is marked.

\* The connection failed, or has the rest of an answer in it.
Bad == stream \in {"broken", "stale"}

\* It is marked, unless login() or noop() passed over the failure; the
\* function that saw it fail, and those that called it, go on with the error.
FaultInv ==
  /\ Bad => mShouldDisconnect \/ forgotten
  /\ Bad /\ ~forgotten => \/ pc \in {"idle", "connectIfNeeded", "answer", "crashed"}
                          \/ pError # "ErrorNone"
  /\ pc \in {"select", "list"} => pError = "ErrorNone"

LEMMA FaultStep ==
  ASSUME ControlInv, FaultInv, Next
  PROVE  FaultInv'
<1> USE DEF Reply, Mark, ErrorOf, Ignored, Replies, Failures, Goto, Return, Bad,
            link, history, call
<1>a. pc \in Nested /\ Return /\ UNCHANGED op => pc' \notin {"select", "list"}
  BY ReturnStep DEF ControlInv
<1>b. {"connectIfNeeded", "connectCapability", "capability", "loginIfNeeded",
       "login", "loginCapability", "enableFeatures", "enableQResync",
       "fetchNamespace", "loginNamespace", "loginList", "identity",
       "loginDone"} = Nested
  BY DEF Nested, Suspended
<1>1. CASE StayConnected
  BY <1>1, <1>a, <1>b DEF StayConnected, FaultInv
<1>2. CASE Propagate
  BY <1>2, <1>a, <1>b DEF Propagate, FaultInv
<1>3. CASE Capability
  BY <1>3, <1>a, <1>b DEF Capability, AskServer, FaultInv
<1>4. CASE Identity
  BY <1>4, <1>a, <1>b DEF Identity, AskServer, FaultInv
<1>5. CASE FetchNamespace
  BY <1>5, <1>a, <1>b DEF FetchNamespace, AskServer, FaultInv
<1>6. CASE LoginIfNeeded
  BY <1>6, <1>a, <1>b DEF LoginIfNeeded, FaultInv
<1>7. CASE LoginCapability
  BY <1>7 DEF LoginCapability, FaultInv
<1>8. CASE EnableCompression
  BY <1>8 DEF EnableCompression, FaultInv
<1>9. CASE EnableFeature
  <2>1. /\ pc' \notin {"select", "list"}
        /\ UNCHANGED <<mShouldDisconnect, pError>>
        /\ pc = "enableQResync"
    BY <1>9 DEF EnableFeature
  <2>2. \/ UNCHANGED <<stream, forgotten>>
        \/ \E r \in Replies : Reply(r, srvAuth) /\ Ignored(r)
    BY <1>9 DEF EnableFeature
  <2>3. CASE UNCHANGED <<stream, forgotten>>
    BY <2>1, <2>3 DEF FaultInv
  <2>4. CASE \E r \in Replies : Reply(r, srvAuth) /\ Ignored(r)
    BY <2>1, <2>4 DEF FaultInv
  <2> QED
    BY <2>2, <2>3, <2>4
<1>10. CASE LoginNamespace
  BY <1>10 DEF LoginNamespace, FaultInv
<1>11. CASE LoginList
  BY <1>11, <1>a, <1>b DEF LoginList, GotoIdentity, FaultInv
<1>12. CASE LoginDone
  BY <1>12, <1>a, <1>b DEF LoginDone, FaultInv
<1>13. CASE SelectIfNeeded
  BY <1>13 DEF SelectIfNeeded, FaultInv
<1>14. CASE Refuse
  BY <1>14 DEF Refuse, Again, FaultInv
<1>15. CASE CustomCommand
  BY <1>15 DEF CustomCommand, Send, FaultInv
<1>16. CASE GetQuota
  BY <1>16 DEF GetQuota, OneCommand, Send, FaultInv
<1>17. CASE RenameFolder
  BY <1>17 DEF RenameFolder, OneCommand, Send, FaultInv
<1>18. CASE DeleteFolder
  BY <1>18 DEF DeleteFolder, OneCommand, Send, FaultInv
<1>19. CASE SubscribeFolder
  BY <1>19 DEF SubscribeFolder, OneCommand, Send, FaultInv
<1>20. CASE UnsubscribeFolder
  BY <1>20 DEF UnsubscribeFolder, OneCommand, Send, FaultInv
<1>21. CASE AppendMessage
  BY <1>21 DEF AppendMessage, OneCommand, Send, FaultInv
<1>22. CASE Expunge
  BY <1>22 DEF Expunge, OneCommand, Send, FaultInv
<1>23. CASE Search
  BY <1>23 DEF Search, OneCommand, Send, FaultInv
<1>24. CASE FetchMessage
  BY <1>24 DEF FetchMessage, OneCommand, Send, FaultInv
<1>25. CASE FetchAttachment
  BY <1>25 DEF FetchAttachment, OneCommand, Send, FaultInv
<1>26. CASE FetchMessageNumberUIDMapping
  BY <1>26 DEF FetchMessageNumberUIDMapping, OneCommand, Send, FaultInv
<1>27. CASE CreateFolder
  BY <1>27 DEF CreateFolder, Runs, Send, FaultInv
<1>28. CASE CopyMessages
  BY <1>28 DEF CopyMessages, Runs, Chunked, Send, FaultInv
<1>29. CASE MoveMessages
  BY <1>29 DEF MoveMessages, Runs, Chunked, Send, FaultInv
<1>30. CASE StoreFlags
  BY <1>30 DEF StoreFlags, Runs, Chunked, Send, FaultInv
<1>31. CASE StoreLabels
  BY <1>31 DEF StoreLabels, Runs, Chunked, Send, FaultInv
<1>32. CASE FetchMessages
  BY <1>32 DEF FetchMessages, Runs, Send, FaultInv
<1>33. CASE FetchToFile
  BY <1>33 DEF FetchToFile, Runs, Send, FaultInv
<1>34. CASE FetchToFileByChunks
  BY <1>34 DEF FetchToFileByChunks, Runs, Send, FaultInv
<1>35. CASE FolderStatus
  BY <1>35 DEF FolderStatus, OneCommand, Send, FaultInv
<1>36. CASE FolderInfo
  BY <1>36 DEF FolderInfo, Runs, FaultInv
<1>37. CASE Noop
  BY <1>37 DEF Noop, Runs, FaultInv
<1>38. CASE CapabilityOperation
  BY <1>38 DEF CapabilityOperation, Runs, FaultInv
<1>39. CASE FetchDelimiter
  BY <1>39 DEF FetchDelimiter, FaultInv
<1>40. CASE FetchSubscribedFolders
  BY <1>40 DEF FetchSubscribedFolders, Send, FaultInv
<1>41. CASE FetchAllFolders
  BY <1>41 DEF FetchAllFolders, Send, FaultInv
<1>42. CASE Answer
  BY <1>42 DEF Answer, FaultInv
<1>43. CASE Crash
  BY <1>43 DEF Crash, FaultInv
<1>44. CASE StoredCapabilities
  BY <1>44 DEF StoredCapabilities, FaultInv
<1>45. CASE Connect
  BY <1>45, <1>a, <1>b DEF Connect, ConnectFails, ConnectSucceeds, Unsetup, FaultInv
<1>46. CASE ConnectCapability
  BY <1>46, <1>a, <1>b DEF ConnectCapability, Unsetup, FaultInv
<1>47. CASE Login
  BY <1>47, <1>a, <1>b DEF Login, LoginFails, LoginSucceeds, FaultInv
<1>48. CASE Select
  BY <1>48 DEF Select, SelectFails, FaultInv
<1>49. CASE Disconnect
  BY <1>49 DEF Disconnect, Unsetup, FaultInv
<1>50. ASSUME NEW o \in Operations, NEW m \in 0..MaxChunks + 2, NEW f,
             Begin(o, f, m)
      PROVE  FaultInv'
  BY <1>50 DEF Begin, FaultInv
<1>51. CASE AppendUnreadable
  BY <1>51 DEF AppendUnreadable, FaultInv
<1> QED
  BY <1>1, <1>2, <1>3, <1>4, <1>5, <1>6, <1>7, <1>8, <1>9, <1>10, <1>11,
     <1>12, <1>13, <1>14, <1>15, <1>16, <1>17, <1>18, <1>19, <1>20, <1>21,
     <1>22, <1>23, <1>24, <1>25, <1>26, <1>27, <1>28, <1>29, <1>30, <1>31,
     <1>32, <1>33, <1>34, <1>35, <1>36, <1>37, <1>38, <1>39, <1>40, <1>41,
     <1>42, <1>43, <1>44, <1>45, <1>46, <1>47, <1>48, <1>49, <1>50, <1>51 DEF Next,
     Client, Configuration, Commands

\* A connection that failed is not used for an operation's command: it is
\* replaced first, whatever the operations, servers and retries, except after
\* the failures that login() and noop() pass over (mShouldDisconnect).
THEOREM FailuresAreReplaced == Spec => []FailedConnectionIsReplaced
<1> DEFINE Inv == TypeInv /\ FaultInv
<1>1. Init => Inv
  <2>1. Init => FaultInv
    BY DEF Init, FaultInv, Bad
  <2> QED
    BY <2>1, InitInv DEF IInv
<1>2. Inv /\ [Next]_vars => Inv'
  <2>1. CASE Next
    BY <2>1, DataStep, ControlStep, FaultStep DEF TypeInv
  <2>2. CASE UNCHANGED vars
    BY <2>2 DEF TypeInv, DataTypes, FlagTypes, ValueTypes, ControlInv,
       StackInv, FaultInv, Bad, vars, config, session, settings, call, loop,
       server, link, history
  <2> QED
    BY <2>1, <2>2
<1>3. Inv => FailedConnectionIsReplaced
  BY DEF TypeInv, DataTypes, ValueTypes, FaultInv, Bad,
     FailedConnectionIsReplaced
<1> QED
  BY <1>1, <1>2, <1>3, PTL DEF Spec
-----------------------------------------------------------------------------
\* Success means done.

\* Operations whose loop counts what is left to do.
Counted == ChunkedOperations \cup
  {"createFolder", "fetchAllFolders", "fetchToFileByChunks"}

Remaining == IF op \in Counted THEN left ELSE 1

\* What is still to be executed is what the code has still to send.
DoneInv ==
  /\ mImap => stream # "closed"
  /\ op \in OtherOperations => todo = 0
  /\ ~tainted /\ op \notin OtherOperations \cup {"fetchMessages"}
       /\ pc \notin {"idle", "answer", "crashed"} => todo = Remaining
  /\ op = "createFolder" /\ pc \notin {"idle", "answer", "crashed"} =>
       left \in {1, 2}
  /\ SuccessMeansDone

\* The server executes what is answered with OK, unless the stream is stale.
LEMMA SentOne ==
  ASSUME DataTypes, mImap => stream # "closed", NEW r \in Replies, NEW l,
         Reply(r, l), Executed(r)
  PROVE  /\ mImap /\ stream' # "closed"
         /\ ~tainted' => ~tainted
         /\ r # "ok" => todo' = todo
         /\ r = "ok" /\ ~tainted' => todo' = todo - 1
<1>1. /\ mImap
      /\ stream \in {"ok", "broken", "stale"}
      /\ stream = "broken" => r = "stream"
      /\ stream' \in {"broken", "stale", stream}
  BY DEF DataTypes, ValueTypes, Reply
<1>2. tainted' <=> tainted \/ (r = "ok" /\ stream = "stale")
  BY Zenon DEF Executed
<1>3. todo' = todo - N(r = "ok" /\ stream = "ok") /\ todo \in Int
  BY DEF Executed, DataTypes, ValueTypes
<1> QED
  BY <1>1, <1>2, <1>3 DEF N

LEMMA SentDone ==
  ASSUME DataTypes, DoneInv, NEW o, o \notin OtherOperations \cup Counted,
         NEW e, e # "ErrorNone", NEW l, NEW r \in Replies, Send(r, e, l),
         Runs(o), pc' = "answer", UNCHANGED <<op, mImap>>
  PROVE  DoneInv'
<1>1. Send(r, e, l)
  OBVIOUS
<1>2. /\ pc = "command" /\ op = o /\ op' = op
      /\ pc' = "answer" /\ mImap' = mImap
  BY DEF Runs
<1>3. /\ mImap /\ stream' # "closed"
      /\ ~tainted' => ~tainted
      /\ r = "ok" /\ ~tainted' => todo' = todo - 1
  BY <1>1, SentOne DEF Send, DoneInv
<1>4. pError' = "ErrorNone" => r = "ok"
  BY <1>1 DEF Send, ErrorOf, Replies
<1>5. ~tainted /\ op # "fetchMessages" => todo = 1
  BY <1>2 DEF DoneInv, Remaining
<1> QED
  BY <1>2, <1>3, <1>4, <1>5 DEF DoneInv, SuccessMeansDone

LEMMA OneCommandDone ==
  ASSUME DataTypes, DoneInv, NEW o, o \notin OtherOperations \cup Counted,
         NEW e, e # "ErrorNone", NEW l, OneCommand(o, e, l)
  PROVE  DoneInv'
<1>1. PICK r \in Replies : Send(r, e, l)
  BY DEF OneCommand
<1>2. Runs(o) /\ pc' = "answer" /\ UNCHANGED <<op, mImap>>
  BY DEF OneCommand, Goto, call, session
<1> QED
  BY <1>1, <1>2, SentDone

LEMMA DoneStep ==
  ASSUME DataTypes, ControlInv, DoneInv, Next
  PROVE  DoneInv'
<1> USE DEF Reply, ErrorOf, Replies, Failures, Goto, Return, N, link, history,
            call, loop, session, DataTypes, ValueTypes, FlagTypes, Counted, Remaining,
            SuccessMeansDone, ChunkedOperations, OtherOperations
<1>a. pc \in Nested /\ Return /\ UNCHANGED op =>
        /\ pc' \notin {"idle", "crashed"}
        /\ pc' = "answer" => op \in OtherOperations
  BY ReturnStep DEF ControlInv
<1>b. {"connectIfNeeded", "connectCapability", "capability", "loginIfNeeded",
       "login", "loginCapability", "enableFeatures", "enableQResync",
       "fetchNamespace", "loginNamespace", "loginList", "identity",
       "loginDone"} = Nested
  BY DEF Nested, Suspended
<1>1. CASE StayConnected
  BY <1>1, <1>a, <1>b DEF StayConnected, DoneInv
<1>2. CASE Propagate
  BY <1>2, <1>a, <1>b DEF Propagate, DoneInv
<1>3. CASE Capability
  BY <1>3, <1>a, <1>b DEF Capability, AskServer, DoneInv
<1>4. CASE Identity
  BY <1>4, <1>a, <1>b DEF Identity, AskServer, DoneInv
<1>5. CASE FetchNamespace
  BY <1>5, <1>a, <1>b DEF FetchNamespace, AskServer, DoneInv
<1>6. CASE LoginIfNeeded
  BY <1>6, <1>a, <1>b DEF LoginIfNeeded, DoneInv
<1>7. CASE LoginCapability
  BY <1>7 DEF LoginCapability, DoneInv
<1>8. CASE EnableCompression
  BY <1>8 DEF EnableCompression, DoneInv
<1>9. CASE EnableFeature
  BY <1>9 DEF EnableFeature, DoneInv
<1>10. CASE LoginNamespace
  BY <1>10 DEF LoginNamespace, GotoIdentity, DoneInv
<1>11. CASE LoginList
  BY <1>11, <1>a, <1>b DEF LoginList, GotoIdentity, DoneInv
<1>12. CASE LoginDone
  BY <1>12, <1>a, <1>b DEF LoginDone, DoneInv
<1>13. CASE SelectIfNeeded
  BY <1>13 DEF SelectIfNeeded, DoneInv
<1>14. CASE Refuse
  BY <1>14 DEF Refuse, Again, SecondFetch, DoneInv
<1>15. CASE CustomCommand
  <2>1. PICK r \in Replies : Send(r, "ErrorCustomCommand", srvAuth)
    BY <1>15 DEF CustomCommand
  <2>2. Runs("customCommand") /\ pc' = "answer" /\ UNCHANGED <<op, mImap>>
    BY <1>15 DEF CustomCommand
  <2> QED
    BY <2>1, <2>2, SentDone
<1>16. CASE GetQuota
  BY <1>16, OneCommandDone DEF GetQuota
<1>17. CASE RenameFolder
  BY <1>17, OneCommandDone DEF RenameFolder
<1>18. CASE DeleteFolder
  BY <1>18, OneCommandDone DEF DeleteFolder
<1>19. CASE SubscribeFolder
  BY <1>19, OneCommandDone DEF SubscribeFolder
<1>20. CASE UnsubscribeFolder
  BY <1>20, OneCommandDone DEF UnsubscribeFolder
<1>21. CASE AppendMessage
  BY <1>21, OneCommandDone DEF AppendMessage
<1>22. CASE Expunge
  BY <1>22, OneCommandDone DEF Expunge
<1>23. CASE Search
  BY <1>23, OneCommandDone DEF Search
<1>24. CASE FetchMessage
  BY <1>24, OneCommandDone DEF FetchMessage
<1>25. CASE FetchAttachment
  BY <1>25, OneCommandDone DEF FetchAttachment
<1>26. CASE FetchMessageNumberUIDMapping
  BY <1>26, OneCommandDone DEF FetchMessageNumberUIDMapping
<1>27. CASE CreateFolder
  <2>1. PICK r \in Replies :
          /\ Send(r, IF left = 2 THEN "ErrorCreate" ELSE "ErrorSubscribe", srvAuth)
          /\ IF r = "ok" /\ left = 2
             THEN left' = 1 /\ pc' = "connectIfNeeded"
             ELSE pc' = "answer" /\ left' = left
    BY <1>27 DEF CreateFolder
  <2>2. /\ pc = "command" /\ op = "createFolder"
        /\ op' = op /\ mImap' = mImap
    BY <1>27 DEF CreateFolder, Runs
  <2>3. /\ mImap /\ stream' # "closed"
        /\ ~tainted' => ~tainted
        /\ r = "ok" /\ ~tainted' => todo' = todo - 1
    BY <2>1, SentOne DEF Send, DoneInv
  <2>4. pError' = "ErrorNone" => r = "ok"
    BY <2>1 DEF Send
  <2>5. left \in {1, 2} /\ (~tainted => todo = left)
    BY <2>2 DEF DoneInv
  <2>7. CASE r = "ok" /\ left = 2
    BY <2>1, <2>2, <2>3, <2>5, <2>7 DEF DoneInv
  <2>8. CASE ~(r = "ok" /\ left = 2)
    BY <2>1, <2>2, <2>3, <2>4, <2>5, <2>8 DEF DoneInv
  <2> QED
    BY <2>7, <2>8
<1>28. CASE CopyMessages
  BY <1>28 DEF CopyMessages, Runs, Chunked, Send, Executed, DoneInv
<1>29. CASE MoveMessages
  BY <1>29 DEF MoveMessages, Runs, Chunked, Send, Executed, DoneInv
<1>30. CASE StoreFlags
  BY <1>30 DEF StoreFlags, Runs, Chunked, Send, Executed, DoneInv
<1>31. CASE StoreLabels
  BY <1>31 DEF StoreLabels, Runs, Chunked, Send, Executed, DoneInv
<1>32. CASE FetchMessages
  BY <1>32 DEF FetchMessages, Runs, Send, Executed, DoneInv
<1>33. CASE FetchToFile
  BY <1>33 DEF FetchToFile, Runs, Send, Executed, DoneInv
<1>34. CASE FetchToFileByChunks
  <2>1. PICK r \in Replies :
          /\ Send(r, "ErrorFetch", HasSelected)
          /\ \/ /\ r = "ok" /\ left > 1
                /\ left' = left - 1 /\ pc' = "connectIfNeeded"
             \/ r = "ok" /\ left = 1 /\ pc' = "answer" /\ left' = left
             \/ r # "ok" /\ pc' = pc /\ left' = left
    BY <1>34 DEF FetchToFileByChunks
  <2>2. /\ pc = "command" /\ op = "fetchToFileByChunks"
        /\ op' = op /\ mImap' = mImap
    BY <1>34 DEF FetchToFileByChunks, Runs
  <2>3. /\ mImap /\ stream' # "closed"
        /\ ~tainted' => ~tainted
        /\ r # "ok" => todo' = todo
        /\ r = "ok" /\ ~tainted' => todo' = todo - 1
    BY <2>1, SentOne DEF Send, DoneInv
  <2>4. /\ ~tainted => todo = left
        /\ left \in Nat
    BY <2>2 DEF DoneInv
  <2> QED
    BY <2>1, <2>2, <2>3, <2>4 DEF DoneInv
<1>35. CASE FolderStatus
  BY <1>35, OneCommandDone DEF FolderStatus
<1>36. CASE FolderInfo
  BY <1>36 DEF FolderInfo, Runs, DoneInv
<1>37. CASE Noop
  BY <1>37 DEF Noop, Runs, DoneInv
<1>38. CASE CapabilityOperation
  BY <1>38 DEF CapabilityOperation, Runs, DoneInv
<1>39. CASE FetchDelimiter
  BY <1>39 DEF FetchDelimiter, DoneInv
<1>40. CASE FetchSubscribedFolders
  <2>1. PICK r \in Replies : Send(r, "ErrorNonExistantFolder", srvAuth)
    BY <1>40 DEF FetchSubscribedFolders
  <2>2. /\ pc = "list" /\ op = "fetchSubscribedFolders"
        /\ op' = op /\ mImap' = mImap /\ pc' = "answer"
    BY <1>40 DEF FetchSubscribedFolders
  <2>3. /\ mImap /\ stream' # "closed"
        /\ ~tainted' => ~tainted
        /\ r = "ok" /\ ~tainted' => todo' = todo - 1
    BY <2>1, SentOne DEF Send, DoneInv
  <2>4. pError' = "ErrorNone" => r = "ok"
    BY <2>1 DEF Send
  <2>5. ~tainted => todo = 1
    BY <2>2 DEF DoneInv
  <2> QED
    BY <2>2, <2>3, <2>4, <2>5 DEF DoneInv
<1>41. CASE FetchAllFolders
  BY <1>41 DEF FetchAllFolders, Send, Executed, DoneInv
<1>42. CASE Answer
  BY <1>42 DEF Answer, DoneInv
<1>43. CASE Crash
  BY <1>43 DEF Crash, DoneInv
<1>44. CASE StoredCapabilities
  BY <1>44 DEF StoredCapabilities, DoneInv
<1>45. CASE Connect
  BY <1>45, <1>a, <1>b DEF Connect, ConnectFails, ConnectSucceeds, Unsetup, DoneInv
<1>46. CASE ConnectCapability
  <2>1. /\ pc = "connectCapability" /\ Return
        /\ UNCHANGED <<op, left, todo, tainted>>
    BY <1>46 DEF ConnectCapability
  <2>2. mImap' => stream' # "closed"
    BY <1>46 DEF ConnectCapability, Unsetup, DoneInv
  <2> QED
    BY <2>1, <2>2, <1>a, <1>b DEF DoneInv
<1>47. CASE Login
  <2>1. /\ pc = "login" /\ UNCHANGED <<mImap, op, left, todo, tainted>>
        /\ mImap => stream' # "closed"
    BY <1>47 DEF Login, LoginFails, LoginSucceeds, DoneInv
  <2>2. pc' \in {"enableFeatures", "connectIfNeeded"} \/ Return
    BY <1>47 DEF Login, LoginSucceeds
  <2> QED
    BY <2>1, <2>2, <1>a, <1>b DEF DoneInv
<1>48. CASE Select
  <2>1. PICK r \in Replies :
          /\ Reply(r, srvAuth)
          /\ \/ /\ r = "ok"
                /\ pc' = IF op = "folderInfo" THEN "answer" ELSE "command"
                /\ IF op = "folderInfo" THEN Executed(r)
                                        ELSE UNCHANGED <<todo, tainted>>
             \/ /\ r # "ok"
                /\ pError' # "ErrorNone"
                /\ pc' = "command"
                /\ UNCHANGED <<todo, tainted>>
    BY <1>48 DEF Select, SelectFails
  <2>2. /\ pc = "select" /\ op' = op /\ mImap' = mImap /\ left' = left
    BY <1>48 DEF Select
  <2>3. mImap /\ stream' # "closed"
    BY <2>1 DEF DoneInv
  <2>4. CASE op = "folderInfo" /\ r = "ok"
    <3>1. /\ ~tainted' => ~tainted
          /\ ~tainted' => todo' = todo - 1
      BY <2>1, <2>3, <2>4, SentOne DEF DoneInv
    <3>2. ~tainted => todo = 1
      BY <2>2, <2>4 DEF DoneInv
    <3> QED
      BY <2>1, <2>2, <2>3, <2>4, <3>1, <3>2 DEF DoneInv
  <2>5. CASE ~(op = "folderInfo" /\ r = "ok")
    BY <2>1, <2>2, <2>3, <2>5 DEF DoneInv
  <2> QED
    BY <2>4, <2>5
<1>49. CASE Disconnect
  BY <1>49 DEF Disconnect, Unsetup, DoneInv
<1>50. ASSUME NEW o \in Operations, NEW m \in 0..MaxChunks + 2, NEW f,
             Begin(o, f, m)
      PROVE  DoneInv'
  BY <1>50 DEF Begin, DoneInv, Lengths
<1>51. CASE AppendUnreadable
  BY <1>51 DEF AppendUnreadable, DoneInv
<1> QED
  BY <1>1, <1>2, <1>3, <1>4, <1>5, <1>6, <1>7, <1>8, <1>9, <1>10, <1>11,
     <1>12, <1>13, <1>14, <1>15, <1>16, <1>17, <1>18, <1>19, <1>20, <1>21,
     <1>22, <1>23, <1>24, <1>25, <1>26, <1>27, <1>28, <1>29, <1>30, <1>31,
     <1>32, <1>33, <1>34, <1>35, <1>36, <1>37, <1>38, <1>39, <1>40, <1>41,
     <1>42, <1>43, <1>44, <1>45, <1>46, <1>47, <1>48, <1>49, <1>50, <1>51 DEF Next,
     Client, Configuration, Commands

\* "ErrorNone" is only answered when the server has executed every command of
\* the operation, for any number of chunks and retries, if no answer came from
\* a stream with the rest of another in it (main() of the operations).
THEOREM NoErrorIsSuccess == Spec => []SuccessMeansDone
<1> DEFINE Inv == TypeInv /\ DoneInv
<1>1. Init => Inv
  <2>1. Init => DoneInv
    BY DEF Init, DoneInv, SuccessMeansDone
  <2> QED
    BY <2>1, InitInv DEF IInv
<1>2. Inv /\ [Next]_vars => Inv'
  <2>1. CASE Next
    BY <2>1, DataStep, ControlStep, DoneStep DEF TypeInv
  <2>2. CASE UNCHANGED vars
    BY <2>2 DEF TypeInv, DataTypes, FlagTypes, ValueTypes, ControlInv,
       StackInv, DoneInv, Remaining, SuccessMeansDone, vars, config, session,
       settings, call, loop, server, link, history
  <2> QED
    BY <2>1, <2>2
<1>3. Inv => SuccessMeansDone
  BY DEF DoneInv
<1> QED
  BY <1>1, <1>2, <1>3, PTL DEF Spec
-----------------------------------------------------------------------------
\* What the assertions rest on: with a server that does not offer COMPRESS,
\* nothing inside of login() disconnects or logs in again, so that there are
\* only so many call stacks.

Push(f, s) == <<f>> \o s

\* What loginIfNeeded() and login() return to, but for login() itself; ...
Above == {<<"selectIfNeeded">>, <<"command">>, <<"answer">>,
          <<"fetchNamespace", "answer">>}

\* ... what an operation's connectIfNeeded() returns to, ...
Callers == {<<"answer">>, <<"identity", "answer">>, <<"capability", "answer">>}
             \cup {Push("loginIfNeeded", s) : s \in Above}

\* ... and a function that connect() or login() called, suspended below.
In(f, stacks) == \E s \in stacks : stack = Push(f, s)

LoggedIn == mState = "LOGGEDIN" /\ ~mShouldDisconnect
Connected == mState # "DISCONNECTED" /\ ~mShouldDisconnect
Fine == pError = "ErrorNone"

\* Which calls can be under way in each function, and what it finds then: what
\* connect() calls runs on a connection, what login() calls logged in, and
\* neither is marked, so that no connectIfNeeded() in between disconnects.
CallInv ==
  /\ pc = "connectIfNeeded" =>
       \/ stack \in Callers
       \/ /\ \E s \in Callers :
               stack = Push("capability", Push("connectCapability", s))
          /\ Connected
       \/ /\ \E s \in Above :
               stack \in {Push("capability", Push("loginCapability", s)),
                          Push("loginIfNeeded",
                               Push("fetchNamespace", Push("loginNamespace", s))),
                          Push("identity", Push("loginDone", s))}
          /\ LoggedIn
  /\ pc = "capability" =>
       \/ stack = <<"answer">>
       \/ In("connectCapability", Callers) /\ Connected
       \/ In("loginCapability", Above) /\ LoggedIn
  /\ pc = "connectCapability" => stack \in Callers /\ (Fine => Connected)
  /\ pc = "loginIfNeeded" =>
       \/ stack \in Above /\ (Fine => Connected)
       \/ /\ \E s \in Above :
               stack = Push("fetchNamespace", Push("loginNamespace", s))
          /\ LoggedIn
  /\ pc = "fetchNamespace" =>
       \/ stack = <<"answer">>
       \/ In("loginNamespace", Above) /\ LoggedIn
  /\ pc = "identity" =>
       \/ stack = <<"answer">>
       \/ In("loginDone", Above) /\ LoggedIn
  /\ pc = "login" => stack \in Above /\ Connected
  /\ pc \in {"enableFeatures", "enableQResync", "loginList"} =>
       stack \in Above /\ LoggedIn
  /\ pc \in {"loginCapability", "loginNamespace"} =>
       stack \in Above /\ mState = "LOGGEDIN" /\ (Fine => LoggedIn)
  /\ pc = "loginDone" => stack \in Above /\ mState = "LOGGEDIN"
  /\ pc \in {"selectIfNeeded", "command"} /\ Fine =>
       mState \in {"LOGGEDIN", "SELECTED"}
  /\ pc = "select" => mState \in {"LOGGEDIN", "SELECTED"}

AssertInv ==
  /\ mFeatures \subseteq serverFeatures
  /\ mState = "DISCONNECTED" => ~mImap
  /\ "CompressDeflate" \notin serverFeatures => CallInv

LEMMA Pushing ==
  ASSUME NEW f, NEW S, NEW s \in Seq(S)
  PROVE  Head(Push(f, s)) = f /\ Tail(Push(f, s)) = s
<1> DEFINE T == S \cup {f}
<1>1. <<f>> \in Seq(T) /\ s \in Seq(T) /\ Len(<<f>>) = 1 /\ <<f>>[1] = f
  OBVIOUS
<1>2. /\ Len(<<f>> \o s) = Len(s) + 1
      /\ (<<f>> \o s)[1] = f
      /\ \A i \in 1..Len(s) : (<<f>> \o s)[i + 1] = s[i]
      /\ <<f>> \o s \in Seq(T)
  BY <1>1
<1>3. /\ Head(<<f>> \o s) = f
      /\ Tail(<<f>> \o s) \in Seq(T)
      /\ Len(Tail(<<f>> \o s)) = Len(s)
      /\ \A i \in 1..Len(s) : Tail(<<f>> \o s)[i] = s[i]
  BY <1>2
<1>4. Tail(<<f>> \o s) = s
  BY <1>1, <1>3
<1> QED
  BY <1>3, <1>4 DEF Push

LEMMA CallsAreSequences ==
  /\ Above \subseteq Seq(Labels)
  /\ Callers \subseteq Seq(Labels)
<1>1. {"selectIfNeeded", "command", "answer", "fetchNamespace", "identity",
       "capability", "loginIfNeeded"} \subseteq Labels
  BY DEF Labels
<1>2. \A f \in Labels : <<f>> \in Seq(Labels)
  OBVIOUS
<1>3. \A f, g \in Labels : <<f, g>> \in Seq(Labels)
  OBVIOUS
<1>4. Above \subseteq Seq(Labels)
  BY <1>1, <1>2, <1>3, Zenon DEF Above
<1>5. \A s \in Above : Push("loginIfNeeded", s) \in Seq(Labels)
  <2>1. ASSUME NEW s \in Seq(Labels), NEW f \in Labels
        PROVE  <<f>> \o s \in Seq(Labels)
    OBVIOUS
  <2> QED
    BY <1>1, <1>4, <2>1 DEF Push
<1>6. {<<"answer">>, <<"identity", "answer">>, <<"capability", "answer">>}
        \subseteq Seq(Labels)
  BY <1>1, <1>2, <1>3, Zenon
<1> QED
  BY <1>4, <1>5, <1>6 DEF Callers

LEMMA PoppedPair ==
  ASSUME NEW f, NEW g
  PROVE  Head(<<f, g>>) = f /\ Tail(<<f, g>>) = <<g>>
OBVIOUS

\* Where functions return to.
LEMMA ReturnTo ==
  ASSUME NEW f, NEW s \in Above \cup Callers, stack = Push(f, s), Return
  PROVE  pc' = f /\ stack' = s
<1>1. s \in Seq(Labels)
  BY CallsAreSequences
<1> QED
  BY <1>1, Pushing DEF Return, Goto

LEMMA ReturnAbove ==
  ASSUME stack \in Above, Return
  PROVE  \/ pc' \in {"selectIfNeeded", "command", "answer"}
         \/ pc' = "fetchNamespace" /\ stack' = <<"answer">>
<1>1. ASSUME NEW f, stack = <<f>> PROVE pc' = f
  BY <1>1 DEF Return, Goto
<1>2. CASE stack = <<"fetchNamespace", "answer">>
  BY <1>2, PoppedPair DEF Return, Goto
<1> QED
  BY <1>1, <1>2, Zenon DEF Above

LEMMA ReturnToCaller ==
  ASSUME stack \in Callers, Return
  PROVE  \/ pc' = "answer"
         \/ pc' \in {"identity", "capability"} /\ stack' = <<"answer">>
         \/ pc' = "loginIfNeeded" /\ stack' \in Above
<1>1. CASE \E s \in Above : stack = Push("loginIfNeeded", s)
  BY <1>1, ReturnTo
<1>2. CASE stack \in {<<"answer">>, <<"identity", "answer">>,
                      <<"capability", "answer">>}
  <2>1. CASE stack = <<"answer">>
    BY <2>1 DEF Return, Goto
  <2>2. CASE stack = <<"identity", "answer">>
    BY <2>2, PoppedPair DEF Return, Goto
  <2>3. CASE stack = <<"capability", "answer">>
    BY <2>3, PoppedPair DEF Return, Goto
  <2> QED
    BY <1>2, <2>1, <2>2, <2>3
<1> QED
  BY <1>1, <1>2 DEF Callers

LEMMA PushedOne ==
  ASSUME NEW S, NEW f \in S, NEW s \in Seq(S)
  PROVE  /\ Push(f, s) \in Seq(S)
         /\ Len(Push(f, s)) = Len(s) + 1
         /\ Push(f, s)[1] = f
         /\ \A i \in 2..Len(s) + 1 : Push(f, s)[i] = s[i - 1]
BY DEF Push

LEMMA PushedPair ==
  ASSUME NEW S, NEW f \in S, NEW g \in S, NEW s \in Seq(S)
  PROVE  <<f, g>> \o s = Push(f, Push(g, s))
<1> DEFINE t == Push(g, s)
           u == Push(f, t)
           v == <<f, g>> \o s
<1>1. /\ t \in Seq(S) /\ Len(t) = Len(s) + 1 /\ t[1] = g
      /\ \A i \in 2..Len(s) + 1 : t[i] = s[i - 1]
  BY PushedOne
<1> HIDE DEF t
<1>2. /\ u \in Seq(S) /\ Len(u) = Len(t) + 1 /\ u[1] = f
      /\ \A i \in 2..Len(t) + 1 : u[i] = t[i - 1]
  <2>1. ASSUME NEW x \in Seq(S)
        PROVE  /\ Push(f, x) \in Seq(S) /\ Len(Push(f, x)) = Len(x) + 1
               /\ Push(f, x)[1] = f
               /\ \A i \in 2..Len(x) + 1 : Push(f, x)[i] = x[i - 1]
    BY PushedOne
  <2> QED
    BY <1>1, <2>1
<1>3. /\ v \in Seq(S) /\ Len(v) = Len(s) + 2 /\ v[1] = f /\ v[2] = g
      /\ \A i \in 3..Len(s) + 2 : v[i] = s[i - 2]
  BY PushedTwo
<1>4. Len(s) \in Nat
  OBVIOUS
<1> HIDE DEF u, v
<1>5. ASSUME NEW i \in 1..Len(v) PROVE v[i] = u[i]
  <2>1. CASE i \in 1..2
    BY <2>1, <1>1, <1>2, <1>3, <1>4
  <2>2. CASE i \in 3..Len(s) + 2
    <3>1. v[i] = s[i - 2] /\ i \in 2..Len(t) + 1 /\ i - 1 \in 2..Len(s) + 1
      BY <2>2, <1>1, <1>3, <1>4
    <3>2. u[i] = t[i - 1] /\ t[i - 1] = s[(i - 1) - 1]
      BY <3>1, <1>1, <1>2
    <3> QED
      BY <3>1, <3>2, <1>4
  <2> QED
    BY <2>1, <2>2, <1>3, <1>4
<1>6. u = v
  BY <1>1, <1>2, <1>3, <1>4, <1>5, SeqEqual
<1> QED
  BY <1>6 DEF t, u, v

LEMMA PushedTriple ==
  ASSUME NEW S, NEW f \in S, NEW g \in S, NEW h \in S, NEW s \in Seq(S)
  PROVE  <<f, g, h>> \o s = Push(f, Push(g, Push(h, s)))
<1> DEFINE t == <<g, h>> \o s
           u == Push(f, t)
           v == <<f, g, h>> \o s
<1>1. /\ t \in Seq(S) /\ Len(t) = Len(s) + 2 /\ t[1] = g /\ t[2] = h
      /\ \A i \in 3..Len(s) + 2 : t[i] = s[i - 2]
  BY PushedTwo
<1>0. t = Push(g, Push(h, s))
  BY PushedPair
<1> HIDE DEF t
<1>2. /\ u \in Seq(S) /\ Len(u) = Len(t) + 1 /\ u[1] = f
      /\ \A i \in 2..Len(t) + 1 : u[i] = t[i - 1]
  <2>1. ASSUME NEW x \in Seq(S)
        PROVE  /\ Push(f, x) \in Seq(S) /\ Len(Push(f, x)) = Len(x) + 1
               /\ Push(f, x)[1] = f
               /\ \A i \in 2..Len(x) + 1 : Push(f, x)[i] = x[i - 1]
    BY PushedOne, SMTT(30)
  <2> QED
    BY <1>1, <2>1
<1>3. /\ v \in Seq(S) /\ Len(v) = Len(s) + 3
      /\ v[1] = f /\ v[2] = g /\ v[3] = h
      /\ \A i \in 4..Len(s) + 3 : v[i] = s[i - 3]
  BY PushedThree
<1>4. Len(s) \in Nat
  OBVIOUS
<1> HIDE DEF u, v
<1>5. ASSUME NEW i \in 1..Len(v) PROVE v[i] = u[i]
  <2>1. CASE i \in 1..3
    BY <2>1, <1>1, <1>2, <1>3, <1>4
  <2>2. CASE i \in 4..Len(s) + 3
    <3>1. v[i] = s[i - 3] /\ i \in 2..Len(t) + 1 /\ i - 1 \in 3..Len(s) + 2
      BY <2>2, <1>1, <1>3, <1>4
    <3>2. u[i] = t[i - 1] /\ t[i - 1] = s[(i - 1) - 2]
      BY <3>1, <1>1, <1>2
    <3> QED
      BY <3>1, <3>2, <1>4
  <2> QED
    BY <2>1, <2>2, <1>3, <1>4
<1>6. u = v
  BY <1>1, <1>2, <1>3, <1>4, <1>5, SeqEqual
<1> QED
  BY <1>0, <1>6 DEF u, v

\* What functions call with; an operation's first calls.
LEMMA Calling ==
  /\ \A f, g : \A s \in Above \cup Callers :
       <<f, g>> \o s = Push(f, Push(g, s))
  /\ \A f, g, h : \A s \in Above \cup Callers :
       <<f, g, h>> \o s = Push(f, Push(g, Push(h, s)))
<1>1. ASSUME NEW s \in Above \cup Callers, NEW f, NEW g
      PROVE  <<f, g>> \o s = Push(f, Push(g, s))
  <2> DEFINE T == Labels \cup {f, g}
  <2>1. s \in Seq(T)
    <3>1. s \in Seq(Labels)
      BY CallsAreSequences
    <3> QED
      BY <3>1
  <2>2. f \in T /\ g \in T
    OBVIOUS
  <2> HIDE DEF T
  <2> QED
    BY <2>1, <2>2, PushedPair
<1>2. ASSUME NEW s \in Above \cup Callers, NEW f, NEW g, NEW h
      PROVE  <<f, g, h>> \o s = Push(f, Push(g, Push(h, s)))
  <2> DEFINE T == Labels \cup {f, g, h}
  <2>1. s \in Seq(T)
    <3>1. s \in Seq(Labels)
      BY CallsAreSequences
    <3> QED
      BY <3>1
  <2>2. f \in T /\ g \in T /\ h \in T
    OBVIOUS
  <2> HIDE DEF T
  <2> QED
    BY <2>1, <2>2, PushedTriple
<1> QED
  BY <1>1, <1>2

LEMMA OperationsCall ==
  ASSUME NEW o
  PROVE  Frames(o) \in Callers
<1>1. /\ <<"loginIfNeeded", "answer">> = Push("loginIfNeeded", <<"answer">>)
      /\ <<"loginIfNeeded", "command">> = Push("loginIfNeeded", <<"command">>)
      /\ <<"loginIfNeeded", "selectIfNeeded">>
           = Push("loginIfNeeded", <<"selectIfNeeded">>)
      /\ <<"loginIfNeeded", "fetchNamespace", "answer">>
           = Push("loginIfNeeded", <<"fetchNamespace", "answer">>)
  BY DEF Push
<1> QED
  BY <1>1 DEF Frames, Callers, Above

\* Once loginIfNeeded() returned, only SELECT changes what the session is.
LEMMA CommandsKeep ==
  ASSUME Commands
  PROVE  /\ UNCHANGED <<mFeatures, mImap>>
         /\ UNCHANGED mState \/ Select
<1>1. CASE SelectIfNeeded \/ Refuse \/ Answer \/ Crash \/ Select
  BY <1>1 DEF SelectIfNeeded, Refuse, Answer, Crash, Select, session, settings
<1>2. CASE \E o, error, legal : OneCommand(o, error, legal)
  BY <1>2 DEF OneCommand, session, settings
<1>3. CASE \E o, error : Chunked(o, error)
  BY <1>3 DEF Chunked, session, settings
<1>4. CASE FolderInfo \/ Noop \/ CapabilityOperation \/ CreateFolder
             \/ CustomCommand \/ FetchMessages \/ FetchToFile \/ FetchToFileByChunks
             \/ FetchDelimiter \/ FetchSubscribedFolders \/ FetchAllFolders
  BY <1>4 DEF FolderInfo, Noop, CapabilityOperation, CreateFolder, CustomCommand,
     FetchMessages, FetchToFile, FetchToFileByChunks, FetchDelimiter,
     FetchSubscribedFolders, FetchAllFolders, session, settings
<1> QED
  BY <1>1, <1>2, <1>3, <1>4
  DEF Commands, GetQuota, RenameFolder, DeleteFolder,
      SubscribeFolder, UnsubscribeFolder, AppendMessage, Expunge, Search,
      FetchMessage, FetchAttachment, FetchMessageNumberUIDMapping,
      FolderStatus, CopyMessages, MoveMessages, StoreFlags, StoreLabels

\* What the session knows of the server the server offers.
LEMMA FeaturesStep ==
  ASSUME mFeatures \subseteq serverFeatures, Next
  PROVE  (mFeatures \subseteq serverFeatures)'
<1>1. serverFeatures' = serverFeatures
  BY ConfigStays DEF config
<1>2. CASE Client
  <2>1. mFeatures' \in {mFeatures, mFeatures \cup serverFeatures}
    BY <1>2 DEF Client, Begin, StoredCapabilities, AppendUnreadable, Disconnect, settings,
       capabilitySetWithSessionState
  <2> QED
    BY <1>1, <2>1
<1>3. CASE Configuration
  <2>1. CASE Connect \/ Capability \/ Login
    <3>1. \/ mFeatures' \in {mFeatures, mFeatures \cup serverFeatures}
          \/ mFeatures' = mFeatures \cup (serverFeatures \cap {"Namespace"})
      BY <2>1 DEF Connect, ConnectFails, ConnectSucceeds, Greeting, Capability,
         Login, LoginSucceeds, LoginFails, capabilitySetWithSessionState
    <3> QED
      BY <1>1, <3>1
  <2>2. CASE ~(Connect \/ Capability \/ Login)
    <3>1. UNCHANGED mFeatures
      BY <1>3, <2>2 DEF Configuration, StayConnected, ConnectCapability,
         Propagate, Identity, FetchNamespace, LoginIfNeeded, LoginCapability,
         EnableCompression, EnableFeature, LoginNamespace, LoginList,
         LoginDone, settings
    <3> QED
      BY <1>1, <3>1
  <2> QED
    BY <2>1, <2>2
<1>4. CASE Commands
  <2>1. UNCHANGED mFeatures
    BY <1>4, CommandsKeep
  <2> QED
    BY <1>1, <2>1
<1> QED
  BY <1>2, <1>3, <1>4 DEF Next

\* A session that is disconnected has given back its libetpan session.
LEMMA AllocatedStep ==
  ASSUME mState = "DISCONNECTED" => ~mImap, Next
  PROVE  (mState = "DISCONNECTED" => ~mImap)'
<1>1. CASE Client
  BY <1>1 DEF Client, Begin, StoredCapabilities, AppendUnreadable, Disconnect, Unsetup, session
<1>2. CASE Configuration
  <2>1. CASE Connect \/ ConnectCapability
    BY <2>1 DEF Connect, ConnectFails, ConnectSucceeds, ConnectCapability,
       Unsetup, session
  <2>2. CASE Login
    BY <2>2 DEF Login, LoginSucceeds
  <2>3. CASE ~(Connect \/ ConnectCapability \/ Login)
    <3>1. UNCHANGED session
      BY <1>2, <2>3 DEF Configuration, StayConnected, Propagate, Capability,
         Identity, FetchNamespace, AskServer, LoginIfNeeded, LoginCapability,
         EnableCompression, EnableFeature, LoginNamespace, LoginList, LoginDone
    <3> QED
      BY <3>1 DEF session
  <2> QED
    BY <2>1, <2>2, <2>3
<1>3. CASE Commands
  <2>1. Select => mState' \in {mState, "SELECTED", "LOGGEDIN"}
    BY DEF Select, SelectFails
  <2> QED
    BY <1>3, <2>1, CommandsKeep
<1> QED
  BY <1>1, <1>2, <1>3 DEF Next

LEMMA PushedCalls ==
  ASSUME NEW s \in Above \cup Callers, NEW f \in Labels, NEW g \in Labels
  PROVE  Push(g, s) \in Seq(Labels) /\ Push(f, Push(g, s)) \in Seq(Labels)
<1>1. s \in Seq(Labels)
  BY CallsAreSequences
<1>2. Push(g, s) \in Seq(Labels)
  BY <1>1, PushedOne
<1> QED
  BY <1>2, PushedOne

LEMMA ReturnPair ==
  ASSUME NEW f, NEW g \in Labels, NEW s \in Above \cup Callers,
         stack = Push(f, Push(g, s)), Return
  PROVE  pc' = f /\ stack' = Push(g, s)
<1>1. Push(g, s) \in Seq(Labels)
  BY PushedCalls
<1> QED
  BY <1>1, Pushing DEF Return, Goto

LEMMA ReturnTriple ==
  ASSUME NEW f, NEW g \in Labels, NEW h \in Labels,
         NEW s \in Above \cup Callers,
         stack = Push(f, Push(g, Push(h, s))), Return
  PROVE  pc' = f /\ stack' = Push(g, Push(h, s))
<1>1. Push(g, Push(h, s)) \in Seq(Labels)
  BY PushedCalls
<1> QED
  BY <1>1, Pushing DEF Return, Goto

\* A function that connect(), login() or the operation called returns, without
\* harm unless it reports it.
LEMMA CalledReturns ==
  ASSUME CallInv, Return, UNCHANGED mState,
         Fine' \/ pc = "loginIfNeeded" => UNCHANGED mShouldDisconnect,
         \/ pc \in {"capability", "identity", "fetchNamespace"}
         \/ /\ pc \in {"loginIfNeeded", "loginCapability", "loginNamespace"}
            /\ ~Fine'
         \/ pc = "loginIfNeeded" /\ stack \notin Above
  PROVE  CallInv'
<1>0. {"answer", "connectCapability", "loginCapability", "loginNamespace",
       "loginDone", "fetchNamespace"} \subseteq Labels
  BY DEF Labels
<1>1. CASE stack = <<"answer">>
  BY <1>1 DEF Return, Goto, CallInv
<1>2. CASE stack \in Above /\ ~Fine'
  BY <1>2, ReturnAbove DEF CallInv
<1>3. CASE pc = "capability" /\ In("connectCapability", Callers) /\ Connected
  <2>1. pc' = "connectCapability" /\ stack' \in Callers
    BY <1>3, ReturnTo DEF In
  <2>2. Fine' => Connected'
    BY <1>3 DEF Connected
  <2> QED
    BY <2>1, <2>2 DEF CallInv
<1>4. CASE /\ LoggedIn
           /\ \E f \in {"loginCapability", "loginNamespace", "loginDone"} :
                In(f, Above)
  <2>1. /\ pc' \in {"loginCapability", "loginNamespace", "loginDone"}
        /\ stack' \in Above
    BY <1>4, ReturnTo DEF In
  <2>2. mState' = "LOGGEDIN" /\ (Fine' => LoggedIn')
    BY <1>4 DEF LoggedIn
  <2> QED
    BY <2>1, <2>2 DEF CallInv
<1>5. CASE /\ pc = "loginIfNeeded" /\ LoggedIn
           /\ \E s \in Above :
                stack = Push("fetchNamespace", Push("loginNamespace", s))
  <2>1. pc' = "fetchNamespace" /\ In("loginNamespace", Above)'
    BY <1>0, <1>5, ReturnPair DEF In
  <2>2. LoggedIn'
    BY <1>5 DEF LoggedIn
  <2> QED
    BY <2>1, <2>2 DEF CallInv
<1> QED
  BY <1>1, <1>2, <1>3, <1>4, <1>5 DEF CallInv

\* An operation's functions call what they may, with a server that does not
\* offer COMPRESS.
LEMMA CommandsCall ==
  ASSUME CallInv, Client \/ Commands
  PROVE  CallInv'
<1>1. CASE pc' = "connectIfNeeded"
  <2>1. stack' = <<"capability", "answer">> \/ \E o : stack' = Frames(o)
    <3>1. Client => \E o : stack' = Frames(o)
      BY <1>1 DEF Client, Begin, StoredCapabilities, AppendUnreadable, Disconnect, Goto
    <3>2. CASE Select \/ SelectIfNeeded \/ Refuse \/ Answer \/ Crash
      BY <1>1, <3>2 DEF Select, SelectIfNeeded, Refuse, Again, Answer, Crash,
         Goto
    <3>3. CASE CreateFolder
      <4>1. Frames("createFolder") = <<"loginIfNeeded", "selectIfNeeded">>
        BY DEF Frames, InboxOperations
      <4> QED
        BY <1>1, <3>3, <4>1 DEF CreateFolder, Goto
    <3>4. CASE CapabilityOperation \/ FetchToFile \/ FetchToFileByChunks
                 \/ FetchMessages
      BY <1>1, <3>4 DEF CapabilityOperation, FetchToFile, FetchToFileByChunks,
         FetchMessages,
         Runs, Goto
    <3>5. CASE \E o, error, legal : OneCommand(o, error, legal)
      BY <1>1, <3>5 DEF OneCommand, Goto
    <3>6. CASE \E o, error : Chunked(o, error)
      BY <1>1, <3>6 DEF Chunked, Goto
    <3>7. CASE FolderInfo \/ Noop \/ CustomCommand \/ FetchDelimiter
                 \/ FetchSubscribedFolders \/ FetchAllFolders
      BY <1>1, <3>7 DEF FolderInfo, Noop, CustomCommand, FetchDelimiter,
         FetchSubscribedFolders, FetchAllFolders, Runs, Goto
    <3> QED
      BY <3>1, <3>2, <3>3, <3>4, <3>5, <3>6, <3>7
      DEF Commands, GetQuota, RenameFolder, DeleteFolder,
          SubscribeFolder, UnsubscribeFolder, AppendMessage, Expunge, Search,
          FetchMessage, FetchAttachment, FetchMessageNumberUIDMapping,
          FolderStatus, CopyMessages, MoveMessages, StoreFlags, StoreLabels
  <2>2. stack' \in Callers
    BY <2>1, OperationsCall DEF Callers
  <2> QED
    BY <1>1, <2>2 DEF CallInv
<1>2. CASE pc' \in {"idle", "answer", "list", "crashed"}
  BY <1>2 DEF CallInv
<1>3. CASE SelectIfNeeded
  BY <1>3 DEF SelectIfNeeded, Goto, session, CallInv, Fine
<1>4. CASE Select
  BY <1>2, <1>4 DEF Select, SelectFails, ErrorOf, Failures, Goto, CallInv, Fine
<1>5. CASE FolderInfo
  BY <1>5 DEF FolderInfo, Runs, Goto, session, CallInv, Fine
<1>6. CASE /\ pc = "command" /\ pc' = "command"
           /\ UNCHANGED mState /\ pError = "ErrorNone"
  BY <1>6 DEF CallInv, Fine
<1>7. \/ pc' \in {"connectIfNeeded", "idle", "answer", "list", "crashed"}
      \/ SelectIfNeeded \/ Select \/ FolderInfo
      \/ /\ pc = "command" /\ pc' = "command"
         /\ UNCHANGED mState /\ pError = "ErrorNone"
  <2>1. CASE Client
    BY <2>1 DEF Client, Begin, StoredCapabilities, AppendUnreadable, Disconnect, Goto
  <2>2. CASE Refuse \/ Answer \/ Crash
    BY <2>2 DEF Refuse, Again, Answer, Crash, Goto
  <2>3. CASE \E o, error, legal : OneCommand(o, error, legal)
    BY <2>3 DEF OneCommand, Goto
  <2>4. CASE \E o, error : Chunked(o, error)
    BY <2>4 DEF Chunked, Runs, Goto, session
  <2>5. CASE CreateFolder \/ FetchToFile \/ FetchToFileByChunks \/ FetchMessages
    BY <2>5 DEF CreateFolder, FetchToFile, FetchToFileByChunks, FetchMessages,
       Runs, Goto, session
  <2>6. CASE Noop \/ CustomCommand \/ CapabilityOperation \/ FetchDelimiter
               \/ FetchSubscribedFolders \/ FetchAllFolders
    BY <2>6 DEF Noop, CustomCommand, CapabilityOperation, FetchDelimiter,
       FetchSubscribedFolders, FetchAllFolders, Goto
  <2> QED
    BY <2>1, <2>2, <2>3, <2>4, <2>5, <2>6
    DEF Commands, GetQuota, RenameFolder, DeleteFolder,
        SubscribeFolder, UnsubscribeFolder, AppendMessage, Expunge, Search,
        FetchMessage, FetchAttachment, FetchMessageNumberUIDMapping,
        FolderStatus, CopyMessages, MoveMessages, StoreFlags, StoreLabels
<1> QED
  BY <1>1, <1>2, <1>3, <1>4, <1>5, <1>6, <1>7

\* connect() and login() call what they may.
LEMMA ConfigurationCalls ==
  ASSUME CallInv, DataTypes, mFeatures \subseteq serverFeatures,
         "CompressDeflate" \notin serverFeatures, Configuration
  PROVE  CallInv'
<1>0. {"connectCapability", "loginCapability", "loginNamespace", "loginDone",
       "fetchNamespace"} \subseteq Labels
  BY DEF Labels
<1>1. CASE StayConnected
  <2>1. /\ pc = "connectIfNeeded" /\ Return
        /\ Connected' /\ (mState' = "LOGGEDIN" <=> mState = "LOGGEDIN")
    BY <1>1 DEF StayConnected, session, Connected
  <2>2. CASE stack \in Callers
    BY <2>1, <2>2, ReturnToCaller DEF CallInv
  <2>3. CASE \E s \in Callers :
               stack = Push("capability", Push("connectCapability", s))
    <3>1. PICK s \in Callers :
                 stack = Push("capability", Push("connectCapability", s))
      BY <2>3
    <3>2. pc' = "capability" /\ stack' = Push("connectCapability", s)
      BY <1>0, <2>1, <3>1, ReturnPair
    <3>3. In("connectCapability", Callers)'
      BY <3>2 DEF In
    <3> QED
      BY <2>1, <3>2, <3>3 DEF CallInv
  <2>4. CASE /\ \E s \in Above :
                  stack \in {Push("capability", Push("loginCapability", s)),
                             Push("loginIfNeeded",
                                  Push("fetchNamespace",
                                       Push("loginNamespace", s))),
                             Push("identity", Push("loginDone", s))}
             /\ LoggedIn
    <3>1. LoggedIn'
      BY <2>1, <2>4 DEF LoggedIn, Connected
    <3>2. \/ pc' = "capability" /\ In("loginCapability", Above)'
          \/ /\ pc' = "loginIfNeeded"
             /\ \E s \in Above :
                  stack' = Push("fetchNamespace", Push("loginNamespace", s))
          \/ pc' = "identity" /\ In("loginDone", Above)'
      <4>1. PICK s \in Above :
               \/ stack = Push("capability", Push("loginCapability", s))
               \/ stack = Push("loginIfNeeded",
                               Push("fetchNamespace", Push("loginNamespace", s)))
               \/ stack = Push("identity", Push("loginDone", s))
        BY <2>4
      <4>2. CASE stack = Push("capability", Push("loginCapability", s))
        BY <1>0, <2>1, <4>2, ReturnPair DEF In
      <4>3. CASE stack = Push("loginIfNeeded",
                              Push("fetchNamespace", Push("loginNamespace", s)))
        BY <1>0, <2>1, <4>3, ReturnTriple
      <4>4. CASE stack = Push("identity", Push("loginDone", s))
        BY <1>0, <2>1, <4>4, ReturnPair DEF In
      <4> QED
        BY <4>1, <4>2, <4>3, <4>4
    <3> QED
      BY <3>1, <3>2 DEF CallInv
  <2> QED
    BY <2>1, <2>2, <2>3, <2>4 DEF CallInv
<1>2. CASE Connect
  <2>1. /\ pc = "connectIfNeeded" /\ stack \in Callers /\ ~mShouldDisconnect'
    BY <1>2 DEF Connect, CallInv, Connected, LoggedIn
  <2>2. CASE Return /\ (Fine' => mState' # "DISCONNECTED")
    BY <2>1, <2>2, ReturnToCaller DEF CallInv, Connected
  <2>3. CASE /\ Goto("connectIfNeeded",
                     <<"capability", "connectCapability">> \o stack)
             /\ mState' = "CONNECTED"
    <3>1. /\ pc' = "connectIfNeeded" /\ Connected'
          /\ stack' = Push("capability", Push("connectCapability", stack))
      BY <2>1, <2>3, Calling DEF Goto, Connected
    <3> QED
      BY <2>1, <3>1 DEF CallInv
  <2> QED
    BY <1>2, <2>2, <2>3 DEF Connect, ConnectFails, ConnectSucceeds,
       ConnectErrors, Fine
<1>3. CASE ConnectCapability
  <2>1. /\ stack \in Callers /\ Return
        /\ Fine' => Connected'
    BY <1>3 DEF ConnectCapability, CallInv, Fine, Connected, session
  <2> QED
    BY <2>1, ReturnToCaller DEF CallInv
<1>4. CASE Propagate
  <2>1. /\ pc \in {"loginIfNeeded", "capability", "loginCapability", "identity",
                   "fetchNamespace", "loginNamespace"}
        /\ Return /\ ~Fine' /\ UNCHANGED <<mState, mShouldDisconnect>>
    BY <1>4 DEF Propagate, Fine, session
  <2> QED
    BY <2>1, CalledReturns
<1>5. CASE Capability \/ Identity \/ FetchNamespace
  <2>1. /\ pc \in {"capability", "identity", "fetchNamespace"}
        /\ Return /\ UNCHANGED mState
        /\ Fine' => UNCHANGED mShouldDisconnect
    BY <1>5 DEF DataTypes, FlagTypes, Capability, Identity, FetchNamespace,
       AskServer, Mark, ErrorOf, Replies, Failures, Fine, session
  <2> QED
    BY <2>1, CalledReturns
<1>6. CASE LoginIfNeeded
  <2>1. /\ pc = "loginIfNeeded" /\ Fine
        /\ UNCHANGED <<mState, mShouldDisconnect>>
    BY <1>6 DEF LoginIfNeeded, Fine, session
  <2>2. CASE mState = "CONNECTED" /\ Goto("login", stack)
    BY <2>1, <2>2 DEF CallInv, Goto, LoggedIn, Connected
  <2>3. CASE mState # "CONNECTED" /\ Return
    <3>1. CASE stack \in Above
      <4>1. mState \in {"LOGGEDIN", "SELECTED"}
        <5>1. Connected \/ LoggedIn
          BY <2>1 DEF CallInv
        <5> QED
          BY <2>3, <5>1 DEF Connected, LoggedIn, DataTypes, ValueTypes, States
      <4> QED
        BY <2>1, <2>3, <3>1, <4>1, ReturnAbove DEF CallInv
    <3>2. CASE stack \notin Above
      BY <2>1, <2>3, <3>2, CalledReturns DEF CallInv
    <3> QED
      BY <3>1, <3>2
  <2> QED
    BY <1>6, <2>2, <2>3 DEF LoginIfNeeded
<1>7. CASE Login
  <2>1. pc = "login" /\ stack \in Above /\ Connected
    BY <1>7 DEF Login, CallInv
  <2>2. CASE LoginFails /\ Return
    <3>1. ~Fine'
      BY <2>2 DEF LoginFails, ErrorOf, Failures, Fine
    <3> QED
      BY <2>1, <2>2, <3>1, ReturnAbove DEF CallInv
  <2>3. CASE LoginSucceeds /\ UNCHANGED mShouldDisconnect
    <3>1. LoggedIn'
      BY <2>1, <2>3 DEF LoginSucceeds, LoggedIn, Connected
    <3>2. CASE Goto("enableFeatures", stack)
      BY <2>1, <3>1, <3>2 DEF CallInv, Goto
    <3>3. CASE Goto("connectIfNeeded",
                    <<"capability", "loginCapability">> \o stack)
      <4>1. /\ pc' = "connectIfNeeded"
            /\ stack' = Push("capability", Push("loginCapability", stack))
        BY <2>1, <3>3, Calling DEF Goto
      <4> QED
        BY <2>1, <3>1, <4>1 DEF CallInv
    <3> QED
      BY <2>3, <3>2, <3>3 DEF LoginSucceeds
  <2> QED
    BY <1>7, <2>2, <2>3 DEF Login
<1>8. CASE LoginCapability
  BY <1>8 DEF LoginCapability, CallInv, Goto, Fine, LoggedIn, session
<1>9. CASE EnableCompression
  <2>1. /\ pc = "enableFeatures" /\ Goto("enableQResync", stack)
        /\ UNCHANGED <<mState, mShouldDisconnect>>
    BY <1>9 DEF EnableCompression, session
  <2> QED
    BY <2>1 DEF CallInv, Goto, LoggedIn
<1>10. CASE EnableFeature
  <2>1. /\ pc = "enableQResync" /\ UNCHANGED <<mState, mShouldDisconnect>>
        /\ stack \in Above /\ LoggedIn
        /\ \/ Goto("loginDone", stack) \/ Goto("loginList", stack)
           \/ Goto("connectIfNeeded",
                   <<"loginIfNeeded", "fetchNamespace", "loginNamespace">>
                     \o stack)
    BY <1>10 DEF EnableFeature, CallInv, session
  <2>2. CASE Goto("loginDone", stack) \/ Goto("loginList", stack)
    BY <2>1, <2>2 DEF CallInv, Goto, LoggedIn
  <2>3. CASE Goto("connectIfNeeded",
                  <<"loginIfNeeded", "fetchNamespace", "loginNamespace">>
                    \o stack)
    <3>1. /\ pc' = "connectIfNeeded" /\ LoggedIn'
          /\ stack' = Push("loginIfNeeded",
                           Push("fetchNamespace", Push("loginNamespace", stack)))
      BY <2>1, <2>3, Calling DEF Goto, LoggedIn
    <3> QED
      BY <2>1, <3>1 DEF CallInv
  <2> QED
    BY <2>1, <2>2, <2>3
<1>11. CASE LoginNamespace \/ LoginList
  <2>1. /\ stack \in Above /\ LoggedIn
        /\ UNCHANGED <<mState, mShouldDisconnect>>
        /\ GotoIdentity \/ Goto("loginList", stack) \/ (Return /\ ~Fine')
    BY <1>11 DEF LoginNamespace, LoginList, CallInv, ErrorOf, Fine, session
  <2>2. CASE Return /\ ~Fine'
    BY <2>1, <2>2, ReturnAbove DEF CallInv
  <2>3. CASE Goto("loginDone", stack) \/ Goto("loginList", stack)
    BY <2>1, <2>3 DEF CallInv, Goto, LoggedIn
  <2>4. CASE Goto("connectIfNeeded", <<"identity", "loginDone">> \o stack)
    <3>1. /\ pc' = "connectIfNeeded" /\ LoggedIn'
          /\ stack' = Push("identity", Push("loginDone", stack))
      BY <2>1, <2>4, Calling DEF Goto, LoggedIn
    <3> QED
      BY <2>1, <3>1 DEF CallInv
  <2> QED
    BY <2>1, <2>2, <2>3, <2>4 DEF GotoIdentity
<1>12. CASE LoginDone
  <2>1. stack \in Above /\ mState' = "LOGGEDIN" /\ Return
    BY <1>12 DEF LoginDone, CallInv, session
  <2> QED
    BY <2>1, ReturnAbove DEF CallInv
<1> QED
  BY <1>1, <1>2, <1>3, <1>4, <1>5, <1>6, <1>7, <1>8, <1>9, <1>10, <1>11, <1>12
  DEF Configuration

\* MCAssert(), and the calls into libetpan that need a session, hold for any
\* folders, operations, retries and failures as long as the server does not
\* offer COMPRESS: login() is only entered on a connected session, select()
\* and folderStatus() on one that is logged in, and connect() finds the last
\* libetpan session given back.
THEOREM AssertionsOfUncompressed == Spec => []AssertionsHoldUncompressed
<1> DEFINE Inv == TypeInv /\ CurrentInv /\ AssertInv
<1>1. Init => Inv
  <2>1. Init => AssertInv
    BY DEF Init, AssertInv, CallInv
  <2> QED
    BY <2>1, InitInv DEF IInv
<1>2. Inv /\ [Next]_vars => Inv'
  <2>1. CASE Next
    <3>1. Inv => AssertInv'
      <4> SUFFICES ASSUME Inv PROVE AssertInv'
        OBVIOUS
      <4>1. serverFeatures' = serverFeatures
        BY <2>1, ConfigStays DEF config
      <4>2. (mFeatures \subseteq serverFeatures)'
        BY <2>1, FeaturesStep DEF AssertInv
      <4>3. (mState = "DISCONNECTED" => ~mImap)'
        BY <2>1, AllocatedStep DEF AssertInv
      <4>4. "CompressDeflate" \notin serverFeatures => CallInv'
        BY <2>1, CommandsCall, ConfigurationCalls DEF AssertInv, TypeInv, Next
      <4> QED
        BY <4>1, <4>2, <4>3, <4>4 DEF AssertInv
    <3> QED
      BY <2>1, <3>1, DataStep, ControlStep, CurrentStep DEF TypeInv
  <2>2. CASE UNCHANGED vars
    <3>1. UNCHANGED <<pc, stack, op, mState, mImap, mShouldDisconnect, pError,
                      mFeatures, serverFeatures>>
      BY <2>2 DEF vars, config, session, settings, call
    <3>2. CallInv => CallInv'
      BY <3>1 DEF CallInv, In, LoggedIn, Connected, Fine
    <3>3. AssertInv => AssertInv'
      BY <3>1, <3>2 DEF AssertInv
    <3>4. TypeInv /\ CurrentInv => TypeInv' /\ CurrentInv'
      BY <2>2 DEF TypeInv, DataTypes, FlagTypes, ValueTypes, ControlInv,
         StackInv, CurrentInv, vars, config, session, settings, call, loop,
         server, link, history
    <3> QED
      BY <3>3, <3>4
  <2> QED
    BY <2>1, <2>2
<1>3. Inv => AssertionsHoldUncompressed
  <2> SUFFICES ASSUME Inv, "CompressDeflate" \notin serverFeatures
               PROVE  Asserts
    BY DEF AssertionsHoldUncompressed
  <2>1. mState = "SELECTED" => mCurrentFolder # NULL
    BY SessionAssumption DEF CurrentInv
  <2> QED
    BY <2>1 DEF Asserts, AssertInv, CallInv, Connected, Fine, TypeInv,
       ControlInv
<1> QED
  BY <1>1, <1>2, <1>3, PTL DEF Spec
=============================================================================
