------------------------------ MODULE ImapIdle ------------------------------
(***************************************************************************)
(* IMAPIdleOperation (src/async/imap/MCIMAPIdleOperation.cpp) and the part *)
(* of IMAPSession it drives: the connection thread brings the folder up,   *)
(* has the main thread set an interruption channel up on the stream, goes  *)
(* IDLE, and has the main thread take the channel down.  Meanwhile the     *)
(* main thread may interrupt any idle operation, or disconnect().          *)
(*                                                                         *)
(* The operations of one connection run one after another; pc is where the *)
(* current one is, main what the main thread does.  A section under        *)
(* mIdleLock, or under an operation's mLock, is one step.                  *)
(***************************************************************************)
EXTENDS Integers

CONSTANTS
  MaxOps,       \* bound: idle operations, one after another
  Folders,
  MaxFaults,    \* bound: commands that fail
  NULL

ASSUME IdleAssumption ==
  /\ MaxOps \in Nat \ {0}
  /\ NULL \notin Folders
  /\ MaxFaults \in Nat

VARIABLES
  cur,              \* the operation whose main() runs
  folder,           \* its folder
  mInterrupted, mSetupSuccess,    \* of each operation
  outcome,          \* history: why each operation ended
  mImap,            \* not NULL
  mIdleEnabled, mIdleInProgress, mShouldDisconnect,
  selected,         \* the folder selected; NULL: not selected
  stream,           \* imap_stream: closed, ok, broken, or cancelled
  idleSet,          \* mailstream_setup_idle() was called on it ...
  wakeup,           \* ... and mailstream_interrupt_idle() since
  srvIdle,          \* the server believes the client idles
  pc, main, faults

operation == <<cur, folder, mInterrupted, mSetupSuccess, outcome>>
session == <<mImap, mIdleEnabled, mIdleInProgress, mShouldDisconnect, selected>>
channel == <<idleSet, wakeup>>
link == <<stream, srvIdle, faults>>
vars == <<operation, session, channel, link, pc, main>>

Ops == 1..MaxOps
Replies == {"ok", "stream", "parse", "other"}
Failures == {"stream", "parse"}
Outcomes == {"none", "notRun", "error", "noSetup", "newMessage", "change",
             "timeout", "interrupted"}
N(b) == IF b THEN 1 ELSE 0

TypeOK ==
  /\ cur \in 0..MaxOps
  /\ folder \in Folders \cup {NULL}
  /\ mInterrupted \in [Ops -> BOOLEAN]
  /\ mSetupSuccess \in [Ops -> BOOLEAN]
  /\ outcome \in [Ops -> Outcomes]
  /\ mImap \in BOOLEAN /\ mIdleEnabled \in BOOLEAN
  /\ mIdleEnabled => mImap
  /\ mIdleInProgress \in BOOLEAN /\ mShouldDisconnect \in BOOLEAN
  /\ selected \in Folders \cup {NULL}
  /\ stream \in {"closed", "ok", "broken", "cancelled"}
  /\ idleSet \in BOOLEAN /\ wakeup \in BOOLEAN /\ srvIdle \in BOOLEAN
  /\ pc \in {"next", "select", "prepare", "prepared", "reselect", "fetch",
             "enter", "idle", "wait", "done", "cleanup", "unprepare"}
  /\ main \in {"free", "unsetup", "waiting", "closing"}
  /\ faults \in 0..MaxFaults

Init ==
  /\ cur = 0 /\ folder = NULL
  /\ mInterrupted = [o \in Ops |-> FALSE]
  /\ mSetupSuccess = [o \in Ops |-> FALSE]
  /\ outcome = [o \in Ops |-> "none"]
  /\ mImap = FALSE /\ mIdleEnabled = FALSE
  /\ mIdleInProgress = FALSE /\ mShouldDisconnect = FALSE
  /\ selected = NULL
  /\ stream = "closed" /\ idleSet = FALSE /\ wakeup = FALSE
  /\ srvIdle = FALSE
  /\ pc = "next" /\ main = "free" /\ faults = MaxFaults

\* What a libetpan call returns; only a sound stream is answered.
Reply(r) ==
  /\ stream # "ok" => r = "stream"
  /\ stream = "ok" /\ r \in Failures => faults > 0
  /\ faults' = faults - N(stream = "ok" /\ r \in Failures)
  /\ stream' = IF stream = "ok" /\ r = "stream" THEN "broken" ELSE stream

Mark(r) == mShouldDisconnect' = (mShouldDisconnect \/ r \in Failures)

Ends(why) == outcome' = [outcome EXCEPT ![cur] = why]

-----------------------------------------------------------------------------
\* selectIfNeeded(), as IMAPIdleOperation::main() and idle() call it.  What
\* connecting and logging in do in between is in ImapSession.

\* The connection is there and the folder selected: no command is sent.
AlreadySelected ==
  /\ mImap /\ ~mShouldDisconnect
  /\ selected = folder
  /\ UNCHANGED <<session, channel, link>>

\* The connection is there: log in if that failed before, and SELECT.
SelectFolder(r) ==
  /\ mImap /\ ~mShouldDisconnect
  /\ selected # folder
  /\ Reply(r)
  /\ Mark(r)
  /\ selected' = IF r = "ok" THEN folder ELSE NULL
  /\ UNCHANGED <<mImap, mIdleEnabled, mIdleInProgress, channel, srvIdle>>

\* A new connection: the old stream goes, and with it what was set up on it.
\* login() may go on after a failure, leaving the mark it made.
Reconnect(r) ==
  /\ ~mImap \/ mShouldDisconnect
  /\ mImap' \in {TRUE, r = "ok"}
  /\ stream' = IF mImap' THEN "ok" ELSE "closed"
  /\ mIdleEnabled' \in {FALSE, mImap'}
  /\ mShouldDisconnect' \in BOOLEAN
  /\ mShouldDisconnect' => faults > 0
  /\ faults' = faults - N(mShouldDisconnect')
  /\ selected' = IF r = "ok" THEN folder ELSE NULL
  /\ idleSet' = FALSE /\ wakeup' = FALSE /\ srvIdle' = FALSE
  /\ UNCHANGED mIdleInProgress

SelectIfNeeded(r) ==
  \/ r = "ok" /\ AlreadySelected
  \/ SelectFolder(r)
  \/ Reconnect(r)

-----------------------------------------------------------------------------
\* IMAPIdleOperation::main() on the connection thread.

Begin ==
  /\ pc = "next" /\ cur < MaxOps
  /\ cur' = cur + 1
  /\ folder' \in Folders
  /\ \/ /\ mInterrupted[cur']
        /\ outcome' = [outcome EXCEPT ![cur'] = "notRun"]
        /\ UNCHANGED pc
     \/ /\ ~mInterrupted[cur']
        /\ pc' = "select"
        /\ UNCHANGED outcome
  /\ UNCHANGED <<mInterrupted, mSetupSuccess, session, channel, link, main>>

Select ==
  /\ pc = "select"
  /\ \E r \in Replies :
       /\ SelectIfNeeded(r)
       /\ \/ r = "ok" /\ pc' = "prepare" /\ UNCHANGED outcome
          \/ r # "ok" /\ pc' = "next" /\ Ends("error")
  /\ UNCHANGED <<cur, folder, mInterrupted, mSetupSuccess, main>>

\* Mutant: the operation of an interrupted idle is set up all the same.
PrepareSuccess_NoCheck == mIdleEnabled /\ mImap /\ ~mIdleInProgress

\* prepare(), on the main thread, the connection thread waiting for it.
PrepareSuccess == ~mInterrupted[cur] /\ mIdleEnabled /\ mImap /\ ~mIdleInProgress

Prepare ==
  /\ pc = "prepare" /\ main = "free"
  /\ \E ok \in {FALSE, PrepareSuccess} :     \* mailstream_setup_idle() may fail
       /\ mSetupSuccess' = [mSetupSuccess EXCEPT ![cur] = ok]
       /\ idleSet' = (idleSet \/ ok)
  /\ pc' = "prepared"
  /\ UNCHANGED <<cur, folder, mInterrupted, outcome, session, wakeup, link, main>>

Prepared ==
  /\ pc = "prepared"
  /\ \/ mSetupSuccess[cur] /\ pc' = "reselect" /\ UNCHANGED outcome
     \/ ~mSetupSuccess[cur] /\ pc' = "next" /\ Ends("noSetup")
  /\ UNCHANGED <<cur, folder, mInterrupted, mSetupSuccess, session, channel, link, main>>

\* IMAPSession::idle() starts here.
Reselect ==
  /\ pc = "reselect"
  /\ \E r \in Replies :
       /\ SelectIfNeeded(r)
       /\ \/ r = "ok" /\ pc' \in {"fetch", "enter"} /\ UNCHANGED outcome
          \/ r # "ok" /\ pc' = "unprepare" /\ Ends("error")
  /\ UNCHANGED <<cur, folder, mInterrupted, mSetupSuccess, main>>

\* With a lastKnownUID, idle() ends at once when it finds a later message.
Fetch ==
  /\ pc = "fetch"
  /\ \E r \in Replies :
       /\ Reply(r)
       /\ Mark(r)
       /\ \/ r = "ok" /\ pc' = "enter" /\ UNCHANGED outcome
          \/ r = "ok" /\ pc' = "unprepare" /\ Ends("newMessage")
          \/ r # "ok" /\ pc' = "unprepare" /\ Ends("error")
  /\ UNCHANGED <<cur, folder, mInterrupted, mSetupSuccess, mImap, mIdleEnabled,
                 mIdleInProgress, selected, channel, srvIdle, main>>

Enter ==
  /\ pc = "enter"
  /\ \/ /\ mImap /\ ~mIdleInProgress
        /\ mIdleInProgress' = TRUE
        /\ pc' = "idle"
        /\ UNCHANGED outcome
     \/ /\ ~mImap \/ mIdleInProgress
        /\ pc' = "unprepare"
        /\ Ends("error")
        /\ UNCHANGED mIdleInProgress
  /\ UNCHANGED <<cur, folder, mInterrupted, mSetupSuccess, mImap, mIdleEnabled,
                 mShouldDisconnect, selected, channel, link, main>>

\* mailimap_idle(); the server may announce a change before it goes idle.
\* Of a command whose answer is lost, the server may have got the command.
GoIdle ==
  /\ pc = "idle"
  /\ \E r \in Replies :
       /\ Reply(r)
       /\ Mark(r)
       /\ srvIdle' = (r # "other")
       /\ \/ r = "ok" /\ pc' = "wait" /\ UNCHANGED outcome
          \/ r = "ok" /\ pc' = "done" /\ Ends("change")
          \/ r # "ok" /\ pc' = "cleanup" /\ Ends("error")
  /\ UNCHANGED <<cur, folder, mInterrupted, mSetupSuccess, mImap, mIdleEnabled,
                 mIdleInProgress, selected, channel, main>>

\* mailstream_wait_idle() returns: woken or cancelled by the main thread ...
WaitWoken ==
  /\ pc = "wait"
  /\ \/ /\ idleSet /\ wakeup
        /\ wakeup' = FALSE
        /\ pc' = "done"
        /\ Ends("interrupted")
        /\ UNCHANGED mShouldDisconnect
     \/ /\ stream = "cancelled"
        /\ pc' = "cleanup"
        /\ Ends("error")
        /\ mShouldDisconnect' = TRUE
        /\ UNCHANGED wakeup
  /\ UNCHANGED <<cur, folder, mInterrupted, mSetupSuccess, mImap, mIdleEnabled,
                 mIdleInProgress, selected, idleSet, link, main>>

\* Mutant: the connection is not marked when waiting fails.
WaitEnds_NoMark ==
  /\ pc = "wait"
  /\ \/ pc' = "done" /\ (Ends("change") \/ Ends("timeout"))
        /\ UNCHANGED <<mShouldDisconnect, stream, faults>>
     \/ /\ faults > 0 /\ faults' = faults - 1
        /\ pc' = "cleanup" /\ Ends("error")
        /\ stream' = IF stream = "ok" THEN "broken" ELSE stream
        /\ UNCHANGED mShouldDisconnect
  /\ UNCHANGED <<cur, folder, mInterrupted, mSetupSuccess, mImap, mIdleEnabled,
                 mIdleInProgress, selected, channel, srvIdle, main>>

\* ... or there is data, MAX_IDLE_DELAY passed, or the socket failed.
WaitEnds ==
  /\ pc = "wait"
  /\ \/ /\ pc' = "done"
        /\ Ends("change") \/ Ends("timeout")
        /\ UNCHANGED <<mShouldDisconnect, stream, faults>>
     \/ /\ faults > 0 /\ faults' = faults - 1
        /\ stream' = IF stream = "ok" THEN "broken" ELSE stream
        /\ pc' = "cleanup"
        /\ Ends("error")
        /\ mShouldDisconnect' = TRUE
  /\ UNCHANGED <<cur, folder, mInterrupted, mSetupSuccess, mImap, mIdleEnabled,
                 mIdleInProgress, selected, channel, srvIdle, main>>

Done ==
  /\ pc = "done"
  /\ \E r \in Replies :
       /\ Reply(r)
       /\ Mark(r)
       /\ srvIdle' = (r \in Failures)
       /\ \/ r = "ok" /\ UNCHANGED outcome
          \/ r # "ok" /\ Ends("error")
  /\ pc' = "cleanup"
  /\ UNCHANGED <<cur, folder, mInterrupted, mSetupSuccess, mImap, mIdleEnabled,
                 mIdleInProgress, selected, channel, main>>

\* Mutant: nobody is told that the idle is over.
Cleanup_NoBroadcast ==
  /\ pc = "cleanup"
  /\ mIdleInProgress' = FALSE
  /\ pc' = "unprepare"
  /\ UNCHANGED <<operation, mImap, mIdleEnabled, mShouldDisconnect, selected,
                 channel, link, main>>

Cleanup ==
  /\ pc = "cleanup"
  /\ mIdleInProgress' = FALSE
  /\ main' = IF main = "waiting" THEN "unsetup" ELSE main    \* broadcast
  /\ pc' = "unprepare"
  /\ UNCHANGED <<operation, mImap, mIdleEnabled, mShouldDisconnect, selected,
                 channel, link>>

\* Mutant: the set-up of an idle that failed is left behind.
Unprepare_OnlySuccess ==
  /\ pc = "unprepare" /\ main = "free"
  /\ ~mIdleInProgress
  /\ \/ mSetupSuccess[cur] /\ outcome[cur] # "error" /\ mIdleEnabled /\ mImap
        /\ idleSet' = FALSE /\ wakeup' = FALSE
     \/ ~(mSetupSuccess[cur] /\ outcome[cur] # "error" /\ mIdleEnabled /\ mImap)
        /\ UNCHANGED channel
  /\ pc' = "next"
  /\ UNCHANGED <<operation, session, link, main>>

\* unprepare() on the main thread, with unsetupIdle().
Unprepare ==
  /\ pc = "unprepare" /\ main = "free"
  /\ mSetupSuccess[cur] => ~mIdleInProgress
  /\ \/ /\ mSetupSuccess[cur] /\ mIdleEnabled /\ mImap
        /\ idleSet' = FALSE /\ wakeup' = FALSE
     \/ /\ ~(mSetupSuccess[cur] /\ mIdleEnabled /\ mImap)
        /\ UNCHANGED channel
  /\ pc' = "next"
  /\ UNCHANGED <<operation, session, link, main>>

-----------------------------------------------------------------------------
\* The client, on the main thread.

\* Mutant: an idle is interrupted only once it is in progress.
Interrupt_OnlyInProgress(o) ==
  /\ main = "free"
  /\ mInterrupted' = [mInterrupted EXCEPT ![o] = TRUE]
  /\ wakeup' = (wakeup \/ ( /\ mSetupSuccess[o] /\ mIdleInProgress
                            /\ mIdleEnabled /\ mImap /\ idleSet))
  /\ UNCHANGED <<cur, folder, mSetupSuccess, outcome, session, idleSet, link,
                 pc, main>>

\* interruptIdle(), of the operation and then of the session; also cancel().
Interrupt(o) ==
  /\ main = "free"
  /\ mInterrupted' = [mInterrupted EXCEPT ![o] = TRUE]
  /\ wakeup' = (wakeup \/ ( /\ mSetupSuccess[o]
                            /\ mIdleEnabled /\ mImap /\ idleSet))
  /\ UNCHANGED <<cur, folder, mSetupSuccess, outcome, session, idleSet, link,
                 pc, main>>

\* IMAPSession::disconnect(), by a client that was told of an idle going on.
\* Without one, nothing protects mImap from the connection thread.
Disconnect ==
  /\ main = "free"
  /\ pc \in {"idle", "wait", "done", "cleanup", "unprepare"}
  /\ main' = "unsetup"
  /\ UNCHANGED <<operation, session, channel, link, pc>>

\* unsetup(): as long as the idle goes on, interrupt it and wait.
UnsetupWaits ==
  /\ main = "unsetup" /\ mIdleInProgress
  /\ wakeup' = (wakeup \/ (mImap /\ idleSet))
  /\ stream' = IF mImap /\ stream = "ok" THEN "cancelled" ELSE stream
  /\ main' = "waiting"
  /\ UNCHANGED <<operation, session, idleSet, srvIdle, faults, pc>>

\* pthread_cond_wait() may return for no reason.
SpuriousWakeup ==
  /\ main = "waiting"
  /\ main' = "unsetup"
  /\ UNCHANGED <<operation, session, channel, link, pc>>

\* Mutant: the loop is an if: a wait that returns is believed.
UnsetupTakes_If ==
  /\ main = "unsetup"
  /\ ~mIdleInProgress \/ stream = "cancelled"
  /\ mImap' = FALSE /\ mIdleEnabled' = FALSE
  /\ main' = "closing"
  /\ UNCHANGED <<operation, mIdleInProgress, mShouldDisconnect, selected,
                 channel, link, pc>>

UnsetupTakes ==
  /\ main = "unsetup"
  /\ ~mIdleInProgress
  /\ mImap' = FALSE /\ mIdleEnabled' = FALSE
  /\ main' = "closing"
  /\ UNCHANGED <<operation, mIdleInProgress, mShouldDisconnect, selected,
                 channel, link, pc>>

UnsetupCloses ==
  /\ main = "closing"
  /\ stream' = "closed"
  /\ idleSet' = FALSE /\ wakeup' = FALSE
  /\ srvIdle' = FALSE
  /\ selected' = NULL      \* STATE_DISCONNECTED
  /\ main' = "free"
  /\ UNCHANGED <<operation, mImap, mIdleEnabled, mIdleInProgress,
                 mShouldDisconnect, faults, pc>>

Worker ==
  \/ Begin \/ Select \/ Prepare \/ Prepared \/ Reselect \/ Fetch \/ Enter
  \/ GoIdle \/ WaitWoken \/ Done \/ Cleanup \/ Unprepare

Unsetup == UnsetupWaits \/ UnsetupTakes \/ UnsetupCloses

Next ==
  \/ Worker \/ WaitEnds
  \/ \E o \in Ops : Interrupt(o)
  \/ Disconnect \/ Unsetup \/ SpuriousWakeup

Spec == Init /\ [][Next]_vars

\* Threads go on, and the server, or the socket's timeout, answers every
\* command.  Nobody has to send data to a connection that idles, nor to
\* wait MAX_IDLE_DELAY; a wait that was woken returns.  The main thread's
\* queue is first in, first out: a client's calls do not keep the posted
\* prepare() and unprepare() waiting for ever.
FairSpec ==
  Spec /\ WF_vars(Worker) /\ SF_vars(Prepare \/ Unprepare) /\ WF_vars(Unsetup)

-----------------------------------------------------------------------------
\* The connection thread keeps a pointer to the libetpan session from the
\* moment it enters idle to its cleanup: the session may not be taken away
\* or its stream closed in between, whatever wakes unsetup() up.
TeardownWaits == mIdleInProgress => mImap /\ stream # "closed"

\* A server that waits for DONE reads nothing else: a connection that is
\* left in that state is marked, so that no command but DONE is sent on it.
IdleConnectionIsDropped == srvIdle /\ ~mIdleInProgress => mShouldDisconnect

\* What prepare() sets up unprepare() takes down, on every way out of an
\* operation: the next one finds no channel, and no wake-up in it.
SetupIsUndone == pc \in {"next", "select", "prepare"} => ~idleSet /\ ~wakeup

\* An idle that waits although it was interrupted is about to wake up; only
\* an idle whose connection was replaced under it has no channel to hear by.
InterruptIsHeard ==
  pc \in {"reselect", "fetch", "enter", "idle", "wait"}
    /\ mInterrupted[cur] /\ idleSet
      => wakeup

\* With no timeout and no news, an interrupted operation comes to its end,
\* the same exception made.
InterruptedIdleEnds ==
  \A o \in Ops :
    (cur = o /\ pc # "next" /\ mInterrupted[o])
      ~> (pc = "next" \/ (pc = "wait" /\ ~idleSet))

\* disconnect() does not hang: unsetup() comes to its end, even while a
\* connection idles that has no channel.
TeardownEnds == main # "free" ~> main = "free"

\* An idle operation is interrupted only by the client that interrupts it:
\* otherwise it ends with a change, a timeout or an error.  The code does not
\* keep this, so no run checks it (README, "Disagreements"): interrupting an
\* operation that has ended wakes the next one on its connection.
EndsForItsOwnReason ==
  \A o \in Ops :
    outcome[o] = "interrupted" /\ (pc = "next" \/ o # cur) => mInterrupted[o]

=============================================================================
