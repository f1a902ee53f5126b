# mailcore2 in TLA+

A verification project for [mailcore2](../src), a C++ library for mail over
IMAP, SMTP, POP, NNTP, Exchange ActiveSync, Gmail and JMAP, with Objective-C
and Java bindings. It models the part of the library whose correctness depends
on order, concurrency and failure - the operation queue, the pool of IMAP
connections, one IMAP connection, IDLE, sending over SMTP and its cancellation,
POP and NNTP connections, the download of an attachment, the search for an
account's servers - and the sets of message numbers every IMAP operation takes;
TLC checks the models on small instances, TLAPS proves what matters most for
every value of their constants.

Paths below are relative to `src/src/`.

- [The system](#the-system)
- [The modules](#the-modules)
- [What the runs check](#what-the-runs-check)
- [Where the code and its documentation disagree](#where-the-code-and-its-documentation-disagree)
- [What is proved](#what-is-proved)
- [What is not modelled](#what-is-not-modelled)
- [Plan](#plan)

## The system

A client (an application, or the Objective-C and Java bindings on its behalf)
works on the **main thread**. It creates a *session* object for an account,
asks it for *operation* objects and starts them; each operation's callback is
made on the main thread. Behind the session, every network connection has an
`OperationQueue` with a **worker thread** of its own, on which the `main()` of
an operation makes blocking calls of libetpan.

```
 client ──start()──▶ IMAPAsyncSession ──sessionForFolder──▶ IMAPAsyncConnection (1..n)
   ▲  interruptIdle()      │ retain/release                    │ addOperation
   │                       ▼                                   ▼
   │               running state, timers                OperationQueue ◀─ delayed check
   │                                                           │ worker thread
   └───────────── callbacks (main thread) ◀──────────── IMAPOperation::main()
                                                               │
                                                        IMAPSession (one connection)
                                                               │ libetpan
                                                            server
```

### Components

| Component | State | Operations | Hard about it | Correct when |
|---|---|---|---|---|
| **OperationQueue** `core/basetypes/MCOperationQueue.cpp` | `mOperations`, two semaphores, `mStarted`, `mQuitting`, `_pendingCheckRunning`, retain count | `addOperation`, `cancelAllOperations`; worker loop `runOperations`; `beforeMain`, `callbackOnMainThread`, `checkRunningOnMainThread`, `checkRunningAfterDelay`, `stoppedOnMainThread` | worker and main thread interleave; tokens of additions and of the order to quit look the same; the worker is stopped one second after the queue runs empty, and anything may be added meanwhile; references are taken on one thread and released on the other | one worker at a time, in order, none lost, each answered or cancelled, never destroyed in use, never leaked |
| **IMAPAsyncSession**, **IMAPAsyncConnection** `async/imap/` | the connections, each with `mLastFolder`, `mQueueRunning`, `mScheduledAutomaticDisconnect`; the session's `mQueueRunning` and retain count | `sessionForFolder` and what it calls, `runOperation`, `cancelAllOperations`, `disconnectOperation`, `queueStartRunning`, `queueStoppedRunning`, `tryAutomaticDisconnect(AfterDelay)` | connections start and stop in any order; a timer that fires, is called off or is taken up again; weak owner pointers | the running state tells the truth, references balance, every connection is closed in the end, operations on one folder use one connection, an urgent one waits only when it must |
| **IMAPSession** `core/imap/MCIMAPSession.cpp` | `mState`, `mImap`, `mShouldDisconnect`, `mCurrentFolder`, capability flags, default namespace | `connect`, `login`, `select` and their `...IfNeeded`, some thirty commands | every command can fail in three ways; a failed connection is replaced by the *next* method; `login()` calls methods that call `loginIfNeeded()` | what it believes of the server is true, commands reach their folder, success means done, assertions hold |
| **IDLE** `async/imap/MCIMAPIdleOperation.cpp`, `IMAPSession::idle` | `mInterrupted`, `mSetupSuccess`; `mIdleEnabled`, `mIdleInProgress`, the interruption channel of the stream | `main`, `prepare`, `unprepare`, `interruptIdle`, `cancel`; `setupIdle`, `unsetupIdle`, `idle`, `unsetup` | the main thread interrupts or tears down a connection another thread is blocked on | no use after free, no interrupt lost or inherited, no command sent to a server that idles |
| **IndexSet**, **Range** `core/basetypes/` | sorted array of ranges | add, remove, intersect; bisection; conversion to the protocol's sets | merging and splitting in place; `uint64_t` bounds with an infinity | the ranges stand for the integers added and not removed |
| **IMAP operations** `async/imap/MCIMAP*Operation.cpp` | parameters, result, `mError` | `main()`: one call of IMAPSession | - | - |
| **SMTPSession**, **SMTPAsyncSession** `core/smtp`, `async/smtp` | `mState`, `mShouldDisconnect`, `mSendingCancelled`, `mCanCancel`; queue and disconnect timer | `connectIfNeeded`, `loginIfNeeded`, `sendMessage`, `cancelMessageSending`, `checkAccount`, `noop`, `disconnect`; `runOperation`, `tryAutomaticDisconnect` | the main thread cancels the stream of a message being sent, and means one message where the session has one flag | no stream is cancelled that was freed, an early cancel is heard, success means sent, a failed connection is replaced, none stays open |
| **POPSession** and its async session `core/pop`, `async/pop` | `mState`; the queue of operations | `loginIfNeeded`, `listIfNeeded`, `fetchMessages`, `fetchMessage`, `deleteMessage`, `noop`, `disconnect` | messages are named by number, numbers belong to a connection, and an operation keeps the numbers it was made with | the message fetched or deleted is the one that was listed |
| **NNTPSession** and its async session `core/nntp`, `async/nntp` | `mState` | `loginIfNeeded`, `selectGroup`, articles, headers, overviews, lists, `postMessage`, `disconnect` | the selected group belongs to a connection; GROUP has answers nobody looks at | articles come from the group they were asked of |
| **Attachment download** `IMAPSession::fetchMessageAttachmentToFileByChunksByUID`, `core/basetypes/MCDataStreamDecoder.cpp` | offset, retries; `mRemainingData`, the file | one loop | short chunks, a wrong size announced, retries, encodings that do not end with a chunk | each byte once, in order; success means complete |
| **AccountValidator** `core/provider` | the service and host being tested, an MX lookup with a timeout, results | `start`, `cancel`, `operationFinished`, `resolveMXTimeout` | the timeout races the answer, cancellation races both | one answer, and it tells the truth about each server |
| **Object**, delayed performs `core/basetypes/MCObject.cpp`, `MCMainThread*.cpp` | retain counts, a hash of pending delayed calls | `performMethodOnMainThread`, `performMethodAfterDelay`, `cancelDelayedPerformMethod` | threads | calls arrive in order, a cancelled call does not |
| Containers, JSON, strings, data `core/basetypes` | sequential data | - | - | - |
| ActiveSync, Gmail, JMAP | credentials; each request stands alone | requests over HTTP on one queue | - | - |
| Abstract messages, RFC 822, renderer, zip, certificates, IMAP value classes | data | conversions of text | - | - |
| Objective-C, Java, UI | wrappers | - | - | - |

`PROJECT.json` lists every component with its files, and under `hazards`
what in this code is hard to test, each at its line with the properties that
cover it.

## The modules

```
SerialExecutor ◀── refines ── OperationQueue ◀── OperationQueueProofs ◀── OperationQueueRefinement
      ▲                            ▲
      ┆ assumed of each queue      MCOperationQueue
ImapAsyncSession ◀── ImapAsyncSessionProofs, MCImapAsyncSession
ImapSession ◀── ImapSessionProofs        (the connection seen from its worker)
      ▲
      MCImapSession
ImapIdle ◀── ImapIdleProofs, MCImapIdle  (the connection and the main thread)
Range ◀── IndexSet ◀── MCIndexSet ◀── MCSequential ──▶ PopSession, NntpSession, AttachmentDownload
                                      ▲
                                      SequentialProofs
SerialExecutor ◀── instance ── SmtpSession ◀── SmtpSessionProofs, MCSmtpSession
AccountValidator ◀── AccountValidatorProofs, MCAccountValidator
```

The modules are layers: each relies on what the one below was shown to
promise. `ImapAsyncSession` takes each connection's queue to be what
`SerialExecutor` says, which `OperationQueue` implements; `ImapSession` and
`ImapIdle` take operations to run one after another, the promise of the same
module; `SmtpSession` is composed with that module itself, whose variables are
its queue. Names of variables and actions are those of the code where TLA+ allows
it. Actions and operators named `Action_What`, with a comment that begins with
"Mutant", are plausible bugs: putting one in the place of the definition that
follows it makes TLC find the property violated that `PROJECT.json` names for
it. They are not part of the specifications.

### OperationQueue, SerialExecutor

One worker thread per name in `Threads`, its position in `runOperations()` in
`pc`; one step per interval between two accesses to shared state, a section
under `mLock` being one step. The main thread is the FIFO `mainQueue` of posted
calls, the timers `checkTimers`, and the client, whose calls
(`AddOperation`, `Cancel`, `CancelAllOperations`, `ReleaseQueue`) come at any
moment. `performMethodOnMainThread(..., true)` moves the worker to a wait
state that the posted call ends. `mCounter` counts the references numbered (1)
to (4) in the comments of the source, so that premature destruction and leaks
can be stated. `startThread()` waits for the new thread's first instruction,
which touches nothing else, so that starting is one step.

`SerialExecutor` is the promise without threads: operations run one at a time
in the order they were added, a cancelled one is skipped or loses its
callback, a worker comes and goes in three steps. `ImplementsSerialExecutor`
states the refinement, with fairness; the mapping is `Phase` and `WorkerState`.

### ImapAsyncSession

A pool of at most `MaximumConnections` connections. `sessionForFolder`,
`matchingSessionForFolder`, `availableSession` and `sessionWithMinQueue` are
operators whose values are sets of at most one connection. `RunOperation` is
the whole of `runOperation()` of one or more connections: it calls a scheduled
disconnect off, queues, and starts the worker if there is none, which takes a
reference and changes the running flags. `StoppedOnMainThread` is the whole of
what a queue's stopping does to its connection and its session, a restart
included. References to the session are counted; a freed session does nothing
any more, which is one outcome of using freed memory and enough to state that
it is used.

### ImapSession

`pc` is the C++ function about to go on and `stack` the functions to return
to; a step is one exchange with the server, or one decision between two. A
server has a set of extensions (`serverFeatures`), answers each command with
OK, a refusal, an answer that cannot be parsed or a broken stream (at most
`MaxFaults` of the last two), and has its own idea of whether the client is
logged in and of the selected folder (`srvAuth`, `srvSelected`). It may greet
with PREAUTH (`preauth`), which the code takes for no error and logs in all the
same. A stream with
the rest of an unparsable answer in it is `stale`, and anything may be read
from it afterwards. `login()` is modelled with everything automatic
configuration does: capabilities, COMPRESS, QRESYNC, NAMESPACE with its nested
`loginIfNeeded()`, LIST, ID. Each public method that sends a command is an
action or an instance of `OneCommand` or `Chunked`. What fails in the chunked
download is retried, whether it was the SELECT or the FETCH; the second FETCH
of `fetchMessages()` goes through `selectIfNeeded()` again; appending a file
that cannot be read ends at once; and the client's own command
(`CustomCommand`) may select what it likes. The history variables say what the
properties need to know: `todo` the commands not yet executed, `tainted` that
an answer was read from a stale stream, `forgotten` a failure that `login()` or
`noop()` passes over, `strayed` that a custom command changed the selection.
`StateMatchesServer` excepts what `preauth` and `strayed` say, and
`CommandsHitTheirFolder` what `strayed` says: the session cannot know it.

### ImapIdle

The part of the connection that two threads share. `pc` is the connection
thread in `IMAPIdleOperation::main()` and `IMAPSession::idle()`, `main` the
main thread, which may run `interruptIdle()` or `cancel()` of any operation, at
any moment, the posted `prepare()` and `unprepare()`, or `disconnect()`. A
section under `mIdleLock` is one step, and so is a section under an
operation's own lock. `selectIfNeeded()` is reduced to its outcomes - nothing
to do, a SELECT, a new connection - `ImapSession` has its steps.

`disconnect()` is taken to come only once the idle is entered: before, nothing
in the code protects `mImap` from the connection thread, and a client on the
main thread uses `disconnectOperation()`, which goes through the queue. That
is what `tests/test-imap-idle.cpp` and `tests/IMAP_IDLE_STRESS_TEST_PLAN.md`
exercise too.

### Range, IndexSet

`Range` is arithmetic of `uint64_t` (`Wrap`) over any `UINT64_MAX`. In
`IndexSet`, bisection is a recursive function over the two bounds, the loops of
`mergeRanges` and `removeRange` are sets of the indices they reach. The
history variable `indexes` is the set of integers the index set is meant to
be. `setFromIndexSet`, `indexSetFromSet` and `splitSet` are the conversions in
`MCIMAPSession.cpp`; the first cuts bounds down to 32 bits (`Uint32`, of any
width).

### SmtpSession

The composition of `SMTPSession`, the operations on it and `SMTPAsyncSession`.
The queue is an instance of `SerialExecutor`: `Begin`, `Return` and `Answer`
take its steps, and so does each step of the queue's thread. `pc` is the worker
in `main()`: `setSendingCancelled(false)`, `connectIfNeeded()`, `login()`, the
test of `mSendingCancelled`, the lock that sets `mCanCancel`,
`mailesmtp_send()`, the lock that clears it, closing the stream. `canceller` is
the main thread in `cancelMessageSending()`, between its two locks. The delayed
disconnect (`timer`) is a pending call that is set whenever the queue stops, be
it to restart at once, that is called off by whatever the client starts next,
and that becomes an operation of the queue. The client may cancel one operation
(`Cancel`) or all of them (`CancelAllOperations`), the delayed disconnect
included. `TimerRetains` says whether a
pending delayed call keeps its object alive: it does with the dispatch queues
of Apple systems, and not with the timers of the others. `seen`, `delivered`,
`early` and `disturbed` are history.

### PopSession, NntpSession

One worker, one server that drops the connection at any moment; the steps after
`Begin` are the `...IfNeeded` methods the operation calls. In `PopSession` the
client makes operations at any moment (`Ask`), with numbers of the list it has
then, and they wait in `queue` behind the one that runs. The server's mailbox
(`box`) may be changed by another client while this one is not logged in,
`numbers` is what numbers stand for on a connection, `marked` what QUIT will
delete; `known` is the client's list, which it keeps until it gets another.
Every deletion ends with `disconnect()`, and what was queued behind it
reconnects, lists again and uses its old numbers. An operation also records, as
history, the messages the client meant by its numbers (`meant`) and whether its
list was `fresh`: made after the last `disconnect()`. `acts` is what the last
operation did, beside both. `ActsOnWhatWasListed` is about operations with a
fresh list; `IndexIsAReference` is about all of them, and fails (see below).
In `NntpSession`, `group` is what the server has selected, and `ignored` says
that the last GROUP was answered with something `selectGroup()` does not look
at; `ReadsTheGroupAsked` excepts articles read after that.

### AttachmentDownload

The loop of `fetchMessageAttachmentToFileByChunksByUID` and the decoder it
feeds. A part is a sequence of numbered units; `group` of them decode together
(four characters of base64, for example; two in the run). A chunk may be
shorter than asked for inside the part, the announced size may be anything, a
fetch, a write or closing the file may fail.

### AccountValidator

Everything the validator does on the main thread, one action per callback, with
`CheckNextHost` the recursion `checkNextHost()` makes until it has something to
wait for. Its two asynchronous operations (the resolver, the check of one
server) are running, posted or over. Whether a provider is known and how many
servers it lists is chosen in `Init`.

### MCSequential

`IndexSet`, `PopSession`, `NntpSession` and `AttachmentDownload` have a single
actor and share nothing: the run chooses one of them at the beginning and
leaves the others at rest, so that its states are the sum of theirs.

## What the runs check

All runs are in `PROJECT.json`. A passing run ends with no error; a run that
expects a violation states what a document, comment or assertion of the
repository says, and is described in the next section.

| Run | Instance | Size | What it shows |
|---|---|---|---|
| `queue` | 3 operations, one with `shouldRunWhenCancelled`, 2 thread names | 115k states | `SingleWorker`, `WokenWithOperation` (the `MCAssert` in the loop), `AliveWhileUsed`; with fairness `EveryOperationAnswered`, `AbandonedQueueIsFreed`, `ImplementsSerialExecutor` |
| `pool` | 2 connections, 2 folders or none, 3 operations, 1 cancellation, with and without concurrent access | 152k states | `RunningStateTruthful`, `RetainsBalanced`, `FreedWhenDone`, `NoConnectionLeftOpen`, `OneConnectionPerFolder`, `UrgentWaitsOnlyWhenFull`; with fairness `ConnectionsComeToRest`, `ReleasedSessionIsFreed` |
| `session` | every operation, 2 folders, 2 servers, 2 faults, 2 chunks, 2 retries | 1.5M states | `StateMatchesServer`, `CommandsHitTheirFolder`, `FailedConnectionIsReplaced`, `SuccessMeansDone`, `AssertionsHoldUncompressed`; with fairness `EveryOperationIsAnswered` |
| `idle` | 2 idle operations, 2 folders, 2 faults | 43k states | `TeardownWaits`, `IdleConnectionIsDropped`, `SetupIsUndone`, `InterruptIsHeard`; with fairness `InterruptedIdleEnds`, `TeardownEnds` |
| `smtp` | 2 sends and another operation, 2 of them started, 3 delayed disconnects | 896k states | `CancelsLiveStream`, `UndisturbedSuccessMeansSent`, `EarlyCancelIsHeard`, `FailedConnectionIsReplaced`, `SendsAuthenticated`; with fairness `NoConnectionLeftOpen` |
| `validator` | 3 services with up to 3 servers each | 599k states | `ReportIsTrue`, `AnswersOnce`; with fairness `Validates` |
| `sequential` | numbers 1 to 7 and infinity, every range and every set of two ranges as operand; 3 messages, 1 operation queued behind another; 2 groups; parts of up to 6 units in chunks of 3, 3 retries | 2.2M states | `StandsForIndexes`, `ReachesTheServer`; `ActsOnWhatWasListed`; `ReadsTheGroupAsked`; `FileIsThePart` |

**Bounds.** Every operation of a queue is added once, so the number of
operations bounds the run. Three are enough for one to run, one to wait and one
to be added while the worker is told to quit, decides to and restarts; two
thread names let a second worker exist if the code allowed it. In the pool,
two connections and two folders make every branch of the choice reachable
(with more folders than connections `OneConnectionPerFolder` fails, see below).
In the session, two faults let a connection fail while its replacement fails
too, two chunks let one succeed before another fails. In IDLE, two operations
let the second meet what the first left behind. For index sets, seven numbers
make sets of four ranges with room for an insertion before, between, over and
after them; a range with an end ends below `UINT32_MAX`, because removing all up
to it from a set without end leaves a range that begins beyond 32 bits.
In `smtp`, the cancelling of one send can meet every step of another (the two
sends), or find the connection another operation left; each of the two starts of
the client can lead to one delayed disconnect, and one of these, cancelled, to
another. Three
servers let a service's second answer decide what its third may say
(`Report`). Three messages let a deletion shift two numbers, and one operation
queued is one behind a deletion (`MaxQueued`); a part of six
units is two chunks long, and with short chunks up to six. No symmetry is used:
most runs check liveness.

**Fairness.** Threads are scheduled; the run loop of the main thread serves its
queue and its timers; a libetpan call returns, because every stream has a
timeout. Nothing is assumed of clients, who may stop calling (hence no
deadlock check where the system may rest), nor of servers, who may refuse or
break off. In `ImapIdle` nothing is assumed of a wait that nobody interrupts:
neither that the server has news nor that `MAX_IDLE_DELAY` passes - an
interrupted idle must end without either. In `SmtpSession` fairness is
that of the worker's thread, of the run loop and of the timer; a stream has a
timeout, so a command on it ends. In `AccountValidator` the timer, the check
of a server (whose connection has a timeout) and its callback are fair, the
resolver is not: `Validates` holds because of the timer. The strong fairness of
`Prepare \/ Unprepare` stands for the run loop being first-in first-out: calls
of the client before it do not keep a posted call waiting for ever.

**Deadlock** is checked in `queue`, whose client can always cancel, in `idle`,
`sequential`, `indexset_straddle` and `pop_stale`; in the others the
client may stop calling, and then the system comes to rest.

## Where the code and its documentation disagree

Five runs expect a violation, each of one property:

- `pool_restart`, `RestartHasItsSession`: a disconnect operation retains its
  connection but not the session; when the queue restarts for it after the last
  reference to the session was released, `mOwner` dangles
  (`MCIMAPAsyncConnection.cpp:345`).
- `session_asserts`, `AssertionsHold`: the answer to COMPRESS cannot be parsed;
  `identity()`, inside `login()`, replaces the marked connection, `login()`
  reports success on a session that is not logged in, and the next `select()`
  aborts (`MCIMAPSession.cpp:1058`). Without COMPRESS the assertions hold
  (`AssertionsHoldUncompressed` in `session`).
- `indexset_straddle`, `AddRangeLosesNothing`: {1-2, 4} and `addRange(2-4)`
  give {2-4} (`MCIndexSet.cpp:256`).
- `smtp_cancel`, `SuccessMeansSent`: cancelling one send sets the session's
  flag; another send that is connecting finds it set, is not sent and reports
  success (`MCSMTPSession.cpp:737`).
- `pop_stale`, `IndexIsAReference`: an operation queued behind a deletion finds
  the session disconnected (`MCPOPDeleteMessagesOperation.cpp:49`), reconnects
  and lists again (`MCPOPSession.cpp:463-470`) where the client cannot see it, and
  fetches or deletes what its number stands for now; `MCOPOPSession.h:107` says
  that the index can be used as a reference in the other operations.

The passing runs of the same modules leave exactly these cases out:
`AssertionsHoldUncompressed`; `Straddling = FALSE`; `UndisturbedSuccessMeansSent`;
`ActsOnWhatWasListed`.
In the pool, `ConnectionsComeToRest` says nothing of the queue of a freed session.

Five more have no run of their own; adding the property to the configuration
named shows each:

- `NoErrorMeansMessages` (INVARIANT, `MCImapSession.cfg`): the second FETCH of
  `fetchMessages()` fails and the operation ends without error and without
  messages (`MCIMAPSession.cpp:2701`).
- `DisconnectDisconnects` (INVARIANT of `NntpSession`, with `SPECIFICATION Spec`
  and one group): the operation that `MCONNTPSession.h:212` says disconnects
  calls `checkAccount()`, which connects (`MCNNTPDisconnectOperation.cpp:28`).
- `EndsForItsOwnReason` (`MCImapIdle.cfg`): `mSetupSuccess` stays set, so
  interrupting or cancelling an operation that has ended wakes the one that
  idles by now (`MCIMAPIdleOperation.cpp:48`).
- `EveryServiceTried` (INVARIANT, `MCAccountValidator.cfg`): when all servers of
  a service have failed the validation ends, though the comment in the source
  says that the next service follows (`MCAccountValidator.cpp:302`).
- `OneConnectionPerFolder` with three folders, two connections and
  `MaxOperations = 4` (`MCImapAsyncSession.cfg`): a busy connection is re-pointed
  at another folder, and the next operation on the first folder goes elsewhere
  (`MCIMAPAsyncSession.cpp:314`, `MCOIMAPSession.h:106`). The property is
  stated, and holds, for no more folders than connections.

Met while modelling and built into the models rather than stated:

- `noop()` of an IMAP, SMTP or POP session that never connected returns without
  writing its error, a local variable of `main()`: any error may be reported
  (`NoopUnset` of `SmtpSession`, `Begin` of `PopSession`).
- A POP connection that fails is not marked and fails again until
  `disconnect()`; the answer to QUIT, on which the deletions depend, is not
  looked at.
- `listDefaultNewsgroups()` does not look at the result of its command.
- `flushData()` of the decoder fails silently; when something remained it closes
  the file, which the destructor closes again, and when nothing did the destructor
  closes it and does not look at the result.
- A validator with neither an email nor a user name never calls back.

## What is proved

With TLAPS, for every value of the constants that the modules' assumptions
allow. Every safety invariant that a passing run checks is a theorem. A
theorem's proof ends, as usual, in an invariant that is inductive; each proof has
one lemma per part of the invariant and in it one step per action.

**OperationQueueProofs**: `QueueTypes`, `OneWorkerAtATime`,
`NeverWokenForNothing`, `ReferencesAreCounted`, `NeverFreedInUse`.
`SingleWorker` is nearly inductive; `WokenWithOperation` is not, because it
depends on counting. The invariant `QueueInv` adds: what a serving worker holds
is the head of the queue (`OpInv`); a posted call that blocks belongs to the
thread that waits for it, and there is at most one (`CallInv`); a worker that
stops was told to, and no check is due when none exists (`StopInv`); and the
count of tokens: semaphore plus the token a worker holds equals the queued
operations plus one for an order to quit (`TokenInv`). From the last, a worker
that is woken with the queue empty was told to quit. `ReferenceInv`, inductive
with `QueueInv`, says where each reference of the comments (1) to (4) is: the
retain count is the owner's, one of a started worker, one of a worker that
waits to be stopped, one for each delayed check and one for each posted one.
The last is the cardinality of a set of positions of `mainQueue`, which the
lemmas `ChecksAppend` and `ChecksTail` follow through posting and dispatching.

**OperationQueueRefinement**: `HistoryInvariant`, `QueueRefinesExecutor`. The
queue implements `SerialExecutor` under the mapping `Phase`, `WorkerState` that
the run checks. The mapping reads the histories `added`, `ran` and `called`,
so that a step can only be matched when they are known to agree with the
worker's place: `WaitingInv` (what is queued is the end of what was added) and
`CurrentInv` (what the serving worker's operation has been through). Each step
is then shown to be a step of the executor or to leave the mapped state alone.
The theorem is about safety; that nothing waits for ever is with TLC.

**ImapAsyncSessionProofs**: `TypesHold`, `RunningTold`, `ReferencesBalance`,
`FreedAfterAll`, `OpenIsScheduled`, `UrgentIsServed`, `FolderHasOneConnection`,
for any number of connections (0, no limit, included), folders, operations and
cancellations. `ControlInv` gives each connection's life: a running flag per
worker, a scheduled disconnect per connection left open, and nothing at all in
a connection the pool does not have yet; the session's flag is the disjunction
of theirs. From it `RunningTold` and `OpenIsScheduled` are read off.
`RetainsBalanced` speaks of the connections of the pool, whose number changes;
the inductive `BalanceInv` counts over all connections there may ever be, and of
a freed session too: the retain count is the owner's reference and the
cardinalities of three sets - the client's operations (as places of queues, so
that starting, popping and cancelling add or take single elements), the
workers, the scheduled disconnects. `FreedInv` says that a freed session holds
none of these, and `FreedStops` that no step is enabled then, so that every other
part need only be kept by the steps of a living session. (That a worker may find
its session freed is `RestartHasItsSession`, a finding; what it does then is
undefined, and the model takes it to do nothing, `Alive`.) `UrgentIsServed` takes
no induction but a count: a pool below its limit can always grow, by
`availableSession`. `FolderHasOneConnection` has one hypothesis, `FoldersFit`: the pool
has no limit, or no fewer connections than there are folders. It is
needed - without it the property fails, see the section above - and enters by the
pigeonhole principle (`FullPoolHasAll`): when a full pool has no free connection
left, some connection has the folder. `FolderInv` then keeps connections and
folders one to one: what is queued on a connection is on its last folder, and no
two connections have the same.

**ImapSessionProofs**: `SessionTypes`, `SessionAndServerAgree`,
`CommandsReachTheirFolder`, `FailuresAreReplaced`, `NoErrorIsSuccess`,
`AssertionsOfUncompressed`. The first needs the shape of the call stack
(`ControlInv`): suspended functions of the session above the operation, and
which functions can be where; `login()` runs only when `mState` is CONNECTED.
`SessionAndServerAgree` (`StateMatchesServer`) is inductive together with it.
`CommandsReachTheirFolder` rests on `CommandInv` and on the assumption
`FoldsApart`: `selectIfNeeded()` compares folder names without regard to case,
and without the assumption the theorem is false. `FailuresAreReplaced` rests on
`FaultInv`: a failed connection is marked unless the failure was forgotten, and
the functions that were running when it failed carry an error until the
operation ends or `connectIfNeeded()` is reached again. `NoErrorIsSuccess` rests
on `DoneInv`: on a stream in order, what the server has still to execute
(`todo`) is what the operation's loop has still to send.
`AssertionsOfUncompressed` rests on `AssertInv`: a disconnected session has no
libetpan session left, the features believed are features the server has, and,
when COMPRESS is not one of them, `CallInv` - for each function the calls
that can have led to it, with what it finds then. What `connect()` calls runs
on a connection, what `login()` calls is logged in, and neither is marked
`mShouldDisconnect`; so the `connectIfNeeded()` at the bottom of those nested
calls never disconnects under them. COMPRESS is the one place where that
breaks, which is the finding of `session_asserts`.

**ImapIdleProofs**: `IdleTypes`, `IdleOutlivesNoSession`,
`NoCommandToAnIdlingServer`, `ChannelsAreTakenDown`, `NoInterruptIsLost`. The
invariant adds to the properties where each thread can be when the other is
somewhere (`ControlInv`: `mIdleInProgress` holds exactly between entering and
cleanup; the main thread closes the stream only when the connection thread is
about to post `unprepare()`), that the stream is open exactly while the
libetpan session exists (`StreamInv`), and that a channel belongs to the
current operation, which knows of it (`ChannelInv`).

**SmtpSessionProofs**: `StreamOutlivesCancel`, `SendsOnlyWhenLetIn`,
`CancelledSendIsNotSent`, `FaultReportedOnce`, `SuccessOfASend`: every safety
property the run checks of the session, for any number of operations. One
operation at a time is busy (`RunInv`, from the executor's steps); there is a
connection, logged in, from the login to the end of a send (`ConnectionInv`);
the main thread has the lock only while the worker stands where it needs the
lock to go on (`CancelInv`); and whose flag was set and whose message was
delivered is remembered until the callback (`SentInv`).

**AccountValidatorProofs**: `TypesHold`, `OneAnswer`, `TrueReport`, for any
number of servers of each service. `CheckNextHostEffect` says
first what the recursion of `checkNextHost()` comes to: it goes on with a server,
runs out of a service's servers, or ends. Of the invariant, `Phase` says that the
timer runs exactly while the resolver's answer would still count, and that
timer and check run only before the client is answered; `Fresh` that nothing was
checked before the provider is settled; `Progress` that while a check runs the
services before it are settled, those after it wait, and its own answers are the
failures of the servers before the one being tried.

**SequentialProofs** is about the four parts that `MCSequential` joins, as it
joins them: `NumbersAreStable`, `GroupsAreSelected`, `DownloadIsFaithful`,
`RangesStayInOrder`, `SetStandsForIndexes` and `SetReachesTheServer` are
theorems of its specification, each by an invariant of one part.

- POP: a list that is fresh is the one of the connection (`ListInv`), because a
  connection is only replaced after `disconnect()`, which makes every list and
  every operation in the queue stale; an operation with a fresh list, queued
  (`QueueInv`) or running (`OperationInv`), has numbers that stand for what it
  means, and so has what it marked; nothing is marked between operations
  (`MarkedInv`). The hypothesis `fresh` is the theorem's limit: for operations
  made before a `disconnect()` and run after it the conclusion is false, which is
  the finding of `pop_stale`.
- NNTP: `SelectedInv`, that an operation about a group reaches its command only
  with that group selected or the answer to GROUP passed over, and the property
  itself.
- The download, assuming of the constants that `MaxSize` and `chunkSize` are
  numbers: the whole groups and the rest of a sequence are the sequence
  (`GroupFacts`); so a chunk continues the file (`AppendStep`), and the loop
  ends at the end of the part unless it was misled (`EndInv`).
- `Range`: `IntersectionIsExact`, `HasIntersectionIsExact`, `RemovalIsExact`,
  `UnionIsExact` - the operators `IndexSet` is built on, for any width of the
  integers, against the sets of integers they stand for.
- `IndexSet`: `RangesStayInOrder`, `SetStandsForIndexes`, `SetReachesTheServer`
  and `SplitIsExact`, for sets of any number of ranges and any width. The
  invariant, `IndexInv`, is short: the array is in `Arrays` (sensible ranges of
  message numbers, in order and apart) and, unless ranges are straddled, its
  `Members` are the integers added and not removed. The work is in what each
  operator computes on such an array. Bisection finds the first range that does
  not end before an index (`LeftRange`), and the range with the index if there is
  one (`ContainsExact`). Merging, joining and removing all cut a stretch of the
  array out and put another in its place (`Splice`, `SpliceArray`); with what they
  put there, `AddRangeArray` and `RemoveRangeArray` follow, and with those, fold
  by fold, the operations on whole sets. `SetBack` takes a set to the protocol's
  and back, `SplitJoined` puts the commands of a split set together again.

  Two hypotheses: `Inputs \subseteq Numbers`, message numbers start at 1 and have
  the 32 bits of the protocol, as in the runs, so that `Uint32` cuts nothing off;
  and, for the last two of the theorems named first, `~Straddling`, without which
  they are false (the finding of `indexset_straddle`). `RangesStayInOrder` needs
  only the first: what a straddling range makes the set lose is numbers, not order.

  These are inductions over data: on the length of an interval for bisection, on
  the number of ranges for folds and for `FlattenSeq`. The induction theorems of
  the library take an operator as parameter and cannot be used; `Induct` states
  induction for a set of numbers, and is proved from `WFMin`, the least element of
  a set. A recursive function is a CHOOSE of a function that solves its equation, so
  each proof first exhibits one (`clamp` in `LeftRange`, `found` in
  `ContainsExact`, the path of a fold in `FoldSteps`) and then shows by induction that
  any solution agrees with it where the operator looks. To make that possible
  the two bisections are written as functions of one bound that return functions
  of the other. `Folded` is one definition of which all the folds of the index set
  are instances.

Out of the prover's reach, and with TLC only:

- liveness under fairness: everything with `~>`, and the liveness half of
  `ImplementsSerialExecutor`;
- `ENABLED`.

Each module has a `TypeOK`. Those of the queue, the pool, the session, IDLE and
the validator are theorems; no run checks them, because what they say is implied by the models'
form rather than by the code.

## What is not modelled

- **Data.** What servers answer beyond success and failure: messages, flags,
  folders, UIDs, capabilities other than the four `login()` branches on.
- **Settings** copied to connections, and `automaticConfigurationDone()`, which on
  the main thread reads what `login()` found from a connection's session, while
  its worker may go on, and keeps it in the `IMAPAsyncSession`.
- **Progress, logging**; the platform's dispatch queues, which take the place
  of the main thread on Apple systems.
- **libetpan, sockets and servers** are environment: a call returns one of a
  few results, the server does what the protocol says.
- **Freed memory**: its use is detected (`AliveWhileUsed`, `TeardownWaits`,
  `RestartHasItsSession`), what happens then is not modelled.
- **Pure conversions** (RFC 822, HTML, JSON, character sets, zip), value
  classes, bindings, user interface: nothing in them depends on order.
- **Providers**: the matching of addresses and MX records is string data;
  `AccountValidator` leaves its outcome open.
- **Apple's and others' timers**: whether a pending call keeps its object alive
  is a constant of `SmtpSession`; the pool's model takes the Apple form.
- **ActiveSync, Gmail, JMAP**: their async sessions are one `OperationQueue`
  each, which is modelled, and their requests stand alone.

## Plan

Done, in this order: the operation queue with its abstract specification, the
pool over it, one IMAP connection, IDLE, index sets, the theorems above; then
SMTP over the abstract queue, the account validator, the download by chunks,
POP and NNTP.

Left, most important first:

1. Theorems: the restarts of the pool with more folders than connections, for
   which a weaker promise than `OneConnectionPerFolder` could be stated.
2. `IMAPMultiDisconnectOperation` in `ImapAsyncSession`: the count of answered
   disconnects against `cancelAllOperations()`.
3. The delayed performs of `Object` with their hash, and the two ways platforms
   implement them, under the pool.
