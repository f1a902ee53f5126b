--------------------------- MODULE ImapIdleProofs ---------------------------
(***************************************************************************)
(* Proofs about ImapIdle, for any number of idle operations, folders and   *)
(* failures: the teardown of a connection waits for its idle, the channel  *)
(* an idle is interrupted by is taken down, and no interrupt is lost.      *)
(***************************************************************************)
EXTENDS ImapIdle, TLAPS

\* Where the connection thread is in idle(), between entering and cleanup.
InIdle == {"idle", "wait", "done", "cleanup"}

\* Where it has been set up, successfully or not.
SetUp == {"prepared", "reselect", "fetch", "enter", "unprepare"} \cup InIdle

ControlInv ==
  /\ pc # "next" => cur \in Ops /\ folder \in Folders
  /\ mIdleInProgress <=> pc \in InIdle
  /\ main # "free" => pc \in InIdle \cup {"unprepare"}
  /\ main = "closing" => pc = "unprepare" /\ ~mImap

\* The stream is open exactly when there is a libetpan session; only
\* unsetup() has them apart for a moment, when no idle is in progress.
StreamInv ==
  /\ main # "closing" => (mImap <=> stream # "closed")
  /\ mIdleInProgress => mImap

\* Between IDLE and DONE is the only time an unmarked connection idles.
ServerInv == srvIdle /\ pc \notin {"wait", "done"} => mShouldDisconnect

\* A channel belongs to the current operation, which knows of it, and to a
\* connection that will have it taken down.
ChannelInv ==
  /\ wakeup => idleSet
  /\ idleSet => /\ pc \in SetUp
                /\ mSetupSuccess[cur]
                /\ main # "closing" => mIdleEnabled /\ mImap

HeardInv ==
  pc \in {"prepared", "reselect", "fetch", "enter", "idle", "wait"}
    /\ mInterrupted[cur] /\ idleSet
      => wakeup

IInv == TypeOK /\ ControlInv /\ StreamInv /\ ServerInv /\ ChannelInv /\ HeardInv

-----------------------------------------------------------------------------
\* The answer to a command keeps the stream and the bound on faults in their
\* types, and does not close the stream.
LEMMA ReplyFacts ==
  ASSUME TypeOK, NEW r \in Replies, Reply(r), Mark(r)
  PROVE  /\ stream' \in {"closed", "ok", "broken", "cancelled"}
         /\ faults' \in 0..MaxFaults
         /\ mShouldDisconnect' \in BOOLEAN
         /\ stream' = "closed" <=> stream = "closed"
<1>1. mShouldDisconnect' \in BOOLEAN
  BY Zenon DEF Mark, TypeOK
<1>2. /\ stream' \in {"closed", "ok", "broken", "cancelled"}
      /\ stream' = "closed" <=> stream = "closed"
  <2>1. CASE stream = "ok" /\ r = "stream"
    BY <2>1 DEF Reply
  <2>2. CASE ~(stream = "ok" /\ r = "stream")
    BY <2>2 DEF Reply, TypeOK
  <2>3. QED
    BY <2>1, <2>2
<1>3. faults' \in 0..MaxFaults
  <2>1. CASE stream = "ok" /\ r \in Failures
    <3>1. faults > 0 /\ faults' = faults - 1
      BY <2>1 DEF Reply, N
    <3>2. QED
      BY <3>1, IdleAssumption DEF TypeOK
  <2>2. CASE ~(stream = "ok" /\ r \in Failures)
    <3>1. faults' = faults - 0
      BY <2>2, Zenon DEF Reply, N
    <3>2. QED
      BY <3>1, IdleAssumption DEF TypeOK
  <2>3. QED
    BY <2>1, <2>2
<1>4. QED
  BY <1>1, <1>2, <1>3

\* Noting why an operation ended.
LEMMA EndsFacts ==
  ASSUME TypeOK, cur \in Ops, NEW why \in Outcomes, Ends(why)
  PROVE  outcome' \in [Ops -> Outcomes]
BY DEF TypeOK, Ends

\* Selecting the folder: an existing connection keeps its channel, a new one
\* has none, no mark, and a server that does not idle.
LEMMA SelectFacts ==
  ASSUME TypeOK, cur \in Ops, folder \in Folders,
         mImap <=> stream # "closed",
         NEW r \in Replies, SelectIfNeeded(r)
  PROVE  /\ mImap' \in BOOLEAN /\ mIdleEnabled' \in BOOLEAN
         /\ mIdleEnabled' => mImap'
         /\ mIdleInProgress' = mIdleInProgress
         /\ mShouldDisconnect' \in BOOLEAN
         /\ selected' \in Folders \cup {NULL}
         /\ stream' \in {"closed", "ok", "broken", "cancelled"}
         /\ faults' \in 0..MaxFaults
         /\ idleSet' \in BOOLEAN /\ wakeup' \in BOOLEAN /\ srvIdle' \in BOOLEAN
         /\ mImap' <=> stream' # "closed"
         /\ r = "ok" => mImap'
         /\ \/ ~idleSet' /\ ~wakeup' /\ ~srvIdle'
            \/ /\ idleSet' = idleSet /\ wakeup' = wakeup /\ srvIdle' = srvIdle
               /\ mIdleEnabled' = mIdleEnabled /\ mImap' = mImap
               /\ mShouldDisconnect => mShouldDisconnect'
<1>1. CASE AlreadySelected
  BY <1>1, Zenon DEF AlreadySelected, session, channel, link, TypeOK
<1>2. CASE SelectFolder(r)
  <2>1. Reply(r) /\ Mark(r)
    BY <1>2 DEF SelectFolder
  <2>2. selected' \in Folders \cup {NULL}
    BY <1>2, Zenon DEF SelectFolder
  <2>3. UNCHANGED <<mImap, mIdleEnabled, mIdleInProgress, idleSet, wakeup, srvIdle>>
    BY <1>2, Zenon DEF SelectFolder, channel
  <2>4. mShouldDisconnect => mShouldDisconnect'
    BY <2>1, Zenon DEF Mark
  <2>5. mImap
    BY <1>2 DEF SelectFolder
  <2>6. QED
    BY <2>1, <2>2, <2>3, <2>4, <2>5, ReplyFacts DEF TypeOK
<1>3. CASE Reconnect(r)
  <2>1. /\ mImap' \in BOOLEAN
        /\ r = "ok" => mImap'
    BY <1>3, Zenon DEF Reconnect
  <2>2. mIdleEnabled' = FALSE \/ mIdleEnabled' = mImap'
    BY <1>3 DEF Reconnect
  <2>3. stream' = IF mImap' THEN "ok" ELSE "closed"
    BY <1>3 DEF Reconnect
  <2>4. mShouldDisconnect' \in BOOLEAN /\ (mShouldDisconnect' => faults > 0)
    BY <1>3 DEF Reconnect
  <2>5. /\ ~idleSet' /\ ~wakeup' /\ ~srvIdle'
        /\ idleSet' \in BOOLEAN /\ wakeup' \in BOOLEAN /\ srvIdle' \in BOOLEAN
        /\ mIdleInProgress' = mIdleInProgress
    BY <1>3, Zenon DEF Reconnect
  <2>6. selected' \in Folders \cup {NULL}
    BY <1>3, Zenon DEF Reconnect
  <2>7. mShouldDisconnect' \in BOOLEAN /\ faults' \in 0..MaxFaults
    <3>1. faults' = faults - N(mShouldDisconnect')
      BY <1>3 DEF Reconnect
    <3>2. CASE mShouldDisconnect'
      <4>1. faults' = faults - 1
        BY <3>1, <3>2 DEF N
      <4>2. QED
        BY <2>4, <3>2, <4>1, IdleAssumption DEF TypeOK
    <3>3. CASE ~mShouldDisconnect'
      <4>1. faults' = faults - 0
        BY <3>1, <3>3, Zenon DEF N
      <4>2. QED
        BY <2>4, <4>1, IdleAssumption DEF TypeOK
    <3>4. QED
      BY <3>2, <3>3
  <2>8. /\ mIdleEnabled' \in BOOLEAN
        /\ mIdleEnabled' => mImap'
        /\ stream' \in {"closed", "ok", "broken", "cancelled"}
        /\ mImap' <=> stream' # "closed"
    <3>1. mImap' = TRUE \/ mImap' = FALSE
      BY <2>1
    <3>2. CASE mImap' = TRUE
      BY <2>2, <2>3, <3>2, Zenon
    <3>3. CASE mImap' = FALSE
      BY <2>2, <2>3, <3>3, Zenon
    <3>4. QED
      BY <3>1, <3>2, <3>3
  <2>9. QED
    BY <2>1, <2>5, <2>6, <2>7, <2>8, Zenon
<1>4. QED
  BY <1>1, <1>2, <1>3 DEF SelectIfNeeded

\* Every action keeps the variables in their types.
LEMMA TypeStep ==
  ASSUME IInv, Next
  PROVE  TypeOK'
<1>0. TypeOK /\ ControlInv /\ StreamInv
  BY DEF IInv
<1>1. ASSUME Begin PROVE TypeOK'
  <2>1. cur' \in Ops
    BY <1>0, <1>1, IdleAssumption DEF Begin, TypeOK, Ops
  <2>2. outcome' \in [Ops -> Outcomes]
    BY <1>0, <1>1, <2>1 DEF Begin, TypeOK, Outcomes
  <2>3. pc' \in {"next", "select"}
    BY <1>1 DEF Begin
  <2>4. folder' \in Folders /\ cur' \in 0..MaxOps
    BY <1>1, <2>1, IdleAssumption DEF Begin, Ops
  <2>5. QED
    BY <1>0, <1>1, <2>2, <2>3, <2>4 DEF Begin, TypeOK, session, channel, link
<1>2. ASSUME Select PROVE TypeOK'
  <2>1. PICK r \in Replies :
          /\ SelectIfNeeded(r)
          /\ (\/ r = "ok" /\ pc' = "prepare" /\ UNCHANGED outcome
              \/ r # "ok" /\ pc' = "next" /\ Ends("error"))
    BY <1>2 DEF Select
  <2>2. /\ pc = "select"
        /\ UNCHANGED <<cur, folder, mInterrupted, mSetupSuccess, main>>
    BY <1>2 DEF Select
  <2>3. cur \in Ops /\ folder \in Folders /\ (mImap <=> stream # "closed")
    BY <1>0, <2>2 DEF ControlInv, StreamInv, InIdle
  <2>4. outcome' \in [Ops -> Outcomes]
    <3>1. "error" \in Outcomes
      BY DEF Outcomes
    <3>2. QED
      BY <1>0, <2>1, <2>3, <3>1, EndsFacts DEF TypeOK
  <2>5. QED
    BY <1>0, <2>1, <2>2, <2>3, <2>4, SelectFacts DEF TypeOK
<1>3. ASSUME Prepare PROVE TypeOK'
  BY <1>0, <1>3 DEF Prepare, PrepareSuccess, TypeOK, Ops, N, Outcomes,
     ControlInv, InIdle, operation, session, channel, link
<1>4. ASSUME Prepared PROVE TypeOK'
  BY <1>0, <1>4 DEF Prepared, Ends, TypeOK, Ops, N, Outcomes, ControlInv,
     InIdle, operation, session, channel, link
<1>5. ASSUME Reselect PROVE TypeOK'
  <2>1. PICK r \in Replies :
          /\ SelectIfNeeded(r)
          /\ (\/ r = "ok" /\ pc' \in {"fetch", "enter"} /\ UNCHANGED outcome
              \/ r # "ok" /\ pc' = "unprepare" /\ Ends("error"))
    BY <1>5 DEF Reselect
  <2>2. /\ pc = "reselect"
        /\ UNCHANGED <<cur, folder, mInterrupted, mSetupSuccess, main>>
    BY <1>5 DEF Reselect
  <2>3. cur \in Ops /\ folder \in Folders /\ (mImap <=> stream # "closed")
    BY <1>0, <2>2 DEF ControlInv, StreamInv, InIdle
  <2>4. outcome' \in [Ops -> Outcomes]
    <3>1. "error" \in Outcomes
      BY DEF Outcomes
    <3>2. QED
      BY <1>0, <2>1, <2>3, <3>1, EndsFacts DEF TypeOK
  <2>5. QED
    BY <1>0, <2>1, <2>2, <2>3, <2>4, SelectFacts DEF TypeOK
<1>6. ASSUME Fetch PROVE TypeOK'
  <2>1. PICK r \in Replies : Reply(r) /\ Mark(r)
    BY <1>6 DEF Fetch
  <2>2. outcome' \in [Ops -> Outcomes] /\ pc' \in {"enter", "unprepare"}
    <3>1. cur \in Ops /\ {"error", "newMessage"} \subseteq Outcomes
      BY <1>0, <1>6 DEF Fetch, ControlInv, Outcomes
    <3>2. QED
      BY <1>0, <1>6, <3>1, EndsFacts DEF Fetch, TypeOK
  <2>3. srvIdle' \in BOOLEAN
    BY <1>0, <1>6, Zenon DEF Fetch, TypeOK
  <2>4. QED
    BY <1>0, <1>6, <2>1, <2>2, <2>3, ReplyFacts DEF Fetch, TypeOK, channel
<1>7. ASSUME Enter PROVE TypeOK'
  BY ZenonT(40), <1>0, <1>7 DEF Enter, Ends, TypeOK, Ops, N, Outcomes,
     ControlInv, InIdle, operation, session, channel, link
<1>8. ASSUME GoIdle PROVE TypeOK'
  <2>1. PICK r \in Replies : Reply(r) /\ Mark(r)
    BY <1>8 DEF GoIdle
  <2>2. outcome' \in [Ops -> Outcomes] /\ pc' \in {"wait", "done", "cleanup"}
    <3>1. cur \in Ops /\ {"error", "change"} \subseteq Outcomes
      BY <1>0, <1>8 DEF GoIdle, ControlInv, Outcomes
    <3>2. QED
      BY <1>0, <1>8, <3>1, EndsFacts DEF GoIdle, TypeOK
  <2>3. srvIdle' \in BOOLEAN
    BY <1>8, Zenon DEF GoIdle
  <2>4. QED
    BY <1>0, <1>8, <2>1, <2>2, <2>3, ReplyFacts DEF GoIdle, TypeOK, channel
<1>9. ASSUME WaitWoken PROVE TypeOK'
  BY ZenonT(40), <1>0, <1>9 DEF WaitWoken, Ends, TypeOK, Ops, N, Outcomes,
     ControlInv, InIdle, operation, session, channel, link
<1>10. ASSUME WaitEnds PROVE TypeOK'
  <2>1. outcome' \in [Ops -> Outcomes] /\ pc' \in {"done", "cleanup"}
    <3>1. cur \in Ops /\ {"change", "timeout", "error"} \subseteq Outcomes
      BY <1>0, <1>10 DEF WaitEnds, ControlInv, Outcomes
    <3>2. QED
      BY <1>0, <1>10, <3>1, EndsFacts DEF WaitEnds
  <2>2. /\ faults' \in 0..MaxFaults
        /\ stream' \in {"closed", "ok", "broken", "cancelled"}
    BY <1>0, <1>10, IdleAssumption DEF WaitEnds, TypeOK
  <2>3. mShouldDisconnect' \in BOOLEAN
    BY <1>0, <1>10, Zenon DEF WaitEnds, TypeOK
  <2>4. QED
    BY <1>0, <1>10, <2>1, <2>2, <2>3 DEF WaitEnds, TypeOK, channel
<1>11. ASSUME Done PROVE TypeOK'
  <2>1. PICK r \in Replies : Reply(r) /\ Mark(r)
    BY <1>11 DEF Done
  <2>2. outcome' \in [Ops -> Outcomes] /\ pc' \in {"cleanup"}
    <3>1. cur \in Ops /\ {"error"} \subseteq Outcomes
      BY <1>0, <1>11 DEF Done, ControlInv, Outcomes
    <3>2. QED
      BY <1>0, <1>11, <3>1, EndsFacts DEF Done, TypeOK
  <2>3. srvIdle' \in BOOLEAN
    <3>1. PICK q \in Replies : srvIdle' = (q \in Failures)
      BY <1>11 DEF Done
    <3>2. QED
      BY <3>1
  <2>4. QED
    BY <1>0, <1>11, <2>1, <2>2, <2>3, ReplyFacts DEF Done, TypeOK, channel
<1>12. ASSUME Cleanup PROVE TypeOK'
  BY <1>0, <1>12 DEF Cleanup, TypeOK, Ops, N, Outcomes, ControlInv, InIdle,
     operation, session, channel, link
<1>13. ASSUME Unprepare PROVE TypeOK'
  BY <1>0, <1>13 DEF Unprepare, TypeOK, Ops, N, Outcomes, ControlInv, InIdle,
     operation, session, channel, link
<1>14. ASSUME NEW o \in Ops, Interrupt(o) PROVE TypeOK'
  BY <1>0, <1>14 DEF Interrupt, TypeOK, Ops, N, Outcomes, ControlInv, InIdle,
     operation, session, channel, link
<1>15. ASSUME Disconnect PROVE TypeOK'
  BY <1>0, <1>15 DEF Disconnect, TypeOK, Ops, N, Outcomes, ControlInv,
     InIdle, operation, session, channel, link
<1>16. ASSUME UnsetupWaits PROVE TypeOK'
  BY <1>0, <1>16 DEF UnsetupWaits, TypeOK, Ops, N, Outcomes, ControlInv,
     InIdle, operation, session, channel, link
<1>17. ASSUME UnsetupTakes PROVE TypeOK'
  BY <1>0, <1>17 DEF UnsetupTakes, TypeOK, Ops, N, Outcomes, ControlInv,
     InIdle, operation, session, channel, link
<1>18. ASSUME UnsetupCloses PROVE TypeOK'
  BY <1>0, <1>18 DEF UnsetupCloses, TypeOK, Ops, N, Outcomes, ControlInv,
     InIdle, operation, session, channel, link
<1>19. ASSUME SpuriousWakeup PROVE TypeOK'
  BY <1>0, <1>19 DEF SpuriousWakeup, TypeOK, Ops, N, Outcomes, ControlInv,
     InIdle, operation, session, channel, link
<1>20. QED
  BY <1>1, <1>2, <1>3, <1>4, <1>5, <1>6, <1>7, <1>8, <1>9, <1>10, <1>11,
     <1>12, <1>13, <1>14, <1>15, <1>16, <1>17, <1>18, <1>19
     DEF Next, Worker, Unsetup

\* The flag of an idle in progress follows the connection thread; the main
\* thread disconnects only while that thread idles or waits for it.
LEMMA ControlStep ==
  ASSUME IInv, Next
  PROVE  ControlInv'
<1>0. TypeOK /\ ControlInv /\ StreamInv
  BY DEF IInv
<1>1. ASSUME Begin PROVE ControlInv'
  <2>1. cur' \in Ops
    BY <1>0, <1>1, IdleAssumption DEF Begin, TypeOK, Ops
  <2>2. pc' \in {"next", "select"}
    BY <1>1 DEF Begin
  <2>3. /\ main' = main /\ mIdleInProgress' = mIdleInProgress
        /\ pc = "next" /\ folder' \in Folders
    BY <1>1 DEF Begin, session
  <2>4. QED
    BY <1>0, <2>1, <2>2, <2>3 DEF ControlInv, InIdle
<1>2. ASSUME Select PROVE ControlInv'
  <2>1. PICK r \in Replies :
          /\ SelectIfNeeded(r)
          /\ (\/ r = "ok" /\ pc' = "prepare" /\ UNCHANGED outcome
              \/ r # "ok" /\ pc' = "next" /\ Ends("error"))
    BY <1>2 DEF Select
  <2>2. /\ pc = "select"
        /\ UNCHANGED <<cur, folder, mInterrupted, mSetupSuccess, main>>
    BY <1>2 DEF Select
  <2>3. cur \in Ops /\ folder \in Folders /\ (mImap <=> stream # "closed")
    BY <1>0, <2>2 DEF ControlInv, StreamInv, InIdle
  <2>4. QED
    BY <1>0, <2>1, <2>2, <2>3, SelectFacts DEF TypeOK, Ops, Outcomes,
        ControlInv, InIdle
<1>3. ASSUME Prepare PROVE ControlInv'
  BY <1>0, <1>3 DEF Prepare, PrepareSuccess, TypeOK, Ops, N, Outcomes,
     ControlInv, InIdle, operation, session, channel, link
<1>4. ASSUME Prepared PROVE ControlInv'
  BY <1>0, <1>4 DEF Prepared, Ends, TypeOK, Ops, N, Outcomes, ControlInv,
     InIdle, operation, session, channel, link
<1>5. ASSUME Reselect PROVE ControlInv'
  <2>1. PICK r \in Replies :
          /\ SelectIfNeeded(r)
          /\ (\/ r = "ok" /\ pc' \in {"fetch", "enter"} /\ UNCHANGED outcome
              \/ r # "ok" /\ pc' = "unprepare" /\ Ends("error"))
    BY <1>5 DEF Reselect
  <2>2. /\ pc = "reselect"
        /\ UNCHANGED <<cur, folder, mInterrupted, mSetupSuccess, main>>
    BY <1>5 DEF Reselect
  <2>3. cur \in Ops /\ folder \in Folders /\ (mImap <=> stream # "closed")
    BY <1>0, <2>2 DEF ControlInv, StreamInv, InIdle
  <2>4. QED
    BY <1>0, <2>1, <2>2, <2>3, SelectFacts DEF TypeOK, Ops, Outcomes,
        ControlInv, InIdle
<1>6. ASSUME Fetch PROVE ControlInv'
  BY <1>0, <1>6 DEF Fetch, Ends, Reply, Mark, TypeOK, Ops, N, Outcomes,
     ControlInv, InIdle, operation, session, channel, link
<1>7. ASSUME Enter PROVE ControlInv'
  BY <1>0, <1>7 DEF Enter, Ends, TypeOK, Ops, N, Outcomes, ControlInv,
     InIdle, operation, session, channel, link
<1>8. ASSUME GoIdle PROVE ControlInv'
  BY <1>0, <1>8 DEF GoIdle, Ends, Reply, Mark, TypeOK, Ops, N, Outcomes,
     ControlInv, InIdle, operation, session, channel, link
<1>9. ASSUME WaitWoken PROVE ControlInv'
  BY <1>0, <1>9 DEF WaitWoken, Ends, TypeOK, Ops, N, Outcomes, ControlInv,
     InIdle, operation, session, channel, link
<1>10. ASSUME WaitEnds PROVE ControlInv'
  BY <1>0, <1>10 DEF WaitEnds, Ends, TypeOK, Ops, N, Outcomes, ControlInv,
     InIdle, operation, session, channel, link
<1>11. ASSUME Done PROVE ControlInv'
  BY <1>0, <1>11 DEF Done, Ends, Reply, Mark, TypeOK, Ops, N, Outcomes,
     ControlInv, InIdle, operation, session, channel, link
<1>12. ASSUME Cleanup PROVE ControlInv'
  BY <1>0, <1>12 DEF Cleanup, TypeOK, Ops, N, Outcomes, ControlInv, InIdle,
     operation, session, channel, link
<1>13. ASSUME Unprepare PROVE ControlInv'
  BY <1>0, <1>13 DEF Unprepare, TypeOK, Ops, N, Outcomes, ControlInv, InIdle,
     operation, session, channel, link
<1>14. ASSUME NEW o \in Ops, Interrupt(o) PROVE ControlInv'
  BY <1>0, <1>14 DEF Interrupt, TypeOK, Ops, N, Outcomes, ControlInv, InIdle,
     operation, session, channel, link
<1>15. ASSUME Disconnect PROVE ControlInv'
  BY <1>0, <1>15 DEF Disconnect, TypeOK, Ops, N, Outcomes, ControlInv,
     InIdle, operation, session, channel, link
<1>16. ASSUME UnsetupWaits PROVE ControlInv'
  BY <1>0, <1>16 DEF UnsetupWaits, TypeOK, Ops, N, Outcomes, ControlInv,
     InIdle, operation, session, channel, link
<1>17. ASSUME UnsetupTakes PROVE ControlInv'
  BY <1>0, <1>17 DEF UnsetupTakes, TypeOK, Ops, N, Outcomes, ControlInv,
     InIdle, operation, session, channel, link
<1>18. ASSUME UnsetupCloses PROVE ControlInv'
  BY <1>0, <1>18 DEF UnsetupCloses, TypeOK, Ops, N, Outcomes, ControlInv,
     InIdle, operation, session, channel, link
<1>19. ASSUME SpuriousWakeup PROVE ControlInv'
  BY <1>0, <1>19 DEF SpuriousWakeup, TypeOK, Ops, N, Outcomes, ControlInv,
     InIdle, operation, session, channel, link
<1>20. QED
  BY <1>1, <1>2, <1>3, <1>4, <1>5, <1>6, <1>7, <1>8, <1>9, <1>10, <1>11,
     <1>12, <1>13, <1>14, <1>15, <1>16, <1>17, <1>18, <1>19
     DEF Next, Worker, Unsetup

\* The session is taken away, and its stream closed, only after the idle.
LEMMA StreamStep ==
  ASSUME IInv, Next
  PROVE  StreamInv'
<1>0. TypeOK /\ ControlInv /\ StreamInv
  BY DEF IInv
<1>1. ASSUME Begin PROVE StreamInv'
  BY <1>0, <1>1 DEF Begin, Ends, TypeOK, Ops, N, Outcomes, ControlInv,
     InIdle, StreamInv, operation, session, channel, link
<1>2. ASSUME Select PROVE StreamInv'
  <2>1. PICK r \in Replies :
          /\ SelectIfNeeded(r)
          /\ (\/ r = "ok" /\ pc' = "prepare" /\ UNCHANGED outcome
              \/ r # "ok" /\ pc' = "next" /\ Ends("error"))
    BY <1>2 DEF Select
  <2>2. /\ pc = "select"
        /\ UNCHANGED <<cur, folder, mInterrupted, mSetupSuccess, main>>
    BY <1>2 DEF Select
  <2>3. cur \in Ops /\ folder \in Folders /\ (mImap <=> stream # "closed")
    BY <1>0, <2>2 DEF ControlInv, StreamInv, InIdle
  <2>4. QED
    BY <1>0, <2>1, <2>2, <2>3, SelectFacts DEF TypeOK, Ops, Outcomes,
        ControlInv, InIdle, StreamInv
<1>3. ASSUME Prepare PROVE StreamInv'
  BY <1>0, <1>3 DEF Prepare, PrepareSuccess, TypeOK, Ops, N, Outcomes,
     ControlInv, InIdle, StreamInv, operation, session, channel, link
<1>4. ASSUME Prepared PROVE StreamInv'
  BY <1>0, <1>4 DEF Prepared, Ends, TypeOK, Ops, N, Outcomes, ControlInv,
     InIdle, StreamInv, operation, session, channel, link
<1>5. ASSUME Reselect PROVE StreamInv'
  <2>1. PICK r \in Replies :
          /\ SelectIfNeeded(r)
          /\ (\/ r = "ok" /\ pc' \in {"fetch", "enter"} /\ UNCHANGED outcome
              \/ r # "ok" /\ pc' = "unprepare" /\ Ends("error"))
    BY <1>5 DEF Reselect
  <2>2. /\ pc = "reselect"
        /\ UNCHANGED <<cur, folder, mInterrupted, mSetupSuccess, main>>
    BY <1>5 DEF Reselect
  <2>3. cur \in Ops /\ folder \in Folders /\ (mImap <=> stream # "closed")
    BY <1>0, <2>2 DEF ControlInv, StreamInv, InIdle
  <2>4. QED
    BY <1>0, <2>1, <2>2, <2>3, SelectFacts DEF TypeOK, Ops, Outcomes,
        ControlInv, InIdle, StreamInv
<1>6. ASSUME Fetch PROVE StreamInv'
  BY <1>0, <1>6 DEF Fetch, Ends, Reply, Mark, TypeOK, Ops, N, Outcomes,
     ControlInv, InIdle, StreamInv, operation, session, channel, link
<1>7. ASSUME Enter PROVE StreamInv'
  BY <1>0, <1>7 DEF Enter, Ends, TypeOK, Ops, N, Outcomes, ControlInv,
     InIdle, StreamInv, operation, session, channel, link
<1>8. ASSUME GoIdle PROVE StreamInv'
  BY <1>0, <1>8 DEF GoIdle, Ends, Reply, Mark, TypeOK, Ops, N, Outcomes,
     ControlInv, InIdle, StreamInv, operation, session, channel, link
<1>9. ASSUME WaitWoken PROVE StreamInv'
  BY <1>0, <1>9 DEF WaitWoken, Ends, TypeOK, Ops, N, Outcomes, ControlInv,
     InIdle, StreamInv, operation, session, channel, link
<1>10. ASSUME WaitEnds PROVE StreamInv'
  BY <1>0, <1>10 DEF WaitEnds, Ends, TypeOK, Ops, N, Outcomes, ControlInv,
     InIdle, StreamInv, operation, session, channel, link
<1>11. ASSUME Done PROVE StreamInv'
  BY <1>0, <1>11 DEF Done, Ends, Reply, Mark, TypeOK, Ops, N, Outcomes,
     ControlInv, InIdle, StreamInv, operation, session, channel, link
<1>12. ASSUME Cleanup PROVE StreamInv'
  BY <1>0, <1>12 DEF Cleanup, TypeOK, Ops, N, Outcomes, ControlInv, InIdle,
     StreamInv, operation, session, channel, link
<1>13. ASSUME Unprepare PROVE StreamInv'
  BY <1>0, <1>13 DEF Unprepare, TypeOK, Ops, N, Outcomes, ControlInv, InIdle,
     StreamInv, operation, session, channel, link
<1>14. ASSUME NEW o \in Ops, Interrupt(o) PROVE StreamInv'
  BY <1>0, <1>14 DEF Interrupt, TypeOK, Ops, N, Outcomes, ControlInv, InIdle,
     StreamInv, operation, session, channel, link
<1>15. ASSUME Disconnect PROVE StreamInv'
  BY <1>0, <1>15 DEF Disconnect, TypeOK, Ops, N, Outcomes, ControlInv,
     InIdle, StreamInv, operation, session, channel, link
<1>16. ASSUME UnsetupWaits PROVE StreamInv'
  BY <1>0, <1>16 DEF UnsetupWaits, TypeOK, Ops, N, Outcomes, ControlInv,
     InIdle, StreamInv, operation, session, channel, link
<1>17. ASSUME UnsetupTakes PROVE StreamInv'
  BY <1>0, <1>17 DEF UnsetupTakes, TypeOK, Ops, N, Outcomes, ControlInv,
     InIdle, StreamInv, operation, session, channel, link
<1>18. ASSUME UnsetupCloses PROVE StreamInv'
  BY <1>0, <1>18 DEF UnsetupCloses, TypeOK, Ops, N, Outcomes, ControlInv,
     InIdle, StreamInv, operation, session, channel, link
<1>19. ASSUME SpuriousWakeup PROVE StreamInv'
  BY <1>0, <1>19 DEF SpuriousWakeup, TypeOK, Ops, N, Outcomes, ControlInv,
     InIdle, StreamInv, operation, session, channel, link
<1>20. QED
  BY <1>1, <1>2, <1>3, <1>4, <1>5, <1>6, <1>7, <1>8, <1>9, <1>10, <1>11,
     <1>12, <1>13, <1>14, <1>15, <1>16, <1>17, <1>18, <1>19
     DEF Next, Worker, Unsetup

\* Whoever leaves idle() without DONE marks the connection.
LEMMA ServerStep ==
  ASSUME IInv, Next
  PROVE  ServerInv'
<1>0. TypeOK /\ ControlInv /\ StreamInv /\ ServerInv
  BY DEF IInv
<1>1. ASSUME Begin PROVE ServerInv'
  BY <1>0, <1>1 DEF Begin, Ends, TypeOK, Ops, N, Outcomes, ControlInv,
     InIdle, ServerInv, Failures, operation, session, channel, link
<1>2. ASSUME Select PROVE ServerInv'
  <2>1. PICK r \in Replies :
          /\ SelectIfNeeded(r)
          /\ (\/ r = "ok" /\ pc' = "prepare" /\ UNCHANGED outcome
              \/ r # "ok" /\ pc' = "next" /\ Ends("error"))
    BY <1>2 DEF Select
  <2>2. /\ pc = "select"
        /\ UNCHANGED <<cur, folder, mInterrupted, mSetupSuccess, main>>
    BY <1>2 DEF Select
  <2>3. cur \in Ops /\ folder \in Folders /\ (mImap <=> stream # "closed")
    BY <1>0, <2>2 DEF ControlInv, StreamInv, InIdle
  <2>4. QED
    BY <1>0, <2>1, <2>2, <2>3, SelectFacts DEF TypeOK, Ops, Outcomes,
        ControlInv, InIdle, ServerInv, Failures
<1>3. ASSUME Prepare PROVE ServerInv'
  BY <1>0, <1>3 DEF Prepare, PrepareSuccess, TypeOK, Ops, N, Outcomes,
     ControlInv, InIdle, ServerInv, Failures, operation, session, channel,
     link
<1>4. ASSUME Prepared PROVE ServerInv'
  BY <1>0, <1>4 DEF Prepared, Ends, TypeOK, Ops, N, Outcomes, ControlInv,
     InIdle, ServerInv, Failures, operation, session, channel, link
<1>5. ASSUME Reselect PROVE ServerInv'
  <2>1. PICK r \in Replies :
          /\ SelectIfNeeded(r)
          /\ (\/ r = "ok" /\ pc' \in {"fetch", "enter"} /\ UNCHANGED outcome
              \/ r # "ok" /\ pc' = "unprepare" /\ Ends("error"))
    BY <1>5 DEF Reselect
  <2>2. /\ pc = "reselect"
        /\ UNCHANGED <<cur, folder, mInterrupted, mSetupSuccess, main>>
    BY <1>5 DEF Reselect
  <2>3. cur \in Ops /\ folder \in Folders /\ (mImap <=> stream # "closed")
    BY <1>0, <2>2 DEF ControlInv, StreamInv, InIdle
  <2>4. QED
    BY <1>0, <2>1, <2>2, <2>3, SelectFacts DEF TypeOK, Ops, Outcomes,
        ControlInv, InIdle, ServerInv, Failures
<1>6. ASSUME Fetch PROVE ServerInv'
  BY <1>0, <1>6 DEF Fetch, Ends, Reply, Mark, TypeOK, Ops, N, Outcomes,
     ControlInv, InIdle, ServerInv, Failures, operation, session, channel,
     link
<1>7. ASSUME Enter PROVE ServerInv'
  BY <1>0, <1>7 DEF Enter, Ends, TypeOK, Ops, N, Outcomes, ControlInv,
     InIdle, ServerInv, Failures, operation, session, channel, link
<1>8. ASSUME GoIdle PROVE ServerInv'
  <2>1. PICK r \in Replies :
          /\ Mark(r)
          /\ srvIdle' = (r # "other")
          /\ \/ r = "ok" /\ pc' \in {"wait", "done"}
             \/ r # "ok" /\ pc' = "cleanup"
    BY <1>8 DEF GoIdle
  <2>2. CASE r = "ok" \/ r = "other"
    BY <2>1, <2>2 DEF ServerInv
  <2>3. CASE r \in Failures
    BY <2>1, <2>3 DEF ServerInv, Mark
  <2>4. QED
    BY <2>2, <2>3 DEF Replies, Failures
<1>9. ASSUME WaitWoken PROVE ServerInv'
  BY <1>0, <1>9 DEF WaitWoken, Ends, TypeOK, Ops, N, Outcomes, ControlInv,
     InIdle, ServerInv, Failures, operation, session, channel, link
<1>10. ASSUME WaitEnds PROVE ServerInv'
  BY <1>0, <1>10 DEF WaitEnds, Ends, TypeOK, Ops, N, Outcomes, ControlInv,
     InIdle, ServerInv, Failures, operation, session, channel, link
<1>11. ASSUME Done PROVE ServerInv'
  BY <1>0, <1>11 DEF Done, Ends, Reply, Mark, TypeOK, Ops, N, Outcomes,
     ControlInv, InIdle, ServerInv, Failures, operation, session, channel,
     link
<1>12. ASSUME Cleanup PROVE ServerInv'
  BY <1>0, <1>12 DEF Cleanup, TypeOK, Ops, N, Outcomes, ControlInv, InIdle,
     ServerInv, Failures, operation, session, channel, link
<1>13. ASSUME Unprepare PROVE ServerInv'
  BY <1>0, <1>13 DEF Unprepare, TypeOK, Ops, N, Outcomes, ControlInv, InIdle,
     ServerInv, Failures, operation, session, channel, link
<1>14. ASSUME NEW o \in Ops, Interrupt(o) PROVE ServerInv'
  BY <1>0, <1>14 DEF Interrupt, TypeOK, Ops, N, Outcomes, ControlInv, InIdle,
     ServerInv, Failures, operation, session, channel, link
<1>15. ASSUME Disconnect PROVE ServerInv'
  BY <1>0, <1>15 DEF Disconnect, TypeOK, Ops, N, Outcomes, ControlInv,
     InIdle, ServerInv, Failures, operation, session, channel, link
<1>16. ASSUME UnsetupWaits PROVE ServerInv'
  BY <1>0, <1>16 DEF UnsetupWaits, TypeOK, Ops, N, Outcomes, ControlInv,
     InIdle, ServerInv, Failures, operation, session, channel, link
<1>17. ASSUME UnsetupTakes PROVE ServerInv'
  BY <1>0, <1>17 DEF UnsetupTakes, TypeOK, Ops, N, Outcomes, ControlInv,
     InIdle, ServerInv, Failures, operation, session, channel, link
<1>18. ASSUME UnsetupCloses PROVE ServerInv'
  BY <1>0, <1>18 DEF UnsetupCloses, TypeOK, Ops, N, Outcomes, ControlInv,
     InIdle, ServerInv, Failures, operation, session, channel, link
<1>19. ASSUME SpuriousWakeup PROVE ServerInv'
  BY <1>0, <1>19 DEF SpuriousWakeup, TypeOK, Ops, N, Outcomes, ControlInv,
     InIdle, ServerInv, Failures, operation, session, channel, link
<1>20. QED
  BY <1>1, <1>2, <1>3, <1>4, <1>5, <1>6, <1>7, <1>8, <1>9, <1>10, <1>11,
     <1>12, <1>13, <1>14, <1>15, <1>16, <1>17, <1>18, <1>19
     DEF Next, Worker, Unsetup

\* The channel is there from prepare() to unprepare(), if not less.
LEMMA ChannelStep ==
  ASSUME IInv, Next
  PROVE  ChannelInv'
<1>0. TypeOK /\ ControlInv /\ StreamInv /\ ChannelInv
  BY DEF IInv
<1>1. ASSUME Begin PROVE ChannelInv'
  BY <1>0, <1>1 DEF Begin, Ends, TypeOK, Ops, N, Outcomes, ControlInv,
     InIdle, ChannelInv, SetUp, operation, session, channel, link
<1>2. ASSUME Select PROVE ChannelInv'
  <2>1. PICK r \in Replies :
          /\ SelectIfNeeded(r)
          /\ (\/ r = "ok" /\ pc' = "prepare" /\ UNCHANGED outcome
              \/ r # "ok" /\ pc' = "next" /\ Ends("error"))
    BY <1>2 DEF Select
  <2>2. /\ pc = "select"
        /\ UNCHANGED <<cur, folder, mInterrupted, mSetupSuccess, main>>
    BY <1>2 DEF Select
  <2>3. cur \in Ops /\ folder \in Folders /\ (mImap <=> stream # "closed")
    BY <1>0, <2>2 DEF ControlInv, StreamInv, InIdle
  <2>4. QED
    BY <1>0, <2>1, <2>2, <2>3, SelectFacts DEF TypeOK, Ops, Outcomes,
        ControlInv, InIdle, ChannelInv, SetUp
<1>3. ASSUME Prepare PROVE ChannelInv'
  BY <1>0, <1>3 DEF Prepare, PrepareSuccess, TypeOK, Ops, N, Outcomes,
     ControlInv, InIdle, ChannelInv, SetUp, operation, session, channel, link
<1>4. ASSUME Prepared PROVE ChannelInv'
  BY <1>0, <1>4 DEF Prepared, Ends, TypeOK, Ops, N, Outcomes, ControlInv,
     InIdle, ChannelInv, SetUp, operation, session, channel, link
<1>5. ASSUME Reselect PROVE ChannelInv'
  <2>1. PICK r \in Replies :
          /\ SelectIfNeeded(r)
          /\ (\/ r = "ok" /\ pc' \in {"fetch", "enter"} /\ UNCHANGED outcome
              \/ r # "ok" /\ pc' = "unprepare" /\ Ends("error"))
    BY <1>5 DEF Reselect
  <2>2. /\ pc = "reselect"
        /\ UNCHANGED <<cur, folder, mInterrupted, mSetupSuccess, main>>
    BY <1>5 DEF Reselect
  <2>3. cur \in Ops /\ folder \in Folders /\ (mImap <=> stream # "closed")
    BY <1>0, <2>2 DEF ControlInv, StreamInv, InIdle
  <2>4. QED
    BY <1>0, <2>1, <2>2, <2>3, SelectFacts DEF TypeOK, Ops, Outcomes,
        ControlInv, InIdle, ChannelInv, SetUp
<1>6. ASSUME Fetch PROVE ChannelInv'
  BY <1>0, <1>6 DEF Fetch, Ends, Reply, Mark, TypeOK, Ops, N, Outcomes,
     ControlInv, InIdle, ChannelInv, SetUp, operation, session, channel, link
<1>7. ASSUME Enter PROVE ChannelInv'
  BY <1>0, <1>7 DEF Enter, Ends, TypeOK, Ops, N, Outcomes, ControlInv,
     InIdle, ChannelInv, SetUp, operation, session, channel, link
<1>8. ASSUME GoIdle PROVE ChannelInv'
  BY <1>0, <1>8 DEF GoIdle, Ends, Reply, Mark, TypeOK, Ops, N, Outcomes,
     ControlInv, InIdle, ChannelInv, SetUp, operation, session, channel, link
<1>9. ASSUME WaitWoken PROVE ChannelInv'
  BY <1>0, <1>9 DEF WaitWoken, Ends, TypeOK, Ops, N, Outcomes, ControlInv,
     InIdle, ChannelInv, SetUp, operation, session, channel, link
<1>10. ASSUME WaitEnds PROVE ChannelInv'
  BY <1>0, <1>10 DEF WaitEnds, Ends, TypeOK, Ops, N, Outcomes, ControlInv,
     InIdle, ChannelInv, SetUp, operation, session, channel, link
<1>11. ASSUME Done PROVE ChannelInv'
  BY <1>0, <1>11 DEF Done, Ends, Reply, Mark, TypeOK, Ops, N, Outcomes,
     ControlInv, InIdle, ChannelInv, SetUp, operation, session, channel, link
<1>12. ASSUME Cleanup PROVE ChannelInv'
  BY <1>0, <1>12 DEF Cleanup, TypeOK, Ops, N, Outcomes, ControlInv, InIdle,
     ChannelInv, SetUp, operation, session, channel, link
<1>13. ASSUME Unprepare PROVE ChannelInv'
  BY <1>0, <1>13 DEF Unprepare, TypeOK, Ops, N, Outcomes, ControlInv, InIdle,
     ChannelInv, SetUp, operation, session, channel, link
<1>14. ASSUME NEW o \in Ops, Interrupt(o) PROVE ChannelInv'
  BY <1>0, <1>14 DEF Interrupt, TypeOK, Ops, N, Outcomes, ControlInv, InIdle,
     ChannelInv, SetUp, operation, session, channel, link
<1>15. ASSUME Disconnect PROVE ChannelInv'
  BY <1>0, <1>15 DEF Disconnect, TypeOK, Ops, N, Outcomes, ControlInv,
     InIdle, ChannelInv, SetUp, operation, session, channel, link
<1>16. ASSUME UnsetupWaits PROVE ChannelInv'
  BY <1>0, <1>16 DEF UnsetupWaits, TypeOK, Ops, N, Outcomes, ControlInv,
     InIdle, ChannelInv, SetUp, operation, session, channel, link
<1>17. ASSUME UnsetupTakes PROVE ChannelInv'
  BY <1>0, <1>17 DEF UnsetupTakes, TypeOK, Ops, N, Outcomes, ControlInv,
     InIdle, ChannelInv, SetUp, operation, session, channel, link
<1>18. ASSUME UnsetupCloses PROVE ChannelInv'
  BY <1>0, <1>18 DEF UnsetupCloses, TypeOK, Ops, N, Outcomes, ControlInv,
     InIdle, ChannelInv, SetUp, operation, session, channel, link
<1>19. ASSUME SpuriousWakeup PROVE ChannelInv'
  BY <1>0, <1>19 DEF SpuriousWakeup, TypeOK, Ops, N, Outcomes, ControlInv,
     InIdle, ChannelInv, SetUp, operation, session, channel, link
<1>20. QED
  BY <1>1, <1>2, <1>3, <1>4, <1>5, <1>6, <1>7, <1>8, <1>9, <1>10, <1>11,
     <1>12, <1>13, <1>14, <1>15, <1>16, <1>17, <1>18, <1>19
     DEF Next, Worker, Unsetup

\* An interrupt comes before prepare(), which then sets nothing up, or finds
\* the channel.
LEMMA HeardStep ==
  ASSUME IInv, Next
  PROVE  HeardInv'
<1>0. TypeOK /\ ControlInv /\ StreamInv /\ ChannelInv /\ HeardInv
  BY DEF IInv
<1>1. ASSUME Begin PROVE HeardInv'
  BY <1>0, <1>1 DEF Begin, Ends, TypeOK, Ops, N, Outcomes, ControlInv,
     InIdle, ChannelInv, SetUp, HeardInv, operation, session, channel, link
<1>2. ASSUME Select PROVE HeardInv'
  <2>1. PICK r \in Replies :
          /\ SelectIfNeeded(r)
          /\ (\/ r = "ok" /\ pc' = "prepare" /\ UNCHANGED outcome
              \/ r # "ok" /\ pc' = "next" /\ Ends("error"))
    BY <1>2 DEF Select
  <2>2. /\ pc = "select"
        /\ UNCHANGED <<cur, folder, mInterrupted, mSetupSuccess, main>>
    BY <1>2 DEF Select
  <2>3. cur \in Ops /\ folder \in Folders /\ (mImap <=> stream # "closed")
    BY <1>0, <2>2 DEF ControlInv, StreamInv, InIdle
  <2>4. QED
    BY <1>0, <2>1, <2>2, <2>3, SelectFacts DEF TypeOK, Ops, Outcomes,
        ControlInv, InIdle, ChannelInv, SetUp, HeardInv
<1>3. ASSUME Prepare PROVE HeardInv'
  BY <1>0, <1>3 DEF Prepare, PrepareSuccess, TypeOK, Ops, N, Outcomes,
     ControlInv, InIdle, ChannelInv, SetUp, HeardInv, operation, session,
     channel, link
<1>4. ASSUME Prepared PROVE HeardInv'
  BY <1>0, <1>4 DEF Prepared, Ends, TypeOK, Ops, N, Outcomes, ControlInv,
     InIdle, ChannelInv, SetUp, HeardInv, operation, session, channel, link
<1>5. ASSUME Reselect PROVE HeardInv'
  <2>1. PICK r \in Replies :
          /\ SelectIfNeeded(r)
          /\ (\/ r = "ok" /\ pc' \in {"fetch", "enter"} /\ UNCHANGED outcome
              \/ r # "ok" /\ pc' = "unprepare" /\ Ends("error"))
    BY <1>5 DEF Reselect
  <2>2. /\ pc = "reselect"
        /\ UNCHANGED <<cur, folder, mInterrupted, mSetupSuccess, main>>
    BY <1>5 DEF Reselect
  <2>3. cur \in Ops /\ folder \in Folders /\ (mImap <=> stream # "closed")
    BY <1>0, <2>2 DEF ControlInv, StreamInv, InIdle
  <2>4. QED
    BY <1>0, <2>1, <2>2, <2>3, SelectFacts DEF TypeOK, Ops, Outcomes,
        ControlInv, InIdle, ChannelInv, SetUp, HeardInv
<1>6. ASSUME Fetch PROVE HeardInv'
  BY <1>0, <1>6 DEF Fetch, Ends, Reply, Mark, TypeOK, Ops, N, Outcomes,
     ControlInv, InIdle, ChannelInv, SetUp, HeardInv, operation, session,
     channel, link
<1>7. ASSUME Enter PROVE HeardInv'
  BY <1>0, <1>7 DEF Enter, Ends, TypeOK, Ops, N, Outcomes, ControlInv,
     InIdle, ChannelInv, SetUp, HeardInv, operation, session, channel, link
<1>8. ASSUME GoIdle PROVE HeardInv'
  BY <1>0, <1>8 DEF GoIdle, Ends, Reply, Mark, TypeOK, Ops, N, Outcomes,
     ControlInv, InIdle, ChannelInv, SetUp, HeardInv, operation, session,
     channel, link
<1>9. ASSUME WaitWoken PROVE HeardInv'
  BY <1>0, <1>9 DEF WaitWoken, Ends, TypeOK, Ops, N, Outcomes, ControlInv,
     InIdle, ChannelInv, SetUp, HeardInv, operation, session, channel, link
<1>10. ASSUME WaitEnds PROVE HeardInv'
  BY <1>0, <1>10 DEF WaitEnds, Ends, TypeOK, Ops, N, Outcomes, ControlInv,
     InIdle, ChannelInv, SetUp, HeardInv, operation, session, channel, link
<1>11. ASSUME Done PROVE HeardInv'
  BY <1>0, <1>11 DEF Done, Ends, Reply, Mark, TypeOK, Ops, N, Outcomes,
     ControlInv, InIdle, ChannelInv, SetUp, HeardInv, operation, session,
     channel, link
<1>12. ASSUME Cleanup PROVE HeardInv'
  BY <1>0, <1>12 DEF Cleanup, TypeOK, Ops, N, Outcomes, ControlInv, InIdle,
     ChannelInv, SetUp, HeardInv, operation, session, channel, link
<1>13. ASSUME Unprepare PROVE HeardInv'
  BY <1>0, <1>13 DEF Unprepare, TypeOK, Ops, N, Outcomes, ControlInv, InIdle,
     ChannelInv, SetUp, HeardInv, operation, session, channel, link
<1>14. ASSUME NEW o \in Ops, Interrupt(o) PROVE HeardInv'
  BY <1>0, <1>14 DEF Interrupt, TypeOK, Ops, N, Outcomes, ControlInv, InIdle,
     ChannelInv, SetUp, HeardInv, operation, session, channel, link
<1>15. ASSUME Disconnect PROVE HeardInv'
  BY <1>0, <1>15 DEF Disconnect, TypeOK, Ops, N, Outcomes, ControlInv,
     InIdle, ChannelInv, SetUp, HeardInv, operation, session, channel, link
<1>16. ASSUME UnsetupWaits PROVE HeardInv'
  BY <1>0, <1>16 DEF UnsetupWaits, TypeOK, Ops, N, Outcomes, ControlInv,
     InIdle, ChannelInv, SetUp, HeardInv, operation, session, channel, link
<1>17. ASSUME UnsetupTakes PROVE HeardInv'
  BY <1>0, <1>17 DEF UnsetupTakes, TypeOK, Ops, N, Outcomes, ControlInv,
     InIdle, ChannelInv, SetUp, HeardInv, operation, session, channel, link
<1>18. ASSUME UnsetupCloses PROVE HeardInv'
  BY <1>0, <1>18 DEF UnsetupCloses, TypeOK, Ops, N, Outcomes, ControlInv,
     InIdle, ChannelInv, SetUp, HeardInv, operation, session, channel, link
<1>19. ASSUME SpuriousWakeup PROVE HeardInv'
  BY <1>0, <1>19 DEF SpuriousWakeup, TypeOK, Ops, N, Outcomes, ControlInv,
     InIdle, ChannelInv, SetUp, HeardInv, operation, session, channel, link
<1>20. QED
  BY <1>1, <1>2, <1>3, <1>4, <1>5, <1>6, <1>7, <1>8, <1>9, <1>10, <1>11,
     <1>12, <1>13, <1>14, <1>15, <1>16, <1>17, <1>18, <1>19
     DEF Next, Worker, Unsetup

-----------------------------------------------------------------------------
\* The invariant holds of every reachable state.
LEMMA Inductive == Spec => []IInv
<1>1. ASSUME Init PROVE IInv
  <2>1. cur \in 0..MaxOps /\ faults \in 0..MaxFaults
    BY <1>1, IdleAssumption DEF Init
  <2>2. TypeOK
    BY <1>1, <2>1, Zenon DEF Init, TypeOK, Outcomes
  <2>3. ControlInv /\ StreamInv /\ ServerInv /\ ChannelInv /\ HeardInv
    BY <1>1 DEF Init, ControlInv, StreamInv, ServerInv, ChannelInv, HeardInv,
       InIdle
  <2>4. QED
    BY <2>2, <2>3 DEF IInv
<1>2. IInv /\ [Next]_vars => IInv'
  <2>1. ASSUME IInv, Next PROVE IInv'
    BY <2>1, TypeStep, ControlStep, StreamStep, ServerStep, ChannelStep,
       HeardStep DEF IInv
  <2>2. ASSUME IInv, UNCHANGED vars PROVE IInv'
    BY <2>2 DEF IInv, TypeOK, ControlInv, StreamInv, ServerInv, ChannelInv,
       HeardInv, vars, operation, session, channel, link
  <2>3. QED
    BY <2>1, <2>2
<1>3. QED
  BY <1>1, <1>2, PTL DEF Spec

\* Every variable keeps its type, for any number of operations and faults.
THEOREM IdleTypes == Spec => []TypeOK
<1>1. IInv => TypeOK
  BY DEF IInv
<1>2. QED
  BY <1>1, Inductive, PTL

\* unsetup() does not free the libetpan session, or close its stream, under
\* a connection thread that idles on it.
THEOREM IdleOutlivesNoSession == Spec => []TeardownWaits
<1>1. IInv => TeardownWaits
  BY DEF IInv, TeardownWaits, ControlInv, StreamInv, InIdle
<1>2. QED
  BY <1>1, Inductive, PTL

\* A connection the server still believes to idle is marked for replacement.
THEOREM NoCommandToAnIdlingServer == Spec => []IdleConnectionIsDropped
<1>1. IInv => IdleConnectionIsDropped
  BY DEF IInv, IdleConnectionIsDropped, ControlInv, ServerInv, InIdle
<1>2. QED
  BY <1>1, Inductive, PTL

\* Every channel that was set up is taken down before the next operation.
THEOREM ChannelsAreTakenDown == Spec => []SetupIsUndone
<1>1. IInv => SetupIsUndone
  BY DEF IInv, SetupIsUndone, ChannelInv, SetUp, InIdle
<1>2. QED
  BY <1>1, Inductive, PTL

\* No interrupt is lost, whenever it comes, on a connection with a channel.
THEOREM NoInterruptIsLost == Spec => []InterruptIsHeard
<1>1. IInv => InterruptIsHeard
  BY DEF IInv, InterruptIsHeard, HeardInv
<1>2. QED
  BY <1>1, Inductive, PTL
=============================================================================
