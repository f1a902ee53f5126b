---------------------------- MODULE MCSequential ----------------------------
(***************************************************************************)
(* The parts that have one actor of their own and share nothing with each  *)
(* other: index sets, a POP session, an NNTP session and the download of   *)
(* an attachment.  A behaviour is one of the part chosen at the beginning, *)
(* with the others at rest.                                                *)
(***************************************************************************)
EXTENDS MCIndexSet

CONSTANTS Messages, MaxQueued, Groups, MaxSize, chunkSize, maxRetries

VARIABLES
  part,
  mPop, popStream, popState, popQueue, popOp, popAt, popError,
  box, numbers, marked, known, fresh, acts,
  mNNTP, nntpStream, nntpState, nntpOp, nntpAt, nntpError, group, ignored, read,
  size, estimatedSize, atom, offset, nRetries, remaining, file, error, at,
  shortRead, flushFailed

popAll == <<mPop, popStream, popState, popQueue, popOp, popAt, popError, box,
            numbers, marked, known, fresh, acts>>
nntpAll == <<mNNTP, nntpStream, nntpState, nntpOp, nntpAt, nntpError, group,
             ignored, read>>
downloadAll == <<size, estimatedSize, atom, offset, nRetries, remaining, file,
                 error, at, shortRead, flushFailed>>

Pop == INSTANCE PopSession WITH
         stream <- popStream, mState <- popState, queue <- popQueue,
         op <- popOp, at <- popAt, pError <- popError

Nntp == INSTANCE NntpSession WITH
          stream <- nntpStream, mState <- nntpState, op <- nntpOp,
          at <- nntpAt, pError <- nntpError

Download == INSTANCE AttachmentDownload WITH group <- atom

MCInit ==
  /\ part \in {"indexes", "pop", "nntp", "download"}
  /\ Init /\ Nntp!Init /\ Download!Init
  /\ Pop!Init
  /\ part # "pop" => box = <<>>

Indexes_Next == part = "indexes" /\ Next
                /\ UNCHANGED <<part, popAll, nntpAll, downloadAll>>
Pop_Next == part = "pop" /\ Pop!Next
            /\ UNCHANGED <<part, vars, nntpAll, downloadAll>>
Nntp_Next == part = "nntp" /\ Nntp!Next
             /\ UNCHANGED <<part, vars, popAll, downloadAll>>
Download_Next == part = "download" /\ Download!Next
                 /\ UNCHANGED <<part, vars, popAll, nntpAll>>

MCNext == Indexes_Next \/ Pop_Next \/ Nntp_Next \/ Download_Next

MCSpec == MCInit /\ [][MCNext]_<<part, vars, popAll, nntpAll, downloadAll>>

-----------------------------------------------------------------------------
\* POPSession acts on the messages the client listed (PopSession.tla).
ActsOnWhatWasListed == Pop!ActsOnWhatWasListed

\* Articles come from the group they were asked of (NntpSession.tla).
ReadsTheGroupAsked == Nntp!ReadsTheGroupAsked

\* The file is the part it is said to be (AttachmentDownload.tla).
FileIsThePart == Download!FileIsThePart
=============================================================================
