------------------------- MODULE AttachmentDownload -------------------------
(***************************************************************************)
(* An attachment fetched by chunks into a file: the loop of                *)
(* fetchMessageAttachmentToFileByChunksByUID() and the DataStreamDecoder   *)
(* it feeds.  A chunk may be shorter than asked for, the size announced    *)
(* for the part may be wrong or missing, a fetch may fail and be tried     *)
(* again, and a write, or closing the file, may fail.                      *)
(***************************************************************************)
EXTENDS Integers, Sequences

CONSTANTS
  MaxSize,     \* the longest part, a bound
  chunkSize,   \* what is asked for at a time
  maxRetries   \* 3 in the code

VARIABLES
  size,           \* of the part, as it is encoded
  estimatedSize,  \* what BODYSTRUCTURE said it is, 0 when nothing
  group,          \* what decodes together: 1 when nothing is encoded
  offset,
  nRetries,
  remaining,      \* mRemainingData: received, not a whole group yet
  file,           \* what was decoded and given to fwrite()
  error,
  at,             \* where the loop is
  shortRead,      \* a chunk inside the part was short: history
  flushFailed     \* the last write, or closing the file, failed: history

part == <<size, estimatedSize, group>>
decoder == <<remaining, file>>
vars == <<part, offset, nRetries, decoder, error, at, shortRead, flushFailed>>

\* The part itself: its units are numbered.
Content(n) == [i \in 1..n |-> i]

Errors == {"None", "Connection", "Parse", "File", "Other"}

TypeOK ==
  /\ size \in 0..MaxSize /\ estimatedSize \in 0..MaxSize + 1
  /\ group \in Nat \ {0}
  /\ offset \in 0..size /\ nRetries \in 0..maxRetries
  /\ remaining \in Seq(1..size) /\ file \in Seq(1..size)
  /\ error \in Errors
  /\ at \in {"fetch", "flush", "over"}
  /\ shortRead \in BOOLEAN /\ flushFailed \in BOOLEAN

\* No part is being fetched.
Init ==
  /\ size = 0 /\ estimatedSize = 0 /\ group = 1
  /\ offset = 0 /\ nRetries = 0
  /\ remaining = <<>> /\ file = <<>>
  /\ error = "None" /\ at = "over"
  /\ shortRead = FALSE /\ flushFailed = FALSE

\* A call: any part, whatever was announced for it, with a new decoder.
Begin ==
  /\ at = "over" /\ at' = "fetch"
  /\ size' \in 0..MaxSize
  /\ estimatedSize' \in 0..MaxSize + 1
  /\ group' \in 1..2
  /\ offset' = 0 /\ nRetries' = 0
  /\ remaining' = <<>> /\ file' = <<>>
  /\ error' = "None"
  /\ shortRead' = FALSE /\ flushFailed' = FALSE

\* What appendData() has to decode: the rest of the last chunk, and this one.
Undecoded(data) == remaining \o data

\* MCDecodeData() of a part of the data: the whole groups, and the rest.
Whole(s) == SubSeq(s, 1, Len(s) - (Len(s) % group))
Rest(s) == SubSeq(s, Len(s) - (Len(s) % group) + 1, Len(s))

\* Mutant: a short chunk is taken for the last whatever was announced.
EndOfPart_AnyShort(received, next) == received < chunkSize

\* "Estimated size may be incorrect.  Also, server may return chunk with size
\* less than requested."
EndOfPart(received, next) ==
  \/ estimatedSize > 0 /\ estimatedSize <= next /\ received # chunkSize
  \/ estimatedSize = 0 /\ received < chunkSize

\* appendData(), and whether the loop goes on.
AppendData(data) ==
  LET s == Undecoded(data)
      next == offset + Len(data)
  IN
  \/ /\ file' = file \o Whole(s)
     /\ remaining' = Rest(s)
     /\ offset' = next
     /\ at' = IF EndOfPart(Len(data), next) THEN "flush" ELSE "fetch"
     /\ UNCHANGED error
  \/ /\ Whole(s) # <<>>
     /\ error' = "File" /\ at' = "over"
     /\ UNCHANGED <<decoder, offset>>

\* A fetch that succeeds, with data or at the end of the part.
Fetched ==
  /\ at = "fetch"
  /\ nRetries' = 0
  /\ IF offset >= size
     THEN /\ at' = "flush"
          /\ UNCHANGED <<offset, decoder, error, shortRead>>
     ELSE \E n \in 1..chunkSize :
            /\ offset + n <= size
            /\ AppendData(SubSeq(Content(size), offset + 1, offset + n))
            /\ shortRead' = (shortRead \/ (n < chunkSize /\ offset + n < size))
  /\ UNCHANGED <<part, flushFailed>>

\* A fetch that fails: tried again if the connection may have been at fault.
Failed ==
  /\ at = "fetch"
  /\ \E why \in {"Connection", "Parse", "Other"} :
       IF why # "Other" /\ nRetries < maxRetries
       THEN nRetries' = nRetries + 1 /\ UNCHANGED <<error, at>>
       ELSE error' = why /\ at' = "over" /\ UNCHANGED nRetries
  /\ UNCHANGED <<part, offset, decoder, shortRead, flushFailed>>

\* flushData(), whose result is not looked at.  The file, if anything was
\* written, is closed there when something remained, else in the destructor:
\* what the C library still had of it may be lost then, unreported.
Flush ==
  /\ at = "flush" /\ at' = "over"
  /\ \/ /\ remaining # <<>>
        /\ flushFailed' = TRUE /\ UNCHANGED decoder
     \/ /\ file' = file \o remaining /\ remaining' = <<>>
        /\ flushFailed' \in BOOLEAN
        /\ flushFailed' => file' # <<>>
  /\ UNCHANGED <<part, offset, nRetries, error, shortRead>>

Next == Begin \/ Fetched \/ Failed \/ Flush

Spec == Init /\ [][Next]_vars

-----------------------------------------------------------------------------
(* Properties.                                                             *)

\* Whatever is retried, what was written and what waits to be decoded is the
\* beginning of the part: nothing twice, nothing left out, in order.
FileIsPrefix ==
  /\ file \o remaining = SubSeq(Content(size), 1, offset)
  /\ Len(remaining) < group \/ at = "over"

\* A download that reports success is complete, unless the last write or
\* the close failed, or a chunk was short while what was announced for the
\* part did not tell that more had to come.
SuccessMeansComplete ==
  at = "over" /\ error = "None" =>
    \/ file = Content(size)
    \/ flushFailed
    \/ shortRead /\ estimatedSize < size

\* The file is the part it is said to be.
FileIsThePart == FileIsPrefix /\ SuccessMeansComplete
=============================================================================
