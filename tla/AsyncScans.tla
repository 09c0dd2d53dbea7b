----------------------------- MODULE AsyncScans -----------------------------
(***************************************************************************)
(* The free functions of async.cpp that run a scan or reads in the         *)
(* background, for one caller that holds the future, and the scan of the   *)
(* executable regions (dma.cpp), which runs in the caller.  The range is a *)
(* sequence of pieces: 1 MB chunks, the regions of a list, the bytes of a  *)
(* read.  What DMA::find_signature or DMA::read answers for a piece is     *)
(* fixed by the call: nothing, the pattern (or the byte), or an exception. *)
(***************************************************************************)
EXTENDS Naturals, Sequences

CONSTANTS
  MaxPieces,    \* the most pieces of a call
  LastSize      \* the last chunk, in parts of a whole chunk of Whole parts
Whole == 2

ASSUME AsyncAssumption == MaxPieces \in Nat \ {0} /\ LastSize \in 1 .. Whole

VARIABLES
  job,        \* the call: kind and pieces
  piece,      \* the piece in work
  done_of,    \* kind "regions": what each region's own future holds
  cancelled,  \* *cancel_flag
  processed,  \* kind "progress": processed
  reports,    \* history: the last report of the callback, and whether one fell back
  outcome     \* the future

async_vars == <<job, piece, done_of, cancelled, processed, reports, outcome>>

Kinds == {"cancellable", "progress", "executable", "regions", "read"}
Pieces == {"absent", "present", "throws"}
NoJob == [kind |-> "none", pieces |-> <<>>]
Pending == [state |-> "pending", at |-> 0]
Future(state, at) == [state |-> state, at |-> at]

AsyncInit ==
  /\ job = NoJob
  /\ piece = 1
  /\ done_of = <<>>
  /\ cancelled = FALSE
  /\ processed = 0
  /\ reports = [last |-> 0, fell |-> FALSE]
  /\ outcome = Pending

Launch(kind, pieces) ==
  /\ job = NoJob
  /\ job' = [kind |-> kind, pieces |-> pieces]
  /\ done_of' = IF kind = "regions" THEN [i \in DOMAIN pieces |-> "pending"] ELSE <<>>
  /\ UNCHANGED <<piece, cancelled, processed, reports, outcome>>

SizeOf(i) == IF i = Len(job.pieces) THEN LastSize ELSE Whole
TotalSize == Whole * (Len(job.pieces) - 1) + LastSize

Ended == piece > Len(job.pieces)
InOrder == job.kind \in {"cancellable", "progress", "executable"} /\ outcome = Pending

\* The callback with an amount; other kinds have none.
Report(amount) ==
  reports' = IF job.kind # "progress" THEN reports
             ELSE [last |-> amount, fell |-> reports.fell \/ amount < reports.last]

\* update_interval_ms has passed when a chunk begins.
ReportProgress ==
  /\ job.kind = "progress" /\ outcome = Pending /\ ~Ended
  /\ Report(processed)
  /\ UNCHANGED <<job, piece, done_of, cancelled, processed, outcome>>

\* Mutant of ScanPiece: the search goes on after a match and keeps the last one.
ScanPieceOn ==
  /\ InOrder /\ ~Ended
  /\ ~(job.kind = "cancellable" /\ cancelled)
  /\ piece' = piece + 1
  /\ outcome' = IF job.pieces[piece] = "throws" THEN Future("exception", piece)
                ELSE IF job.pieces[piece] = "present" /\ piece = Len(job.pieces)
                THEN Future("value", piece) ELSE Pending
  /\ UNCHANGED <<job, done_of, cancelled, processed, reports>>

\* A chunk is scanned: a match or an exception ends the loop.
ScanPiece ==
  LET found == job.pieces[piece] IN
  /\ InOrder /\ ~Ended
  /\ ~(job.kind = "cancellable" /\ cancelled)
  /\ outcome' = CASE found = "present" -> Future("value", piece)
                  [] found = "throws" -> Future("exception", piece)
                  [] OTHER -> Pending
  /\ piece' = IF found = "absent" THEN piece + 1 ELSE piece
  /\ processed' = IF found = "absent" /\ job.kind = "progress"
                    THEN processed + SizeOf(piece) ELSE processed
  /\ IF found = "present" THEN Report(TotalSize) ELSE UNCHANGED reports
  /\ UNCHANGED <<job, done_of, cancelled>>

\* The flag is seen before a chunk.
StopCancelled ==
  /\ InOrder /\ ~Ended
  /\ job.kind = "cancellable" /\ cancelled
  /\ outcome' = Future("value", 0)
  /\ UNCHANGED <<job, piece, done_of, cancelled, processed, reports>>

\* The loop ends without a match.
FinishScan ==
  /\ InOrder /\ Ended
  /\ outcome' = Future("value", 0)
  /\ Report(TotalSize)
  /\ UNCHANGED <<job, piece, done_of, cancelled, processed>>

\* AsyncResult::cancel
CancelJob ==
  /\ job.kind = "cancellable"
  /\ cancelled' = TRUE
  /\ UNCHANGED <<job, piece, done_of, processed, reports, outcome>>

\* read_multiple_async, for one address: byte by byte; an exception empties the buffer.
ReadByte ==
  /\ job.kind = "read" /\ outcome = Pending
  /\ IF Ended \/ job.pieces[piece] = "throws"
       THEN /\ outcome' = Future("value", IF Ended THEN Len(job.pieces) ELSE 0)
            /\ UNCHANGED piece
       ELSE piece' = piece + 1 /\ UNCHANGED outcome
  /\ UNCHANGED <<job, done_of, cancelled, processed, reports>>

\* find_signature_parallel_regions: each region has a future of its own,
RegionDone(i) ==
  /\ job.kind = "regions" /\ done_of[i] = "pending"
  /\ done_of' = [done_of EXCEPT ![i] = job.pieces[i]]
  /\ UNCHANGED <<job, piece, cancelled, processed, reports, outcome>>

\* and the futures are asked in the order of the regions.  The answer is out when the
\* vector of futures has been destroyed, and with it every region's thread joined.
RegionsCollect ==
  /\ job.kind = "regions" /\ outcome = Pending
  /\ IF ~Ended /\ done_of[piece] = "absent" THEN piece' = piece + 1 /\ UNCHANGED outcome
     ELSE /\ \A i \in DOMAIN done_of : done_of[i] # "pending"
          /\ outcome' = IF Ended THEN Future("value", 0)
                        ELSE IF done_of[piece] = "present" THEN Future("value", piece)
                        ELSE Future("exception", piece)
          /\ UNCHANGED piece
  /\ UNCHANGED <<job, done_of, cancelled, processed, reports>>

AsyncNext ==
  \/ \E kind \in Kinds, n \in 1 .. MaxPieces :
       \E pieces \in [1 .. n -> IF kind = "read" THEN {"present", "throws"} ELSE Pieces] :
         Launch(kind, pieces)
  \/ ReportProgress \/ ScanPiece \/ StopCancelled \/ FinishScan \/ CancelJob
  \/ ReadByte
  \/ \E i \in DOMAIN done_of : RegionDone(i)
  \/ RegionsCollect

AsyncSpec == AsyncInit /\ [][AsyncNext]_async_vars

-----------------------------------------------------------------------------
\* What a future delivers: the first piece that holds the pattern, an exception only if
\* one comes before it, "not found" only if there is none or the scan was cancelled, all
\* the bytes of a read or nothing.
AsyncAnswers ==
  outcome # Pending =>
    LET first(set) == {i \in DOMAIN job.pieces :
                         job.pieces[i] \in set /\ \A j \in 1 .. (i - 1) : job.pieces[j] \notin set} IN
    IF job.kind = "read"
      THEN outcome.at = IF "throws" \in {job.pieces[i] : i \in DOMAIN job.pieces}
                          THEN 0 ELSE Len(job.pieces)
      ELSE IF outcome.at = 0
      THEN cancelled \/ first({"present", "throws"}) = {}
      ELSE /\ outcome.at \in first({"present", "throws"})
           /\ outcome.state = "value" <=> job.pieces[outcome.at] = "present"

\* The progress a callback is told never falls, and ends with the whole of the range
\* however the last, shorter chunk is counted, unless the scan throws.
ProgressRises ==
  job.kind = "progress" =>
    /\ ~reports.fell /\ reports.last <= TotalSize
    /\ outcome.state = "value" => reports.last = TotalSize

\* Both: the answer, and what the caller is told on the way to it.
AsyncSound == AsyncAnswers /\ ProgressRises
=============================================================================
