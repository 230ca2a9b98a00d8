------------------------------ MODULE PoolReader ------------------------------
(***************************************************************************)
(* ReadPool(in, linesInBatch, queue) (io.cpp): the calling thread reads   *)
(* the text in batches of linesInBatch lines and submits one TBatchParser *)
(* task per batch to the thread queue (NThreading::Async); when the text  *)
(* is exhausted it waits on the futures in submission order and appends  *)
(* each batch's columns to the result.  A task parses its lines on its   *)
(* own, checking each line's column count against the first line of its  *)
(* batch; the calling thread checks each batch's column count against    *)
(* the result's.  An exception in a task is rethrown by GetValue.         *)
(*                                                                         *)
(* The calling thread's steps are ReadBatch, WaitNext and Finish; each    *)
(* task is one RunBatch step, and tasks run in any order, interleaved    *)
(* with the reading.  Files and tokens are those of PoolReaderSpec.       *)
(***************************************************************************)
EXTENDS Integers, SequencesExt, Functions

CONSTANTS
    MaxLines,   \* lines of a file
    MaxWidth,   \* tokens of a line
    MaxBatch    \* largest linesInBatch

VARIABLES
    text,           \* the shape of the text behind the input stream
    linesInBatch,   \* ReadPool's linesInBatch
    lineNo,         \* the number of the next line to read
    readDone,       \* the reading loop has met the end of the text
    futures,        \* one [first, count, done, value] per batch submitted
    waited,         \* futures whose value the calling thread has appended
    result,         \* the columns appended so far
    status,         \* "reading", "ok" or "failed"
    error           \* the exception ReadPool ends with

vars == <<text, linesInBatch, lineNo, readDone, futures, waited, result, status, error>>

Sequential == INSTANCE PoolReaderSpec
    WITH pool <- IF status = "ok" THEN result ELSE <<>>

Bad == Sequential!Bad

\* The lines the input stream yields.
file == Sequential!FileOf(text)

\* An exception: a token that is not a number ("parse"), a line whose
\* column count differs from its batch's first line ("columns"), both with
\* the line number; or a batch whose column count differs from the
\* result's ("count"), reported with the two sizes and no line (line 0).
NoError == [kind |-> "none", line |-> 0]

NoValue == [ok |-> FALSE, cols |-> <<>>, err |-> NoError]

\* Without the Y_ENSURE on the column count of later lines.
BatchParseNoCountCheck(first, count) ==
    LET step(acc, i) ==
            LET line == file[first + i - 1]
            IN  IF ~acc.ok THEN acc
                ELSE IF Bad \in Range(line)
                   THEN [ok |-> FALSE, cols |-> <<>>,
                         err |-> [kind |-> "parse", line |-> first + i - 1]]
                ELSE IF acc.cols = <<>>
                   THEN [acc EXCEPT !.cols = [c \in DOMAIN line |-> <<line[c]>>]]
                ELSE [acc EXCEPT !.cols = [c \in DOMAIN acc.cols |->
                         IF c <= Len(line) THEN Append(acc.cols[c], line[c])
                         ELSE acc.cols[c]]]
    IN  FoldLeft(step, [ok |-> TRUE, cols |-> <<>>, err |-> NoError], [i \in 1 .. count |-> i])

(***************************************************************************)
(* TBatchParser::operator(): every line in order, curLine its number in  *)
(* the file.  A token that does not parse ends the batch; the first line *)
(* sizes the result; a later line of another size ends the batch.        *)
(***************************************************************************)
BatchParse(first, count) ==
    LET step(acc, i) ==
            LET line == file[first + i - 1]
                fail(kind) == [ok |-> FALSE, cols |-> <<>>,
                               err |-> [kind |-> kind, line |-> first + i - 1]]
            IN  IF ~acc.ok THEN acc
                ELSE IF Bad \in Range(line) THEN fail("parse")
                ELSE IF acc.cols = <<>>
                   THEN [acc EXCEPT !.cols = [c \in DOMAIN line |-> <<line[c]>>]]
                ELSE IF Len(acc.cols) # Len(line) THEN fail("columns")
                ELSE [acc EXCEPT !.cols = [c \in DOMAIN line |-> Append(acc.cols[c], line[c])]]
    IN  FoldLeft(step, [ok |-> TRUE, cols |-> <<>>, err |-> NoError], [i \in 1 .. count |-> i])

Init ==
    /\ text \in Sequential!Texts
    /\ linesInBatch \in 1 .. MaxBatch
    /\ lineNo = 1
    /\ readDone = FALSE
    /\ futures = <<>>
    /\ waited = 0
    /\ result = <<>>
    /\ status = "reading"
    /\ error = NoError

\* lineNo advanced by linesInBatch rather than by the lines read.
ReadBatchFullStride ==
    /\ ~readDone
    /\ LET count == IF Len(file) - lineNo + 1 < linesInBatch
                       THEN Len(file) - lineNo + 1 ELSE linesInBatch
       IN  IF count = 0
              THEN readDone' = TRUE /\ UNCHANGED <<lineNo, futures>>
              ELSE /\ futures' = Append(futures, [first |-> lineNo, count |-> count,
                                                  done |-> FALSE, value |-> NoValue])
                   /\ lineNo' = lineNo + linesInBatch
                   /\ UNCHANGED readDone
    /\ UNCHANGED <<text, linesInBatch, waited, result, status, error>>

\* One pass of the reading loop: up to linesInBatch lines; none left ends
\* the loop, otherwise the batch is submitted.
ReadBatch ==
    /\ ~readDone
    /\ LET count == IF Len(file) - lineNo + 1 < linesInBatch
                       THEN Len(file) - lineNo + 1 ELSE linesInBatch
       IN  IF count = 0
              THEN readDone' = TRUE /\ UNCHANGED <<lineNo, futures>>
              ELSE /\ futures' = Append(futures, [first |-> lineNo, count |-> count,
                                                  done |-> FALSE, value |-> NoValue])
                   /\ lineNo' = lineNo + count
                   /\ UNCHANGED readDone
    /\ UNCHANGED <<text, linesInBatch, waited, result, status, error>>

\* A task whose exception never reaches its future.
RunBatchLost(i) ==
    /\ ~futures[i].done
    /\ BatchParse(futures[i].first, futures[i].count).ok
    /\ futures' = [futures EXCEPT ![i].done = TRUE,
                                  ![i].value = BatchParse(futures[i].first, futures[i].count)]
    /\ UNCHANGED <<text, linesInBatch, lineNo, readDone, waited, result, status, error>>

\* A pool thread runs the task of batch i; its value, or its exception,
\* is stored in the future.
RunBatch(i) ==
    /\ ~futures[i].done
    /\ futures' = [futures EXCEPT ![i].done = TRUE,
                                  ![i].value = BatchParse(futures[i].first, futures[i].count)]
    /\ UNCHANGED <<text, linesInBatch, lineNo, readDone, waited, result, status, error>>

\* Wait() and GetValue() on the next future, then the column-count check
\* and the append.
WaitNext ==
    /\ readDone
    /\ status = "reading"
    /\ waited < Len(futures)
    /\ futures[waited + 1].done
    /\ LET data == futures[waited + 1].value
       IN  IF ~data.ok
              THEN /\ status' = "failed"
                   /\ error' = data.err
                   /\ UNCHANGED <<waited, result>>
           ELSE IF result # <<>> /\ Len(result) # Len(data.cols)
              THEN /\ status' = "failed"
                   /\ error' = [kind |-> "count", line |-> 0]
                   /\ UNCHANGED <<waited, result>>
           ELSE /\ result' = IF result = <<>> THEN data.cols
                             ELSE [c \in DOMAIN result |-> result[c] \o data.cols[c]]
                /\ waited' = waited + 1
                /\ UNCHANGED <<status, error>>
    /\ UNCHANGED <<text, linesInBatch, lineNo, readDone, futures>>

\* Every future appended: ReadPool returns the result.
Finish ==
    /\ readDone
    /\ status = "reading"
    /\ waited = Len(futures)
    /\ status' = "ok"
    /\ UNCHANGED <<text, linesInBatch, lineNo, readDone, futures, waited, result, error>>

CallingThread == ReadBatch \/ WaitNext \/ Finish

Next ==
    \/ CallingThread
    \/ \E i \in DOMAIN futures : RunBatch(i)

(***************************************************************************)
(* The calling thread runs while it can, and the queue's threads keep    *)
(* running submitted tasks while one is pending (TMtpQueue started with  *)
(* 16 threads and an unbounded queue): weak fairness of each.  As a task *)
(* once run is never run again and there are finitely many, every task  *)
(* is run in the end.                                                     *)
(***************************************************************************)
Spec ==
    /\ Init /\ [][Next]_vars
    /\ WF_vars(CallingThread)
    /\ WF_vars(\E i \in DOMAIN futures : RunBatch(i))

-----------------------------------------------------------------------------

TypeOK ==
    /\ text \in Sequential!Texts
    /\ linesInBatch \in 1 .. MaxBatch
    /\ lineNo \in 1 .. Len(file) + 1
    /\ readDone \in BOOLEAN
    /\ \A i \in DOMAIN futures :
          /\ futures[i].first \in 1 .. Len(file)
          /\ futures[i].count \in 1 .. linesInBatch
          /\ futures[i].done \in BOOLEAN
    /\ waited \in 0 .. Len(futures)
    /\ status \in {"reading", "ok", "failed"}
    /\ error.kind \in {"none", "parse", "columns", "count"}

(***************************************************************************)
(* ReadPool implements the one-step reader of PoolReaderSpec: whatever    *)
(* the batch size and whatever order the pool threads run the tasks in,  *)
(* it returns the file's columns with every value in its line's place, or *)
(* fails exactly when the file has an unparsable token or a line whose   *)
(* column count differs from the first line's, and never returns part of *)
(* a pool.  It takes the in-batch check, the cross-batch check and the   *)
(* in-order wait together to get this right.                             *)
(***************************************************************************)
ImplementsSequentialRead == Sequential!Spec

(***************************************************************************)
(* ReadPool returns or fails in the end: every task is run by the queue   *)
(* and its value or exception reaches the future the calling thread       *)
(* waits on (spec section 5: a task's failure propagates to the caller   *)
(* awaiting it).                                                           *)
(***************************************************************************)
Terminates == <>(status # "reading")

=============================================================================
