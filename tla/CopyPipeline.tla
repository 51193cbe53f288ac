---------------------------- MODULE CopyPipeline ----------------------------
(***************************************************************************)
(* Writer.CopyData and the Oracle reader that feeds it: the reader         *)
(* goroutine of Reader.Read, the loop of CopyData that fills batches, the  *)
(* writer goroutine that commits them and retries, and the connections     *)
(* they take from the PostgreSQL pool.                                     *)
(*                                                                         *)
(* Rows are numbered in the order of the Oracle cursor.  rowCh is a FIFO   *)
(* channel, so it holds the rows got+1..sent; a batch is an interval of    *)
(* rows, the one being filled is from..got.                                *)
(***************************************************************************)
EXTENDS Integers, Sequences, FiniteSets

CONSTANTS
  NumRows,
  RowBytes, MaxBatchBytes, (* estimated size of each row; limit of a batch (0: none) *)
  BatchSize,
  RowBuf, BatchBuf,        (* capacity of rowCh and of batchCh                  *)
  MaxRetries,              (* maxRetries of CopyData                            *)
  Unlogged,                (* no SET synchronous_commit on a connection         *)
  Faults, MaxFaults        (* kinds of failure, bound on their number           *)

Rows == 1..NumRows
FaultKinds == {"cancel", "connect", "copy", "commit", "lost_ack", "read"}

ASSUME CopyConstants ==
  /\ NumRows \in Nat
  /\ RowBytes \in [Rows -> Nat]
  /\ MaxBatchBytes \in Nat
  /\ BatchSize \in Nat \ {0} /\ RowBuf \in Nat \ {0} /\ BatchBuf \in Nat \ {0}
  /\ MaxRetries \in Nat
  /\ Unlogged \in BOOLEAN
  /\ Faults \subseteq FaultKinds
  /\ MaxFaults \in Nat

VARIABLES
  rpc, sent, rowErr,           (* reader: where it is, rows put in rowCh, error put in rowCh *)
  mpc, tries, got, from, bytes, readErr, result,   (* CopyData itself           *)
  batchCh, closed, writerErr,  (* batchCh, its close, the signal in writerErrCh *)
  wpc, cur, attempt, wErr,     (* writer goroutine: batch in hand, attempt, wr.err *)
  conn, held, acquired,        (* the writer's connection, those not released, their number *)
  db,                          (* the target: number of copies of each row      *)
  cancelled, faults

readerVars == <<rpc, sent, rowErr>>
mainVars == <<mpc, tries, got, from, bytes, readErr, result>>
chanVars == <<batchCh, closed, writerErr>>
writerVars == <<wpc, cur, attempt, wErr>>
connVars == <<conn, held, acquired>>
vars == <<readerVars, mainVars, chanVars, writerVars, connVars, db, cancelled, faults>>

Batch == [first : Nat, last : Nat]
NoBatch == [first |-> 0, last |-> 0]

ReaderTypes == /\ rpc \in {"next", "send", "err", "done"}
               /\ sent \in 0..NumRows /\ rowErr \in BOOLEAN
MainTypes == /\ mpc \in {"acquire", "config", "loop", "flush", "final", "close", "wait", "returned"}
             /\ tries \in 0..MaxRetries
             /\ got \in 0..NumRows /\ from \in Nat /\ bytes \in Nat
             /\ readErr \in BOOLEAN /\ result \in {"none", "ok", "error"}
ChanTypes == batchCh \in Seq(Batch) /\ closed \in BOOLEAN /\ writerErr \in BOOLEAN
WriterTypes == /\ wpc \in {"none", "recv", "begin", "commit", "backoff", "reacquire", "set",
                           "drain", "sent", "exit"}
               /\ cur \in Batch /\ attempt \in 0..MaxRetries /\ wErr \in BOOLEAN
ConnTypes == conn \in Nat /\ acquired \in Nat /\ held \subseteq 1..acquired

TypeOK == /\ ReaderTypes /\ MainTypes /\ ChanTypes /\ WriterTypes /\ ConnTypes
          /\ db \in [Rows -> Nat]
          /\ cancelled \in BOOLEAN /\ faults \in 0..MaxFaults

Init ==
  /\ rpc = "next" /\ sent = 0 /\ rowErr = FALSE
  /\ mpc = "acquire" /\ tries = 0 /\ got = 0 /\ from = 1 /\ bytes = 0
  /\ readErr = FALSE /\ result = "none"
  /\ batchCh = <<>> /\ closed = FALSE /\ writerErr = FALSE
  /\ wpc = "none" /\ cur = NoBatch /\ attempt = 0 /\ wErr = FALSE
  /\ conn = 0 /\ held = {} /\ acquired = 0
  /\ db = [r \in Rows |-> 0]
  /\ cancelled = FALSE /\ faults = 0
-----------------------------------------------------------------------------
(* The environment fails in way k (bounded by MaxFaults); an operation that *)
(* takes ctx fails also when ctx is done.                                   *)
Fault(k) == k \in Faults /\ faults < MaxFaults /\ faults' = faults + 1
NoFault == UNCHANGED faults
OpFails(k) == (cancelled /\ NoFault) \/ Fault(k)
-----------------------------------------------------------------------------
(* The reader goroutine. *)

RowChLen == (sent - got) + IF rowErr THEN 1 ELSE 0

(* rows.Next: another row, the end of the cursor, or an error. *)
ReadNext ==
  /\ rpc = "next"
  /\ \/ ~cancelled /\ NoFault /\ rpc' = IF sent < NumRows THEN "send" ELSE "done"
     \/ OpFails("read") /\ rpc' = "err"
  /\ UNCHANGED <<sent, rowErr, mainVars, chanVars, writerVars, connVars, db, cancelled>>

ReadSend ==
  /\ rpc = "send"
  /\ \/ RowChLen < RowBuf /\ sent' = sent + 1 /\ rpc' = "next"
     \/ cancelled /\ rpc' = "err" /\ UNCHANGED sent
  /\ NoFault
  /\ UNCHANGED <<rowErr, mainVars, chanVars, writerVars, connVars, db, cancelled>>

(* ch <- ReadResult{Err: ...}: not under a select, so it waits for room. *)
ReadFail ==
  /\ rpc = "err"
  /\ RowChLen < RowBuf
  /\ rowErr' = TRUE /\ rpc' = "done"
  /\ NoFault
  /\ UNCHANGED <<sent, mainVars, chanVars, writerVars, connVars, db, cancelled>>

ReaderStep == ReadNext \/ ReadSend \/ ReadFail
-----------------------------------------------------------------------------
(* CopyData up to the start of the writer goroutine. *)

GetConn == /\ conn' = acquired + 1
           /\ acquired' = acquired + 1
           /\ held' = held \cup {acquired + 1}

(* A bug: the connection in use is forgotten. *)
NotReleasedMutant == UNCHANGED held

Release == held' = held \ {conn}

Returns(res) == mpc' = "returned" /\ result' = res

Acquire ==
  /\ mpc = "acquire"
  /\ \/ /\ ~cancelled /\ NoFault
        /\ GetConn
        /\ mpc' = IF Unlogged THEN "loop" ELSE "config"
        /\ wpc' = IF Unlogged THEN "recv" ELSE "none"
        /\ UNCHANGED <<tries, result>>
     \/ /\ OpFails("connect")
        /\ IF tries = MaxRetries \/ cancelled
           THEN Returns("error") /\ UNCHANGED tries
           ELSE tries' = tries + 1 /\ UNCHANGED <<mpc, result>>
        /\ UNCHANGED <<connVars, wpc>>
  /\ UNCHANGED <<readerVars, got, from, bytes, readErr, chanVars, cur, attempt, wErr, db, cancelled>>

(* SET synchronous_commit = off; then the writer goroutine is started. *)
Configure ==
  /\ mpc = "config"
  /\ \/ ~cancelled /\ NoFault /\ mpc' = "loop" /\ wpc' = "recv" /\ UNCHANGED <<held, result>>
     \/ OpFails("connect") /\ Release /\ Returns("error") /\ UNCHANGED wpc
  /\ UNCHANGED <<readerVars, tries, got, from, bytes, readErr, chanVars, cur, attempt, wErr,
                 conn, acquired, db, cancelled>>
-----------------------------------------------------------------------------
(* The read loop. *)

Stop == mpc' = "close" /\ readErr' = TRUE

(* A done ctx or the writer's error ends the loop wherever it waits. *)
Interrupted ==
  /\ mpc \in {"loop", "flush", "final"}
  /\ \/ cancelled /\ UNCHANGED writerErr
     \/ writerErr /\ writerErr' = FALSE
  /\ Stop
  /\ NoFault
  /\ UNCHANGED <<readerVars, tries, got, from, bytes, result, batchCh, closed, writerVars,
                 connVars, db, cancelled>>

Full(n, size) == n >= BatchSize \/ (MaxBatchBytes > 0 /\ size >= MaxBatchBytes)

ReceiveRow ==
  /\ mpc = "loop"
  /\ got < sent
  /\ got' = got + 1
  /\ bytes' = IF MaxBatchBytes > 0 THEN bytes + RowBytes[got + 1] ELSE bytes
  /\ mpc' = IF Full(got' - from + 1, bytes') THEN "flush" ELSE "loop"
  /\ NoFault
  /\ UNCHANGED <<readerVars, tries, from, readErr, result, chanVars, writerVars, connVars,
                 db, cancelled>>

(* An error from Oracle, or rowCh closed. *)
ReceiveEnd ==
  /\ mpc = "loop"
  /\ rpc = "done" /\ got = sent
  /\ IF rowErr THEN Stop
               ELSE mpc' = (IF got >= from THEN "final" ELSE "close") /\ UNCHANGED readErr
  /\ NoFault
  /\ UNCHANGED <<readerVars, tries, got, from, bytes, result, chanVars, writerVars, connVars,
                 db, cancelled>>

(* A bug: the rows sent stay in the batch. *)
NotResetMutant == UNCHANGED from /\ bytes' = 0

(* The batch goes to the writer and a new one is begun. *)
NextBatch == from' = got + 1 /\ bytes' = 0

SendBatch ==
  /\ mpc \in {"flush", "final"}
  /\ Len(batchCh) < BatchBuf
  /\ batchCh' = Append(batchCh, [first |-> from, last |-> got])
  /\ NextBatch
  /\ mpc' = IF mpc = "flush" THEN "loop" ELSE "close"
  /\ NoFault
  /\ UNCHANGED <<readerVars, tries, got, readErr, result, closed, writerErr, writerVars,
                 connVars, db, cancelled>>

(* A bug: an early return in case of an error, before batchCh is closed. *)
CloseMissedMutant ==
  /\ mpc = "close"
  /\ closed' = ~readErr /\ mpc' = "wait"
  /\ NoFault
  /\ UNCHANGED <<readerVars, tries, got, from, bytes, readErr, result, batchCh, writerErr,
                 writerVars, connVars, db, cancelled>>

CloseBatches ==
  /\ mpc = "close"
  /\ closed' = TRUE /\ mpc' = "wait"
  /\ NoFault
  /\ UNCHANGED <<readerVars, tries, got, from, bytes, readErr, result, batchCh, writerErr,
                 writerVars, connVars, db, cancelled>>

(* wr := <-writerDoneCh *)
Collect ==
  /\ mpc = "wait"
  /\ wpc \in {"sent", "exit"}
  /\ Returns(IF readErr \/ wErr THEN "error" ELSE "ok")
  /\ NoFault
  /\ UNCHANGED <<readerVars, tries, got, from, bytes, readErr, chanVars, writerVars, connVars,
                 db, cancelled>>

MainStep == \/ Acquire \/ Configure \/ Interrupted \/ ReceiveRow \/ ReceiveEnd
            \/ SendBatch \/ CloseBatches \/ Collect
-----------------------------------------------------------------------------
(* The writer goroutine. *)

TakeBatch ==
  /\ wpc = "recv"
  /\ \/ /\ batchCh # <<>>
        /\ cur' = Head(batchCh) /\ batchCh' = Tail(batchCh)
        /\ attempt' = 0
        /\ wpc' = "begin"
     \/ /\ batchCh = <<>> /\ closed
        /\ wpc' = "sent"
        /\ UNCHANGED <<cur, batchCh, attempt>>
  /\ NoFault
  /\ UNCHANGED <<readerVars, mainVars, closed, writerErr, wErr, connVars, db, cancelled>>

(* A bug: the error is only signalled, CopyData may not be listening. *)
SignalOnlyMutant == /\ writerErr' = TRUE /\ wpc' = "drain"
                    /\ UNCHANGED <<wErr, attempt>>

(* The error is kept and signalled; what is still in batchCh is thrown away. *)
GiveUp == /\ wErr' = TRUE /\ writerErr' = TRUE /\ wpc' = "drain"
          /\ UNCHANGED attempt

(* A bug: one attempt too many. *)
OneMoreMutant == IF attempt > MaxRetries
                 THEN GiveUp
                 ELSE /\ attempt' = attempt + 1 /\ wpc' = "backoff"
                      /\ UNCHANGED <<wErr, writerErr>>

(* continue of the attempt loop, or its end. *)
AttemptFails == IF attempt = MaxRetries
                THEN GiveUp
                ELSE /\ attempt' = attempt + 1 /\ wpc' = "backoff"
                     /\ UNCHANGED <<wErr, writerErr>>

(* Begin and CopyFrom; a failed COPY is rolled back. *)
BeginCopy ==
  /\ wpc = "begin"
  /\ \/ ~cancelled /\ NoFault /\ wpc' = "commit" /\ UNCHANGED <<attempt, wErr, writerErr>>
     \/ OpFails("copy") /\ AttemptFails
  /\ UNCHANGED <<readerVars, mainVars, batchCh, closed, cur, connVars, db, cancelled>>

Committed == [r \in Rows |-> IF cur.first <= r /\ r <= cur.last THEN db[r] + 1 ELSE db[r]]

(* COMMIT succeeds, fails, or succeeds without the client learning of it: a *)
(* lost answer, or ctx done while it is under way.                          *)
CommitBatch ==
  /\ wpc = "commit"
  /\ \/ db' = Committed /\ wpc' = "recv" /\ NoFault /\ UNCHANGED <<attempt, wErr, writerErr>>
     \/ UNCHANGED db /\ OpFails("commit") /\ AttemptFails
     \/ db' = Committed /\ OpFails("lost_ack") /\ AttemptFails
  /\ UNCHANGED <<readerVars, mainVars, batchCh, closed, cur, connVars, cancelled>>

(* After the delay the old connection is returned for a new one. *)
Backoff ==
  /\ wpc = "backoff"
  /\ \/ cancelled /\ GiveUp /\ UNCHANGED held
     \/ /\ ~cancelled
        /\ Release
        /\ wpc' = "reacquire"
        /\ UNCHANGED <<attempt, wErr, writerErr>>
  /\ NoFault
  /\ UNCHANGED <<readerVars, mainVars, batchCh, closed, cur, conn, acquired, db, cancelled>>

Reacquire ==
  /\ wpc = "reacquire"
  /\ \/ /\ ~cancelled /\ NoFault
        /\ GetConn
        /\ wpc' = IF Unlogged THEN "begin" ELSE "set"
        /\ UNCHANGED <<attempt, wErr, writerErr>>
     \/ OpFails("connect") /\ AttemptFails /\ UNCHANGED connVars
  /\ UNCHANGED <<readerVars, mainVars, batchCh, closed, cur, db, cancelled>>

(* SET on the new connection, which is released if that fails. *)
Reconfigure ==
  /\ wpc = "set"
  /\ \/ ~cancelled /\ NoFault /\ wpc' = "begin" /\ UNCHANGED <<held, attempt, wErr, writerErr>>
     \/ OpFails("connect") /\ Release /\ AttemptFails
  /\ UNCHANGED <<readerVars, mainVars, batchCh, closed, cur, conn, acquired, db, cancelled>>

Drain ==
  /\ wpc = "drain"
  /\ \/ batchCh # <<>> /\ batchCh' = Tail(batchCh) /\ UNCHANGED wpc
     \/ batchCh = <<>> /\ closed /\ wpc' = "sent" /\ UNCHANGED batchCh
  /\ NoFault
  /\ UNCHANGED <<readerVars, mainVars, closed, writerErr, cur, attempt, wErr, connVars, db,
                 cancelled>>

(* defer conn.Release(): the connection the goroutine was started with. *)
FirstConn == 1
ReleaseDeferred ==
  /\ wpc = "sent"
  /\ held' = held \ {FirstConn}
  /\ wpc' = "exit"
  /\ NoFault
  /\ UNCHANGED <<readerVars, mainVars, chanVars, cur, attempt, wErr, conn, acquired, db, cancelled>>

WriterStep == \/ TakeBatch \/ BeginCopy \/ CommitBatch \/ Backoff \/ Reacquire
              \/ Reconfigure \/ Drain \/ ReleaseDeferred
-----------------------------------------------------------------------------
(* The user cancels, or the watchdog does. *)
Cancel ==
  /\ mpc # "returned" /\ ~cancelled
  /\ Fault("cancel")
  /\ cancelled' = TRUE
  /\ UNCHANGED <<readerVars, mainVars, chanVars, writerVars, connVars, db>>

(* The task function returns and its deferred pipelineCancel runs. *)
PipelineCancel ==
  /\ mpc = "returned" /\ ~cancelled
  /\ cancelled' = TRUE
  /\ NoFault
  /\ UNCHANGED <<readerVars, mainVars, chanVars, writerVars, connVars, db>>

Next == ReaderStep \/ MainStep \/ WriterStep \/ Cancel \/ PipelineCancel

Spec == Init /\ [][Next]_vars

(* Goroutines run; database calls return (timeouts, keep-alive, watchdog).  *)
FairSpec == Spec /\ WF_vars(ReaderStep) /\ WF_vars(MainStep) /\ WF_vars(WriterStep)
                 /\ WF_vars(PipelineCancel)
-----------------------------------------------------------------------------
(* CopyData that returns no error has copied every row, at least once even  *)
(* if the answer to a COMMIT was lost and the batch was copied again.       *)
NoRowMissing == result = "ok" => \A r \in Rows : db[r] > 0

(* The writer works only with a connection it has not given back, and gives *)
(* one back before it takes another.                                        *)
OwnConnection ==
  /\ wpc \in {"begin", "commit"} => conn \in held
  /\ Cardinality(held) <= 1

(* The call returns, whoever fails: no goroutine waits for ever on a full   *)
(* or an empty channel.                                                     *)
CopyReturns == <>(mpc = "returned" /\ wpc \in {"none", "exit"})

Copy == INSTANCE BatchCopy WITH target <- db, outcome <- result
(* Without lost answers, CopyData is what BatchCopy promises. *)
ImplementsBatchCopy == Copy!CopySpec
=============================================================================
