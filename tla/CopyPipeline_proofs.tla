------------------------ MODULE CopyPipeline_proofs ------------------------
(***************************************************************************)
(* Theorems about CopyPipeline, for every number and size of rows, batch   *)
(* size, channel capacity, number of retries and kind of failure.          *)
(*                                                                         *)
(* QueueInv is the shape of the pipeline: the batch in hand, those in      *)
(* batchCh and the one being filled follow each other without a gap.       *)
(* StageInv relates the stages of the three goroutines.  Covered and       *)
(* Exactly say what the target holds, given where the writer stands.       *)
(***************************************************************************)
EXTENDS CopyPipeline, FiniteSetTheorems, TLAPS

TypeInv == TypeOK /\ (rpc = "send" => sent < NumRows)

(* The first row that the writer has not taken out of batchCh. *)
Upcoming == IF batchCh = <<>> THEN from ELSE batchCh[1].first

InHand == wpc \in {"begin", "commit", "backoff", "reacquire", "set"}

FillingInv ==
  /\ 1 <= from /\ from <= got + 1 /\ got <= sent
  /\ mpc \in {"flush", "final"} => from <= got

ChainInv ==
  \A i \in 1..Len(batchCh) :
    /\ 1 <= batchCh[i].first
    /\ batchCh[i].first <= batchCh[i].last
    /\ batchCh[i].last < from
    /\ IF i = Len(batchCh) THEN batchCh[i].last + 1 = from
                           ELSE batchCh[i].last + 1 = batchCh[i + 1].first

HandInv == InHand => /\ 1 <= cur.first /\ cur.first <= cur.last
                     /\ cur.last + 1 = Upcoming

QueueInv == FillingInv /\ ChainInv /\ HandInv

StageInv ==
  /\ rpc = "done" /\ ~rowErr => sent = NumRows
  /\ mpc \in {"acquire", "config"} => wpc = "none"
  /\ mpc \in {"acquire", "config", "loop", "flush", "final"} => ~readErr
  /\ mpc \in {"close", "wait"} /\ ~readErr => from = NumRows + 1
  /\ mpc = "final" => got = NumRows
  /\ result = "none" <=> mpc # "returned"
  /\ closed => mpc \in {"wait", "returned"}
  /\ mpc = "returned" => wpc \in {"none", "sent", "exit"}
  /\ wpc = "drain" => wErr
  /\ wErr => wpc \in {"drain", "sent", "exit"}
  /\ wpc \in {"sent", "exit"} /\ ~wErr => batchCh = <<>> /\ closed
  /\ result = "ok" => wpc \in {"sent", "exit"} /\ ~wErr /\ from = NumRows + 1

ConnInv ==
  /\ held \subseteq {conn}
  /\ mpc \in {"acquire", "config"} => wpc = "none"
  /\ mpc = "acquire" => held = {}
  /\ mpc = "config" => conn \in held
  /\ wpc \in {"recv", "begin", "commit", "set"} => conn \in held
  /\ wpc = "reacquire" => held = {}

(* The rows before UpTo have been committed. *)
UpTo == IF InHand THEN cur.first ELSE Upcoming

Covered == ~wErr => \A r \in Rows : r < UpTo => db[r] > 0

Stored(d, n) == \A r \in Rows : d[r] = IF r <= n THEN 1 ELSE 0

(* A COMMIT interrupted by ctx may have happened: the writer is then about *)
(* to give up.                                                              *)
Exactly ==
  /\ ~wErr /\ wpc # "backoff" => Stored(db, UpTo - 1)
  /\ wpc = "backoff" => Stored(db, cur.first - 1) \/ (cancelled /\ Stored(db, cur.last))
  /\ result = "ok" => Stored(db, NumRows)
-----------------------------------------------------------------------------
LEMMA TypeInitially == Init => TypeInv
<1> SUFFICES ASSUME Init PROVE TypeInv
  OBVIOUS
<1>0. NumRows \in Nat /\ MaxRetries \in Nat /\ MaxFaults \in Nat
  BY CopyConstants
<1>1. ReaderTypes /\ rpc # "send"
  <2>1. rpc = "next" /\ sent = 0 /\ rowErr \in BOOLEAN
    BY DEF Init
  <2>2. QED
    BY <1>0, <2>1 DEF ReaderTypes
<1>2. MainTypes
  <2>1. /\ mpc = "acquire" /\ tries = 0 /\ got = 0 /\ from = 1 /\ bytes = 0
        /\ readErr \in BOOLEAN /\ result = "none"
    BY DEF Init
  <2>2. QED
    BY <1>0, <2>1 DEF MainTypes
<1>3. ChanTypes
  <2>1. batchCh = <<>> /\ closed \in BOOLEAN /\ writerErr \in BOOLEAN
    BY DEF Init
  <2>2. QED
    BY <2>1 DEF ChanTypes
<1>4. WriterTypes
  <2>1. wpc = "none" /\ cur = NoBatch /\ attempt = 0 /\ wErr \in BOOLEAN
    BY DEF Init
  <2>2. QED
    BY <1>0, <2>1 DEF WriterTypes, Batch, NoBatch
<1>5. ConnTypes
  BY DEF Init, ConnTypes
<1>6. db \in [Rows -> Nat] /\ cancelled \in BOOLEAN /\ faults \in 0..MaxFaults
  <2>1. db = [r \in Rows |-> 0] /\ cancelled \in BOOLEAN /\ faults = 0
    BY DEF Init
  <2>2. QED
    BY <1>0, <2>1
<1>7. QED
  BY <1>1, <1>2, <1>3, <1>4, <1>5, <1>6 DEF TypeInv, TypeOK

(* Another attempt is counted only while one is left. *)
LEMMA AttemptTypes == ASSUME WriterTypes, AttemptFails, UNCHANGED cur PROVE WriterTypes'
<1>1. MaxRetries \in Nat
  BY CopyConstants DEF CopyConstants
<1>2. attempt' \in 0..MaxRetries
  BY <1>1 DEF WriterTypes, AttemptFails, GiveUp
<1>3. QED
  BY <1>2 DEF WriterTypes, AttemptFails, GiveUp

LEMMA GetConnTypes == ASSUME ConnTypes, GetConn PROVE ConnTypes'
<1>1. \A c \in held \cup {acquired + 1} : c \in 1..acquired + 1
  BY DEF ConnTypes
<1>2. QED
  BY <1>1 DEF ConnTypes, GetConn

(* What happens to batchCh keeps it a sequence of batches. *)
LEMMA ChanOps ==
  ASSUME ChanTypes, batchCh # <<>>
  PROVE  Head(batchCh) \in Batch /\ Tail(batchCh) \in Seq(Batch)
BY DEF ChanTypes

LEMMA TypeStep == TypeInv /\ [Next]_vars => TypeInv'
<1> SUFFICES ASSUME TypeInv, [Next]_vars PROVE TypeInv'
  OBVIOUS
<1> USE CopyConstants DEF CopyConstants, TypeInv, TypeOK
<1>1. CASE ReadNext
  BY <1>1 DEF ReadNext, OpFails, Fault, NoFault, ReaderTypes, MainTypes, ChanTypes, WriterTypes,
       ConnTypes, readerVars, mainVars, chanVars, writerVars, connVars
<1>2. CASE ReadSend
  BY <1>2 DEF ReadSend, NoFault, RowChLen, ReaderTypes, MainTypes, ChanTypes, WriterTypes,
       ConnTypes, readerVars, mainVars, chanVars, writerVars, connVars
<1>3. CASE ReadFail
  BY <1>3 DEF ReadFail, NoFault, RowChLen, ReaderTypes, MainTypes, ChanTypes, WriterTypes,
       ConnTypes, readerVars, mainVars, chanVars, writerVars, connVars
<1>4. CASE Acquire
  <2>1. (ReaderTypes /\ (rpc = "send" => sent < NumRows))'
    BY <1>4 DEF Acquire, OpFails, Fault, NoFault, GetConn, Returns, ReaderTypes, readerVars
  <2>2. MainTypes'
    BY <1>4 DEF Acquire, OpFails, Fault, NoFault, GetConn, Returns, MainTypes, mainVars,
         ReaderTypes, Rows
  <2>3. ChanTypes'
    BY <1>4 DEF Acquire, OpFails, Fault, NoFault, GetConn, Returns, ChanTypes, chanVars
  <2>4. WriterTypes'
    BY <1>4 DEF Acquire, OpFails, Fault, NoFault, GetConn, Returns, WriterTypes, writerVars
  <2>5. ConnTypes'
    BY <1>4, GetConnTypes DEF Acquire, connVars, ConnTypes
  <2>6. (db \in [Rows -> Nat] /\ cancelled \in BOOLEAN /\ faults \in 0..MaxFaults)'
    BY <1>4 DEF Acquire, OpFails, Fault, NoFault, GetConn, Returns
  <2>7. QED
    BY <2>1, <2>2, <2>3, <2>4, <2>5, <2>6
<1>5. CASE Configure
  <2>1. (ReaderTypes /\ (rpc = "send" => sent < NumRows))'
    BY <1>5 DEF Configure, OpFails, Fault, NoFault, Release, Returns, ReaderTypes, readerVars
  <2>2. MainTypes'
    BY <1>5 DEF Configure, OpFails, Fault, NoFault, Release, Returns, MainTypes, mainVars,
         ReaderTypes, Rows
  <2>3. ChanTypes'
    BY <1>5 DEF Configure, OpFails, Fault, NoFault, Release, Returns, ChanTypes, chanVars
  <2>4. WriterTypes'
    BY <1>5 DEF Configure, OpFails, Fault, NoFault, Release, Returns, WriterTypes, writerVars
  <2>5. ConnTypes'
    BY <1>5 DEF Configure, OpFails, Fault, NoFault, Release, Returns, ConnTypes, connVars
  <2>6. (db \in [Rows -> Nat] /\ cancelled \in BOOLEAN /\ faults \in 0..MaxFaults)'
    BY <1>5 DEF Configure, OpFails, Fault, NoFault, Release, Returns
  <2>7. QED
    BY <2>1, <2>2, <2>3, <2>4, <2>5, <2>6
<1>6. CASE Interrupted
  <2>1. (ReaderTypes /\ (rpc = "send" => sent < NumRows))'
    BY <1>6 DEF Interrupted, NoFault, Stop, ReaderTypes, readerVars
  <2>2. MainTypes'
    BY <1>6 DEF Interrupted, NoFault, Stop, MainTypes, mainVars, ReaderTypes, Rows
  <2>3. ChanTypes'
    BY <1>6 DEF Interrupted, NoFault, Stop, ChanTypes, chanVars
  <2>4. WriterTypes'
    BY <1>6 DEF Interrupted, NoFault, Stop, WriterTypes, writerVars
  <2>5. ConnTypes'
    BY <1>6 DEF Interrupted, NoFault, Stop, ConnTypes, connVars
  <2>6. (db \in [Rows -> Nat] /\ cancelled \in BOOLEAN /\ faults \in 0..MaxFaults)'
    BY <1>6 DEF Interrupted, NoFault, Stop
  <2>7. QED
    BY <2>1, <2>2, <2>3, <2>4, <2>5, <2>6
<1>7. CASE ReceiveRow
  <2>1. (ReaderTypes /\ (rpc = "send" => sent < NumRows))'
    BY <1>7 DEF ReceiveRow, NoFault, ReaderTypes, readerVars
  <2>2. MainTypes'
    BY <1>7 DEF ReceiveRow, NoFault, MainTypes, mainVars, ReaderTypes, Rows
  <2>3. ChanTypes'
    BY <1>7 DEF ReceiveRow, NoFault, ChanTypes, chanVars
  <2>4. WriterTypes'
    BY <1>7 DEF ReceiveRow, NoFault, WriterTypes, writerVars
  <2>5. ConnTypes'
    BY <1>7 DEF ReceiveRow, NoFault, ConnTypes, connVars
  <2>6. (db \in [Rows -> Nat] /\ cancelled \in BOOLEAN /\ faults \in 0..MaxFaults)'
    BY <1>7 DEF ReceiveRow, NoFault
  <2>7. QED
    BY <2>1, <2>2, <2>3, <2>4, <2>5, <2>6
<1>8. CASE ReceiveEnd
  BY <1>8 DEF ReceiveEnd, NoFault, Stop, ReaderTypes, MainTypes, ChanTypes, WriterTypes,
       ConnTypes, readerVars, mainVars, chanVars, writerVars, connVars
<1>9. CASE SendBatch
  <2>1. (ReaderTypes /\ (rpc = "send" => sent < NumRows))'
    BY <1>9 DEF SendBatch, NoFault, NextBatch, ReaderTypes, readerVars
  <2>2. MainTypes'
    BY <1>9 DEF SendBatch, NoFault, NextBatch, MainTypes, mainVars, ReaderTypes, Rows
  <2>3. ChanTypes'
    <3>1. [first |-> from, last |-> got] \in Batch
      BY DEF MainTypes, Batch
    <3>2. QED
      BY <1>9, <3>1 DEF SendBatch, ChanTypes
  <2>4. WriterTypes'
    BY <1>9 DEF SendBatch, NoFault, NextBatch, WriterTypes, writerVars
  <2>5. ConnTypes'
    BY <1>9 DEF SendBatch, NoFault, NextBatch, ConnTypes, connVars
  <2>6. (db \in [Rows -> Nat] /\ cancelled \in BOOLEAN /\ faults \in 0..MaxFaults)'
    BY <1>9 DEF SendBatch, NoFault, NextBatch
  <2>7. QED
    BY <2>1, <2>2, <2>3, <2>4, <2>5, <2>6
<1>10. CASE CloseBatches
  BY <1>10 DEF CloseBatches, NoFault, ReaderTypes, MainTypes, ChanTypes, WriterTypes, ConnTypes,
       readerVars, mainVars, chanVars, writerVars, connVars
<1>11. CASE Collect
  BY <1>11 DEF Collect, NoFault, Returns, ReaderTypes, MainTypes, ChanTypes, WriterTypes,
       ConnTypes, readerVars, mainVars, chanVars, writerVars, connVars
<1>12. CASE TakeBatch
  <2>1. (ReaderTypes /\ (rpc = "send" => sent < NumRows))'
    BY <1>12 DEF TakeBatch, NoFault, ReaderTypes, readerVars
  <2>2. MainTypes'
    BY <1>12 DEF TakeBatch, NoFault, MainTypes, mainVars, ReaderTypes, Rows
  <2>3. ChanTypes'
    BY <1>12, ChanOps DEF TakeBatch, ChanTypes
  <2>4. WriterTypes'
    BY <1>12, ChanOps DEF TakeBatch, WriterTypes
  <2>5. ConnTypes'
    BY <1>12 DEF TakeBatch, NoFault, ConnTypes, connVars
  <2>6. (db \in [Rows -> Nat] /\ cancelled \in BOOLEAN /\ faults \in 0..MaxFaults)'
    BY <1>12 DEF TakeBatch, NoFault
  <2>7. QED
    BY <2>1, <2>2, <2>3, <2>4, <2>5, <2>6
<1>13. CASE BeginCopy
  <2>1. (ReaderTypes /\ (rpc = "send" => sent < NumRows))'
    BY <1>13 DEF BeginCopy, OpFails, Fault, NoFault, AttemptFails, GiveUp, ReaderTypes, readerVars
  <2>2. MainTypes'
    BY <1>13 DEF BeginCopy, OpFails, Fault, NoFault, AttemptFails, GiveUp, MainTypes, mainVars,
         ReaderTypes, Rows
  <2>3. ChanTypes'
    BY <1>13 DEF BeginCopy, OpFails, Fault, NoFault, AttemptFails, GiveUp, ChanTypes, chanVars
  <2>4. WriterTypes'
    BY <1>13, AttemptTypes DEF BeginCopy, WriterTypes
  <2>5. ConnTypes'
    BY <1>13 DEF BeginCopy, OpFails, Fault, NoFault, AttemptFails, GiveUp, ConnTypes, connVars
  <2>6. (db \in [Rows -> Nat] /\ cancelled \in BOOLEAN /\ faults \in 0..MaxFaults)'
    BY <1>13 DEF BeginCopy, OpFails, Fault, NoFault, AttemptFails, GiveUp
  <2>7. QED
    BY <2>1, <2>2, <2>3, <2>4, <2>5, <2>6
<1>14. CASE CommitBatch
  <2>1. (ReaderTypes /\ (rpc = "send" => sent < NumRows))'
    BY <1>14 DEF CommitBatch, OpFails, Fault, NoFault, AttemptFails, GiveUp, Committed,
         ReaderTypes, readerVars
  <2>2. MainTypes'
    BY <1>14 DEF CommitBatch, OpFails, Fault, NoFault, AttemptFails, GiveUp, Committed,
         MainTypes, mainVars, ReaderTypes, Rows
  <2>3. ChanTypes'
    BY <1>14 DEF CommitBatch, OpFails, Fault, NoFault, AttemptFails, GiveUp, Committed,
         ChanTypes, chanVars
  <2>4. WriterTypes'
    BY <1>14, AttemptTypes DEF CommitBatch, WriterTypes
  <2>5. ConnTypes'
    BY <1>14 DEF CommitBatch, OpFails, Fault, NoFault, AttemptFails, GiveUp, Committed,
         ConnTypes, connVars
  <2>6. (db \in [Rows -> Nat] /\ cancelled \in BOOLEAN /\ faults \in 0..MaxFaults)'
    BY <1>14 DEF CommitBatch, OpFails, Fault, NoFault, AttemptFails, GiveUp, Committed
  <2>7. QED
    BY <2>1, <2>2, <2>3, <2>4, <2>5, <2>6
<1>15. CASE Backoff
  <2>1. (ReaderTypes /\ (rpc = "send" => sent < NumRows))'
    BY <1>15 DEF Backoff, NoFault, GiveUp, Release, ReaderTypes, readerVars
  <2>2. MainTypes'
    BY <1>15 DEF Backoff, NoFault, GiveUp, Release, MainTypes, mainVars, ReaderTypes, Rows
  <2>3. ChanTypes'
    BY <1>15 DEF Backoff, NoFault, GiveUp, Release, ChanTypes, chanVars
  <2>4. WriterTypes'
    BY <1>15 DEF Backoff, NoFault, GiveUp, Release, WriterTypes, writerVars
  <2>5. ConnTypes'
    BY <1>15 DEF Backoff, NoFault, GiveUp, Release, ConnTypes, connVars
  <2>6. (db \in [Rows -> Nat] /\ cancelled \in BOOLEAN /\ faults \in 0..MaxFaults)'
    BY <1>15 DEF Backoff, NoFault, GiveUp, Release
  <2>7. QED
    BY <2>1, <2>2, <2>3, <2>4, <2>5, <2>6
<1>16. CASE Reacquire
  <2>1. (ReaderTypes /\ (rpc = "send" => sent < NumRows))'
    BY <1>16 DEF Reacquire, OpFails, Fault, NoFault, GetConn, AttemptFails, GiveUp, ReaderTypes,
         readerVars
  <2>2. MainTypes'
    BY <1>16 DEF Reacquire, OpFails, Fault, NoFault, GetConn, AttemptFails, GiveUp, MainTypes,
         mainVars, ReaderTypes, Rows
  <2>3. ChanTypes'
    BY <1>16 DEF Reacquire, OpFails, Fault, NoFault, GetConn, AttemptFails, GiveUp, ChanTypes,
         chanVars
  <2>4. WriterTypes'
    BY <1>16, AttemptTypes DEF Reacquire, WriterTypes
  <2>5. ConnTypes'
    BY <1>16, GetConnTypes DEF Reacquire, connVars, ConnTypes
  <2>6. (db \in [Rows -> Nat] /\ cancelled \in BOOLEAN /\ faults \in 0..MaxFaults)'
    BY <1>16 DEF Reacquire, OpFails, Fault, NoFault, GetConn, AttemptFails, GiveUp
  <2>7. QED
    BY <2>1, <2>2, <2>3, <2>4, <2>5, <2>6
<1>17. CASE Reconfigure
  <2>1. (ReaderTypes /\ (rpc = "send" => sent < NumRows))'
    BY <1>17 DEF Reconfigure, OpFails, Fault, NoFault, Release, AttemptFails, GiveUp,
         ReaderTypes, readerVars
  <2>2. MainTypes'
    BY <1>17 DEF Reconfigure, OpFails, Fault, NoFault, Release, AttemptFails, GiveUp, MainTypes,
         mainVars, ReaderTypes, Rows
  <2>3. ChanTypes'
    BY <1>17 DEF Reconfigure, OpFails, Fault, NoFault, Release, AttemptFails, GiveUp, ChanTypes,
         chanVars
  <2>4. WriterTypes'
    BY <1>17, AttemptTypes DEF Reconfigure, WriterTypes
  <2>5. ConnTypes'
    BY <1>17 DEF Reconfigure, OpFails, Fault, NoFault, Release, AttemptFails, GiveUp, ConnTypes,
         connVars
  <2>6. (db \in [Rows -> Nat] /\ cancelled \in BOOLEAN /\ faults \in 0..MaxFaults)'
    BY <1>17 DEF Reconfigure, OpFails, Fault, NoFault, Release, AttemptFails, GiveUp
  <2>7. QED
    BY <2>1, <2>2, <2>3, <2>4, <2>5, <2>6
<1>18. CASE Drain
  <2>1. (ReaderTypes /\ (rpc = "send" => sent < NumRows))'
    BY <1>18 DEF Drain, NoFault, ReaderTypes, readerVars
  <2>2. MainTypes'
    BY <1>18 DEF Drain, NoFault, MainTypes, mainVars, ReaderTypes, Rows
  <2>3. ChanTypes'
    BY <1>18, ChanOps DEF Drain, ChanTypes
  <2>4. WriterTypes'
    BY <1>18 DEF Drain, NoFault, WriterTypes, writerVars
  <2>5. ConnTypes'
    BY <1>18 DEF Drain, NoFault, ConnTypes, connVars
  <2>6. (db \in [Rows -> Nat] /\ cancelled \in BOOLEAN /\ faults \in 0..MaxFaults)'
    BY <1>18 DEF Drain, NoFault
  <2>7. QED
    BY <2>1, <2>2, <2>3, <2>4, <2>5, <2>6
<1>19. CASE ReleaseDeferred
  <2>1. (ReaderTypes /\ (rpc = "send" => sent < NumRows))'
    BY <1>19 DEF ReleaseDeferred, NoFault, ReaderTypes, readerVars
  <2>2. MainTypes'
    BY <1>19 DEF ReleaseDeferred, NoFault, MainTypes, mainVars, ReaderTypes, Rows
  <2>3. ChanTypes'
    BY <1>19 DEF ReleaseDeferred, NoFault, ChanTypes, chanVars
  <2>4. WriterTypes'
    BY <1>19 DEF ReleaseDeferred, NoFault, WriterTypes, writerVars
  <2>5. ConnTypes'
    BY <1>19 DEF ReleaseDeferred, NoFault, ConnTypes, connVars
  <2>6. (db \in [Rows -> Nat] /\ cancelled \in BOOLEAN /\ faults \in 0..MaxFaults)'
    BY <1>19 DEF ReleaseDeferred, NoFault
  <2>7. QED
    BY <2>1, <2>2, <2>3, <2>4, <2>5, <2>6
<1>20. CASE Cancel
  BY <1>20 DEF Cancel, Fault, ReaderTypes, MainTypes, ChanTypes, WriterTypes, ConnTypes,
       readerVars, mainVars, chanVars, writerVars, connVars
<1>21. CASE PipelineCancel
  BY <1>21 DEF PipelineCancel, NoFault, ReaderTypes, MainTypes, ChanTypes, WriterTypes,
       ConnTypes, readerVars, mainVars, chanVars, writerVars, connVars
<1>22. CASE UNCHANGED vars
  BY <1>22 DEF vars, ReaderTypes, MainTypes, ChanTypes, WriterTypes, ConnTypes, readerVars,
       mainVars, chanVars, writerVars, connVars
<1>23. QED
  BY <1>1, <1>2, <1>3, <1>4, <1>5, <1>6, <1>7, <1>8, <1>9, <1>10, <1>11, <1>12, <1>13, <1>14,
       <1>15, <1>16, <1>17, <1>18, <1>19, <1>20, <1>21, <1>22 DEF Next, ReaderStep, MainStep,
       WriterStep

(* Every reachable state is well typed: no counter leaves its range, attempts *)
(* included.                                                                  *)
THEOREM TypeCorrect == Spec => []TypeOK
<1>1. TypeInv => TypeOK
  BY DEF TypeInv
<1>2. QED
  BY <1>1, TypeInitially, TypeStep, PTL DEF Spec

-----------------------------------------------------------------------------
LEMMA QueueInitially == Init => QueueInv
<1>1. Init => /\ from = 1 /\ got = 0 /\ sent = 0 /\ batchCh = <<>>
              /\ wpc = "none" /\ mpc = "acquire"
  BY DEF Init
<1>2. QED
  BY <1>1 DEF QueueInv, FillingInv, ChainInv, HandInv, InHand

(* A batch sent is not the first of a queue that was not empty. *)
LEMMA UpcomingKept ==
  ASSUME batchCh \in Seq(Batch), SendBatch PROVE Upcoming' = Upcoming
<1>1. batchCh' = Append(batchCh, [first |-> from, last |-> got])
  BY DEF SendBatch
<1>2. /\ Len(batchCh') = Len(batchCh) + 1
      /\ \A i \in 1..Len(batchCh) : batchCh'[i] = batchCh[i]
      /\ batchCh'[Len(batchCh) + 1] = [first |-> from, last |-> got]
      /\ batchCh' # <<>>
  BY <1>1
<1>3. QED
  BY <1>1, <1>2 DEF Upcoming

(* Taking the first batch out leaves the chain behind it. *)
LEMMA TailOfChain ==
  ASSUME batchCh \in Seq(Batch), from \in Nat, ChainInv, batchCh # <<>>,
         batchCh' = Tail(batchCh), UNCHANGED from
  PROVE  /\ ChainInv'
         /\ Head(batchCh) = batchCh[1]
         /\ Upcoming' = batchCh[1].last + 1
<1>1. /\ Len(batchCh) \in Nat \ {0} /\ Len(batchCh') = Len(batchCh) - 1
      /\ \A i \in 1..Len(batchCh') : batchCh'[i] = batchCh[i + 1]
      /\ Head(batchCh) = batchCh[1]
  OBVIOUS
<1>2. ChainInv'
  <2> SUFFICES ASSUME NEW i \in 1..Len(batchCh')
               PROVE  /\ 1 <= batchCh'[i].first
                      /\ batchCh'[i].first <= batchCh'[i].last
                      /\ batchCh'[i].last < from'
                      /\ IF i = Len(batchCh') THEN batchCh'[i].last + 1 = from'
                           ELSE batchCh'[i].last + 1 = batchCh'[i + 1].first
    BY DEF ChainInv
  <2>1. i + 1 \in 1..Len(batchCh) /\ (i = Len(batchCh') <=> i + 1 = Len(batchCh))
    BY <1>1
  <2>2. i # Len(batchCh') => i + 1 \in 1..Len(batchCh')
    <3> DEFINE n == Len(batchCh')
    <3>1. n \in Nat /\ i \in 1..n
      BY <1>1
    <3> HIDE DEF n
    <3>2. i # n => i + 1 \in 1..n
      BY <3>1
    <3>3. QED
      BY <3>2 DEF n
  <2>3. QED
    BY <1>1, <2>1, <2>2 DEF ChainInv
<1>3. Upcoming' = batchCh[1].last + 1
  <2>1. CASE Len(batchCh) = 1
    <3>1. batchCh' = <<>>
      BY <1>1, <2>1
    <3>2. QED
      BY <1>1, <2>1, <3>1 DEF Upcoming, ChainInv
  <2>2. CASE Len(batchCh) # 1
    <3>1. batchCh' # <<>> /\ batchCh'[1] = batchCh[2] /\ 1 \in 1..Len(batchCh)
      BY <1>1, <2>2
    <3>2. QED
      BY <2>2, <3>1 DEF Upcoming, ChainInv
  <2>3. QED
    BY <2>1, <2>2
<1>4. QED
  BY <1>1, <1>2, <1>3

LEMMA QueueStep == TypeInv /\ QueueInv /\ [Next]_vars => QueueInv'
<1> SUFFICES ASSUME TypeInv, QueueInv, [Next]_vars PROVE QueueInv'
  OBVIOUS
<1>0. /\ sent \in Nat /\ got \in Nat /\ from \in Nat
      /\ batchCh \in Seq(Batch) /\ cur \in Batch
  BY CopyConstants DEF TypeInv, TypeOK, ReaderTypes, MainTypes, ChanTypes, WriterTypes
<1>a. FillingInv /\ ChainInv /\ HandInv
  BY DEF QueueInv
<1>1. CASE ReadNext
  BY <1>0, <1>a, <1>1 DEF ReadNext, OpFails, Fault, NoFault, QueueInv, FillingInv, ChainInv,
       HandInv, InHand, Upcoming, readerVars, mainVars, chanVars, writerVars
<1>2. CASE ReadSend
  BY <1>0, <1>a, <1>2 DEF ReadSend, NoFault, RowChLen, QueueInv, FillingInv, ChainInv, HandInv,
       InHand, Upcoming, readerVars, mainVars, chanVars, writerVars
<1>3. CASE ReadFail
  BY <1>0, <1>a, <1>3 DEF ReadFail, NoFault, RowChLen, QueueInv, FillingInv, ChainInv, HandInv,
       InHand, Upcoming, readerVars, mainVars, chanVars, writerVars
<1>4. CASE Acquire
  BY <1>0, <1>a, <1>4 DEF Acquire, OpFails, Fault, NoFault, GetConn, Returns, QueueInv,
       FillingInv, ChainInv, HandInv, InHand, Upcoming, readerVars, mainVars, chanVars,
       writerVars
<1>5. CASE Configure
  BY <1>0, <1>a, <1>5 DEF Configure, OpFails, Fault, NoFault, Release, Returns, QueueInv,
       FillingInv, ChainInv, HandInv, InHand, Upcoming, readerVars, mainVars, chanVars,
       writerVars
<1>6. CASE Interrupted
  BY <1>0, <1>a, <1>6 DEF Interrupted, NoFault, Stop, QueueInv, FillingInv, ChainInv, HandInv,
       InHand, Upcoming, readerVars, mainVars, chanVars, writerVars
<1>7. CASE ReceiveRow
  BY <1>0, <1>a, <1>7 DEF ReceiveRow, NoFault, QueueInv, FillingInv, ChainInv, HandInv, InHand,
       Upcoming, readerVars, mainVars, chanVars, writerVars
<1>8. CASE ReceiveEnd
  BY <1>0, <1>a, <1>8 DEF ReceiveEnd, NoFault, Stop, QueueInv, FillingInv, ChainInv, HandInv,
       InHand, Upcoming, readerVars, mainVars, chanVars, writerVars
<1>9. CASE SendBatch
  <2>1. /\ batchCh' = Append(batchCh, [first |-> from, last |-> got])
        /\ from' = got + 1 /\ from <= got /\ mpc' \notin {"flush", "final"}
        /\ UNCHANGED <<got, sent, cur, wpc>>
    BY <1>9, <1>a DEF SendBatch, NextBatch, readerVars, writerVars, FillingInv
  <2>2. FillingInv'
    BY <1>0, <1>a, <2>1 DEF FillingInv
  <2>3. /\ Len(batchCh') = Len(batchCh) + 1
        /\ \A i \in 1..Len(batchCh) : batchCh'[i] = batchCh[i]
        /\ batchCh'[Len(batchCh) + 1] = [first |-> from, last |-> got]
    BY <1>0, <2>1
  <2>4. ChainInv'
    <3> SUFFICES ASSUME NEW i \in 1..Len(batchCh')
                 PROVE  /\ 1 <= batchCh'[i].first
                        /\ batchCh'[i].first <= batchCh'[i].last
                        /\ batchCh'[i].last < from'
                        /\ IF i = Len(batchCh') THEN batchCh'[i].last + 1 = from'
                             ELSE batchCh'[i].last + 1 = batchCh'[i + 1].first
      BY DEF ChainInv
    <3>a. i \in 1..Len(batchCh) => batchCh[i] \in Batch
      BY <1>0
    <3>b. from < from'
      BY <1>0, <2>1
    <3>0. from < from' /\ (i \in 1..Len(batchCh) => batchCh[i].last \in Nat)
      BY <3>a, <3>b DEF Batch
    <3>1. CASE i = Len(batchCh) + 1
      BY <1>0, <1>a, <2>1, <2>3, <3>1 DEF FillingInv
    <3>2. CASE i = Len(batchCh)
      BY <1>0, <1>a, <2>1, <2>3, <3>0, <3>2 DEF ChainInv
    <3>3. CASE i < Len(batchCh)
      <4>1. /\ i \in 1..Len(batchCh) /\ i + 1 \in 1..Len(batchCh)
            /\ i # Len(batchCh) /\ i # Len(batchCh')
        BY <1>0, <2>3, <3>3
      <4>2. batchCh'[i] = batchCh[i] /\ batchCh'[i + 1] = batchCh[i + 1]
        BY <2>3, <4>1
      <4>3. batchCh'[i].last < from'
        BY <1>0, <1>a, <2>1, <3>0, <4>1, <4>2 DEF ChainInv
      <4>4. QED
        BY <1>a, <4>1, <4>2, <4>3 DEF ChainInv
    <3>4. QED
      BY <1>0, <2>3, <3>1, <3>2, <3>3
  <2>5. Upcoming' = Upcoming
    BY <1>0, <1>9, UpcomingKept
  <2>6. QED
    BY <1>a, <2>1, <2>2, <2>4, <2>5 DEF QueueInv, HandInv, InHand
<1>10. CASE CloseBatches
  BY <1>0, <1>a, <1>10 DEF CloseBatches, NoFault, QueueInv, FillingInv, ChainInv, HandInv,
       InHand, Upcoming, readerVars, mainVars, chanVars, writerVars
<1>11. CASE Collect
  BY <1>0, <1>a, <1>11 DEF Collect, NoFault, Returns, QueueInv, FillingInv, ChainInv, HandInv,
       InHand, Upcoming, readerVars, mainVars, chanVars, writerVars
<1>12. CASE TakeBatch
  <2>1. UNCHANGED <<from, got, sent, mpc>>
    BY <1>12 DEF TakeBatch, mainVars, readerVars
  <2>2. FillingInv'
    BY <1>a, <2>1 DEF FillingInv
  <2>3. CASE UNCHANGED batchCh /\ wpc' = "sent"
    BY <1>a, <2>1, <2>2, <2>3 DEF QueueInv, ChainInv, HandInv, InHand
  <2>4. CASE batchCh # <<>> /\ cur' = Head(batchCh) /\ batchCh' = Tail(batchCh)
    <3>1. ChainInv' /\ cur' = batchCh[1] /\ Upcoming' = cur'.last + 1
      BY <1>0, <1>a, <2>1, <2>4, TailOfChain
    <3>2. 1 <= cur'.first /\ cur'.first <= cur'.last
      BY <1>0, <1>a, <2>4, <3>1 DEF ChainInv
    <3>3. QED
      BY <2>2, <3>1, <3>2 DEF QueueInv, HandInv
  <2>5. QED
    BY <1>12, <2>3, <2>4 DEF TakeBatch
<1>13. CASE BeginCopy
  BY <1>0, <1>a, <1>13 DEF BeginCopy, OpFails, Fault, NoFault, AttemptFails, GiveUp, QueueInv,
       FillingInv, ChainInv, HandInv, InHand, Upcoming, readerVars, mainVars, chanVars,
       writerVars
<1>14. CASE CommitBatch
  BY <1>0, <1>a, <1>14 DEF CommitBatch, OpFails, Fault, NoFault, AttemptFails, GiveUp,
       Committed, QueueInv, FillingInv, ChainInv, HandInv, InHand, Upcoming, readerVars,
       mainVars, chanVars, writerVars
<1>15. CASE Backoff
  BY <1>0, <1>a, <1>15 DEF Backoff, NoFault, GiveUp, Release, QueueInv, FillingInv, ChainInv,
       HandInv, InHand, Upcoming, readerVars, mainVars, chanVars, writerVars
<1>16. CASE Reacquire
  BY <1>0, <1>a, <1>16 DEF Reacquire, OpFails, Fault, NoFault, GetConn, AttemptFails, GiveUp,
       QueueInv, FillingInv, ChainInv, HandInv, InHand, Upcoming, readerVars, mainVars,
       chanVars, writerVars
<1>17. CASE Reconfigure
  BY <1>0, <1>a, <1>17 DEF Reconfigure, OpFails, Fault, NoFault, Release, AttemptFails, GiveUp,
       QueueInv, FillingInv, ChainInv, HandInv, InHand, Upcoming, readerVars, mainVars,
       chanVars, writerVars
<1>18. CASE Drain
  <2>1. UNCHANGED <<from, got, sent, mpc>> /\ wpc' \in {"drain", "sent"}
    BY <1>18 DEF Drain, mainVars, readerVars
  <2>2. FillingInv' /\ HandInv'
    BY <1>a, <2>1 DEF FillingInv, HandInv, InHand
  <2>3. CASE UNCHANGED batchCh
    BY <1>a, <2>1, <2>2, <2>3 DEF QueueInv, ChainInv
  <2>4. CASE batchCh # <<>> /\ batchCh' = Tail(batchCh)
    BY <1>0, <1>a, <2>1, <2>2, <2>4, TailOfChain DEF QueueInv
  <2>5. QED
    BY <1>18, <2>3, <2>4 DEF Drain
<1>19. CASE ReleaseDeferred
  BY <1>0, <1>a, <1>19 DEF ReleaseDeferred, NoFault, QueueInv, FillingInv, ChainInv, HandInv,
       InHand, Upcoming, readerVars, mainVars, chanVars, writerVars
<1>20. CASE Cancel
  BY <1>0, <1>a, <1>20 DEF Cancel, Fault, QueueInv, FillingInv, ChainInv, HandInv, InHand,
       Upcoming, readerVars, mainVars, chanVars, writerVars
<1>21. CASE PipelineCancel
  BY <1>0, <1>a, <1>21 DEF PipelineCancel, NoFault, QueueInv, FillingInv, ChainInv, HandInv,
       InHand, Upcoming, readerVars, mainVars, chanVars, writerVars
<1>22. CASE UNCHANGED vars
  BY <1>a, <1>22 DEF vars, QueueInv, FillingInv, ChainInv, HandInv, InHand, Upcoming,
       readerVars, mainVars, chanVars, writerVars
<1>23. QED
  BY <1>1, <1>2, <1>3, <1>4, <1>5, <1>6, <1>7, <1>8, <1>9, <1>10, <1>11, <1>12, <1>13, <1>14,
       <1>15, <1>16, <1>17, <1>18, <1>19, <1>20, <1>21, <1>22 DEF Next, ReaderStep, MainStep,
       WriterStep

-----------------------------------------------------------------------------
LEMMA StageInitially == Init => StageInv
BY DEF Init, StageInv

LEMMA StageStep == TypeInv /\ QueueInv /\ StageInv /\ [Next]_vars => StageInv'
<1> SUFFICES ASSUME TypeInv, QueueInv, StageInv, [Next]_vars PROVE StageInv'
  OBVIOUS
<1>0. /\ NumRows \in Nat /\ sent \in 0..NumRows /\ got \in 0..NumRows /\ from \in Nat
      /\ from <= got + 1 /\ got <= sent
  BY CopyConstants DEF TypeInv, TypeOK, ReaderTypes, MainTypes, QueueInv, FillingInv
<1>1. CASE ReadNext
  BY <1>0, <1>1 DEF ReadNext, OpFails, Fault, NoFault, StageInv, readerVars, mainVars, chanVars,
       writerVars
<1>2. CASE ReadSend
  BY <1>0, <1>2 DEF ReadSend, NoFault, RowChLen, StageInv, readerVars, mainVars, chanVars,
       writerVars
<1>3. CASE ReadFail
  BY <1>0, <1>3 DEF ReadFail, NoFault, RowChLen, StageInv, readerVars, mainVars, chanVars,
       writerVars
<1>4. CASE Acquire
  BY <1>0, <1>4 DEF Acquire, OpFails, Fault, NoFault, GetConn, Returns, StageInv, readerVars,
       mainVars, chanVars, writerVars
<1>5. CASE Configure
  BY <1>0, <1>5 DEF Configure, OpFails, Fault, NoFault, Release, Returns, StageInv, readerVars,
       mainVars, chanVars, writerVars
<1>6. CASE Interrupted
  BY <1>0, <1>6 DEF Interrupted, NoFault, Stop, StageInv, readerVars, mainVars, chanVars, writerVars
<1>7. CASE ReceiveRow
  BY <1>0, <1>7 DEF ReceiveRow, NoFault, StageInv, readerVars, mainVars, chanVars, writerVars
<1>8. CASE ReceiveEnd
  BY <1>0, <1>8 DEF ReceiveEnd, NoFault, Stop, StageInv, readerVars, mainVars, chanVars, writerVars
<1>9. CASE SendBatch
  BY <1>0, <1>9 DEF SendBatch, NoFault, NextBatch, StageInv, readerVars, mainVars, chanVars,
       writerVars
<1>10. CASE CloseBatches
  BY <1>0, <1>10 DEF CloseBatches, NoFault, StageInv, readerVars, mainVars, chanVars, writerVars
<1>11. CASE Collect
  BY <1>0, <1>11 DEF Collect, NoFault, Returns, StageInv, readerVars, mainVars, chanVars, writerVars
<1>12. CASE TakeBatch
  BY <1>0, <1>12 DEF TakeBatch, NoFault, StageInv, readerVars, mainVars, chanVars, writerVars
<1>13. CASE BeginCopy
  BY <1>0, <1>13 DEF BeginCopy, OpFails, Fault, NoFault, AttemptFails, GiveUp, StageInv,
       readerVars, mainVars, chanVars, writerVars
<1>14. CASE CommitBatch
  BY <1>0, <1>14 DEF CommitBatch, OpFails, Fault, NoFault, AttemptFails, GiveUp, Committed,
       StageInv, readerVars, mainVars, chanVars, writerVars
<1>15. CASE Backoff
  BY <1>0, <1>15 DEF Backoff, NoFault, GiveUp, Release, StageInv, readerVars, mainVars,
       chanVars, writerVars
<1>16. CASE Reacquire
  BY <1>0, <1>16 DEF Reacquire, OpFails, Fault, NoFault, GetConn, AttemptFails, GiveUp,
       StageInv, readerVars, mainVars, chanVars, writerVars
<1>17. CASE Reconfigure
  BY <1>0, <1>17 DEF Reconfigure, OpFails, Fault, NoFault, Release, AttemptFails, GiveUp,
       StageInv, readerVars, mainVars, chanVars, writerVars
<1>18. CASE Drain
  BY <1>0, <1>18 DEF Drain, NoFault, StageInv, readerVars, mainVars, chanVars, writerVars
<1>19. CASE ReleaseDeferred
  BY <1>0, <1>19 DEF ReleaseDeferred, NoFault, StageInv, readerVars, mainVars, chanVars, writerVars
<1>20. CASE Cancel
  BY <1>0, <1>20 DEF Cancel, Fault, StageInv, readerVars, mainVars, chanVars, writerVars
<1>21. CASE PipelineCancel
  BY <1>0, <1>21 DEF PipelineCancel, NoFault, StageInv, readerVars, mainVars, chanVars, writerVars
<1>22. CASE UNCHANGED vars
  BY <1>22 DEF vars, StageInv, readerVars, mainVars, chanVars, writerVars
<1>23. QED
  BY <1>1, <1>2, <1>3, <1>4, <1>5, <1>6, <1>7, <1>8, <1>9, <1>10, <1>11, <1>12, <1>13, <1>14,
       <1>15, <1>16, <1>17, <1>18, <1>19, <1>20, <1>21, <1>22 DEF Next, ReaderStep, MainStep,
       WriterStep

LEMMA ShapeInvariance == Spec => [](TypeInv /\ QueueInv /\ StageInv)
BY TypeInitially, QueueInitially, StageInitially, TypeStep, QueueStep, StageStep, PTL DEF Spec

LEMMA ConnInitially == Init => ConnInv
BY DEF Init, ConnInv

LEMMA ConnStep == ConnInv /\ [Next]_vars => ConnInv'
<1> SUFFICES ASSUME ConnInv, [Next]_vars PROVE ConnInv'
  OBVIOUS
<1>1. CASE ReadNext
  BY <1>1 DEF ReadNext, OpFails, Fault, NoFault, ConnInv, mainVars, writerVars, connVars
<1>2. CASE ReadSend
  BY <1>2 DEF ReadSend, NoFault, RowChLen, ConnInv, mainVars, writerVars, connVars
<1>3. CASE ReadFail
  BY <1>3 DEF ReadFail, NoFault, RowChLen, ConnInv, mainVars, writerVars, connVars
<1>4. CASE Acquire
  BY <1>4 DEF Acquire, OpFails, Fault, NoFault, GetConn, Returns, ConnInv, mainVars, writerVars,
       connVars
<1>5. CASE Configure
  BY <1>5 DEF Configure, OpFails, Fault, NoFault, Release, Returns, ConnInv, mainVars,
       writerVars, connVars
<1>6. CASE Interrupted
  BY <1>6 DEF Interrupted, NoFault, Stop, ConnInv, mainVars, writerVars, connVars
<1>7. CASE ReceiveRow
  BY <1>7 DEF ReceiveRow, NoFault, ConnInv, mainVars, writerVars, connVars
<1>8. CASE ReceiveEnd
  BY <1>8 DEF ReceiveEnd, NoFault, Stop, ConnInv, mainVars, writerVars, connVars
<1>9. CASE SendBatch
  BY <1>9 DEF SendBatch, NoFault, NextBatch, ConnInv, mainVars, writerVars, connVars
<1>10. CASE CloseBatches
  BY <1>10 DEF CloseBatches, NoFault, ConnInv, mainVars, writerVars, connVars
<1>11. CASE Collect
  BY <1>11 DEF Collect, NoFault, Returns, ConnInv, mainVars, writerVars, connVars
<1>12. CASE TakeBatch
  BY <1>12 DEF TakeBatch, NoFault, ConnInv, mainVars, writerVars, connVars
<1>13. CASE BeginCopy
  BY <1>13 DEF BeginCopy, OpFails, Fault, NoFault, AttemptFails, GiveUp, ConnInv, mainVars,
       writerVars, connVars
<1>14. CASE CommitBatch
  BY <1>14 DEF CommitBatch, OpFails, Fault, NoFault, AttemptFails, GiveUp, Committed, ConnInv,
       mainVars, writerVars, connVars
<1>15. CASE Backoff
  BY <1>15 DEF Backoff, NoFault, GiveUp, Release, ConnInv, mainVars, writerVars, connVars
<1>16. CASE Reacquire
  BY <1>16 DEF Reacquire, OpFails, Fault, NoFault, GetConn, AttemptFails, GiveUp, ConnInv,
       mainVars, writerVars, connVars
<1>17. CASE Reconfigure
  BY <1>17 DEF Reconfigure, OpFails, Fault, NoFault, Release, AttemptFails, GiveUp, ConnInv,
       mainVars, writerVars, connVars
<1>18. CASE Drain
  BY <1>18 DEF Drain, NoFault, ConnInv, mainVars, writerVars, connVars
<1>19. CASE ReleaseDeferred
  BY <1>19 DEF ReleaseDeferred, NoFault, ConnInv, mainVars, writerVars, connVars
<1>20. CASE Cancel
  BY <1>20 DEF Cancel, Fault, ConnInv, mainVars, writerVars, connVars
<1>21. CASE PipelineCancel
  BY <1>21 DEF PipelineCancel, NoFault, ConnInv, mainVars, writerVars, connVars
<1>22. CASE UNCHANGED vars
  BY <1>22 DEF vars, ConnInv, mainVars, writerVars, connVars
<1>23. QED
  BY <1>1, <1>2, <1>3, <1>4, <1>5, <1>6, <1>7, <1>8, <1>9, <1>10, <1>11, <1>12, <1>13, <1>14,
       <1>15, <1>16, <1>17, <1>18, <1>19, <1>20, <1>21, <1>22 DEF Next, ReaderStep, MainStep,
       WriterStep

(* The writer uses only a connection it has not given back, and holds one at *)
(* most: a retry releases the connection before it takes another.            *)
THEOREM ConnectionIsOwned == Spec => []OwnConnection
<1>1. ConnInv => OwnConnection
  <2> SUFFICES ASSUME ConnInv PROVE OwnConnection
    OBVIOUS
  <2>1. wpc \in {"begin", "commit"} => conn \in held
    BY DEF ConnInv
  <2>2. Cardinality(held) <= 1
    <3>1. held \subseteq {conn}
      BY DEF ConnInv
    <3>2. held = {} \/ held = {conn}
      BY <3>1
    <3>3. Cardinality({conn}) = 1
      BY FS_Singleton
    <3>4. Cardinality({}) = 0
      BY FS_EmptySet
    <3>5. QED
      BY <3>2, <3>3, <3>4
  <2>3. QED
    BY <2>1, <2>2 DEF OwnConnection
<1>2. QED
  BY <1>1, ConnInitially, ConnStep, PTL DEF Spec

-----------------------------------------------------------------------------
(* Only a COMMIT changes the target. *)
LEMMA DbStep == [Next]_vars => UNCHANGED db \/ (CommitBatch /\ db' = Committed)
<1> SUFFICES ASSUME [Next]_vars PROVE UNCHANGED db \/ (CommitBatch /\ db' = Committed)
  OBVIOUS
<1>1. CASE ReadNext
  BY <1>1 DEF ReadNext
<1>2. CASE ReadSend
  BY <1>2 DEF ReadSend
<1>3. CASE ReadFail
  BY <1>3 DEF ReadFail
<1>4. CASE Acquire
  BY <1>4 DEF Acquire
<1>5. CASE Configure
  BY <1>5 DEF Configure
<1>6. CASE Interrupted
  BY <1>6 DEF Interrupted
<1>7. CASE ReceiveRow
  BY <1>7 DEF ReceiveRow
<1>8. CASE ReceiveEnd
  BY <1>8 DEF ReceiveEnd
<1>9. CASE SendBatch
  BY <1>9 DEF SendBatch
<1>10. CASE CloseBatches
  BY <1>10 DEF CloseBatches
<1>11. CASE Collect
  BY <1>11 DEF Collect
<1>12. CASE TakeBatch
  BY <1>12 DEF TakeBatch
<1>13. CASE BeginCopy
  BY <1>13 DEF BeginCopy
<1>14. CASE CommitBatch
  BY <1>14 DEF CommitBatch
<1>15. CASE Backoff
  BY <1>15 DEF Backoff
<1>16. CASE Reacquire
  BY <1>16 DEF Reacquire
<1>17. CASE Reconfigure
  BY <1>17 DEF Reconfigure
<1>18. CASE Drain
  BY <1>18 DEF Drain
<1>19. CASE ReleaseDeferred
  BY <1>19 DEF ReleaseDeferred
<1>20. CASE Cancel
  BY <1>20 DEF Cancel
<1>21. CASE PipelineCancel
  BY <1>21 DEF PipelineCancel
<1>22. CASE UNCHANGED vars
  BY <1>22 DEF vars
<1>23. QED
  BY <1>1, <1>2, <1>3, <1>4, <1>5, <1>6, <1>7, <1>8, <1>9, <1>10, <1>11, <1>12, <1>13, <1>14,
       <1>15, <1>16, <1>17, <1>18, <1>19, <1>20, <1>21, <1>22 DEF Next, ReaderStep, MainStep,
       WriterStep

(* The rows handed to the target advance only with a COMMIT that is answered; *)
(* an error of the writer is for good.                                        *)
LEMMA UpToStep ==
  ASSUME TypeInv, QueueInv, StageInv, [Next]_vars, ~wErr'
  PROVE  /\ ~wErr
         /\ \/ UpTo' = UpTo
            \/ CommitBatch /\ wpc' = "recv" /\ UpTo' = cur.last + 1
<1>0. batchCh \in Seq(Batch) /\ from \in Nat
  BY DEF TypeInv, TypeOK, ChanTypes, MainTypes
<1>a. ChainInv /\ HandInv
  BY DEF QueueInv
<1>1. CASE ReadNext
  BY <1>1 DEF ReadNext, OpFails, Fault, NoFault, StageInv, UpTo, Upcoming, InHand, mainVars,
       chanVars, writerVars
<1>2. CASE ReadSend
  BY <1>2 DEF ReadSend, NoFault, RowChLen, StageInv, UpTo, Upcoming, InHand, mainVars, chanVars,
       writerVars
<1>3. CASE ReadFail
  BY <1>3 DEF ReadFail, NoFault, RowChLen, StageInv, UpTo, Upcoming, InHand, mainVars, chanVars,
       writerVars
<1>4. CASE Acquire
  BY <1>4 DEF Acquire, OpFails, Fault, NoFault, GetConn, Returns, StageInv, UpTo, Upcoming,
       InHand, mainVars, chanVars, writerVars
<1>5. CASE Configure
  BY <1>5 DEF Configure, OpFails, Fault, NoFault, Release, Returns, StageInv, UpTo, Upcoming,
       InHand, mainVars, chanVars, writerVars
<1>6. CASE Interrupted
  BY <1>6 DEF Interrupted, NoFault, Stop, StageInv, UpTo, Upcoming, InHand, mainVars, chanVars,
       writerVars
<1>7. CASE ReceiveRow
  BY <1>7 DEF ReceiveRow, NoFault, StageInv, UpTo, Upcoming, InHand, mainVars, chanVars, writerVars
<1>8. CASE ReceiveEnd
  BY <1>8 DEF ReceiveEnd, NoFault, Stop, StageInv, UpTo, Upcoming, InHand, mainVars, chanVars,
       writerVars
<1>9. CASE SendBatch
  BY <1>0, <1>9, UpcomingKept DEF SendBatch, UpTo, InHand, writerVars
<1>10. CASE CloseBatches
  BY <1>10 DEF CloseBatches, NoFault, StageInv, UpTo, Upcoming, InHand, mainVars, chanVars,
       writerVars
<1>11. CASE Collect
  BY <1>11 DEF Collect, NoFault, Returns, StageInv, UpTo, Upcoming, InHand, mainVars, chanVars,
       writerVars
<1>12. CASE TakeBatch
  <2>1. batchCh # <<>> => Head(batchCh) = batchCh[1]
    BY <1>0
  <2>2. QED
    BY <1>12, <2>1 DEF TakeBatch, UpTo, Upcoming, InHand, mainVars
<1>13. CASE BeginCopy
  BY <1>13 DEF BeginCopy, OpFails, Fault, NoFault, AttemptFails, GiveUp, StageInv, UpTo,
       Upcoming, InHand, mainVars, chanVars, writerVars
<1>14. CASE CommitBatch
  BY <1>a, <1>14 DEF CommitBatch, OpFails, Fault, NoFault, AttemptFails, GiveUp, Committed,
       HandInv, UpTo, Upcoming, InHand, mainVars, chanVars, writerVars
<1>15. CASE Backoff
  BY <1>15 DEF Backoff, NoFault, GiveUp, Release, StageInv, UpTo, Upcoming, InHand, mainVars,
       chanVars, writerVars
<1>16. CASE Reacquire
  BY <1>16 DEF Reacquire, OpFails, Fault, NoFault, GetConn, AttemptFails, GiveUp, StageInv,
       UpTo, Upcoming, InHand, mainVars, chanVars, writerVars
<1>17. CASE Reconfigure
  BY <1>17 DEF Reconfigure, OpFails, Fault, NoFault, Release, AttemptFails, GiveUp, StageInv,
       UpTo, Upcoming, InHand, mainVars, chanVars, writerVars
<1>18. CASE Drain
  BY <1>18 DEF Drain, StageInv
<1>19. CASE ReleaseDeferred
  BY <1>19 DEF ReleaseDeferred, NoFault, StageInv, UpTo, Upcoming, InHand, mainVars, chanVars,
       writerVars
<1>20. CASE Cancel
  BY <1>20 DEF Cancel, Fault, StageInv, UpTo, Upcoming, InHand, mainVars, chanVars, writerVars
<1>21. CASE PipelineCancel
  BY <1>21 DEF PipelineCancel, NoFault, StageInv, UpTo, Upcoming, InHand, mainVars, chanVars,
       writerVars
<1>22. CASE UNCHANGED vars
  BY <1>22 DEF vars, UpTo, Upcoming, InHand, mainVars, chanVars, writerVars
<1>23. QED
  BY <1>1, <1>2, <1>3, <1>4, <1>5, <1>6, <1>7, <1>8, <1>9, <1>10, <1>11, <1>12, <1>13, <1>14,
       <1>15, <1>16, <1>17, <1>18, <1>19, <1>20, <1>21, <1>22 DEF Next, ReaderStep, MainStep,
       WriterStep

LEMMA InHandRange ==
  ASSUME TypeInv, QueueInv, InHand
  PROVE  cur.first \in 1..NumRows /\ cur.last \in cur.first..NumRows /\ UpTo = cur.first
<1>1. /\ NumRows \in Nat /\ got \in 0..NumRows /\ from \in Nat /\ cur \in Batch
      /\ batchCh \in Seq(Batch)
  BY CopyConstants DEF TypeInv, TypeOK, MainTypes, WriterTypes, ChanTypes
<1>2. cur.first \in Nat /\ cur.last \in Nat
  BY <1>1 DEF Batch
<1>3. 1 <= cur.first /\ cur.first <= cur.last /\ cur.last + 1 = Upcoming /\ from <= got + 1
  BY DEF QueueInv, HandInv, FillingInv
<1>4. batchCh # <<>> => 1 \in 1..Len(batchCh) /\ batchCh[1] \in Batch
  BY <1>1
<1>5. batchCh # <<>> => /\ batchCh[1].first \in Nat /\ batchCh[1].last \in Nat
                       /\ batchCh[1].first <= batchCh[1].last /\ batchCh[1].last < from
  BY <1>4 DEF QueueInv, ChainInv, Batch
<1>6. Upcoming \in Nat /\ Upcoming <= from
  BY <1>1, <1>5 DEF Upcoming
<1>7. cur.first \in 1..NumRows /\ cur.last \in cur.first..NumRows
  BY <1>1, <1>2, <1>3, <1>6
<1>8. QED
  BY <1>7 DEF UpTo

LEMMA CoveredInitially == Init => Covered
<1> SUFFICES ASSUME Init PROVE Covered
  OBVIOUS
<1>1. UpTo = 1
  BY DEF Init, UpTo, Upcoming, InHand
<1>2. QED
  BY <1>1, CopyConstants DEF Covered, Rows

LEMMA CoveredStep == TypeInv /\ QueueInv /\ StageInv /\ Covered /\ [Next]_vars => Covered'
<1> SUFFICES ASSUME TypeInv, QueueInv, StageInv, Covered, [Next]_vars, ~wErr',
                    NEW r \in Rows, r < UpTo'
             PROVE  db'[r] > 0
  BY DEF Covered
<1>1. db \in [Rows -> Nat]
  BY DEF TypeInv, TypeOK
<1>2. r < UpTo => db[r] > 0
  BY UpToStep DEF Covered
<1>3. CASE UNCHANGED db /\ UpTo' = UpTo
  BY <1>2, <1>3
<1>4. CASE db' = Committed /\ UpTo' = UpTo
  BY <1>1, <1>2, <1>4 DEF Committed
<1>5. CASE CommitBatch /\ wpc' = "recv" /\ UpTo' = cur.last + 1
  <2>1. db' = Committed
    BY <1>5 DEF CommitBatch, AttemptFails, GiveUp
  <2>2. UpTo = cur.first /\ cur.first \in Nat /\ cur.last \in Nat /\ r \in Nat
    BY <1>5, InHandRange, CopyConstants DEF CommitBatch, InHand, Rows
  <2>3. QED
    BY <1>1, <1>2, <1>5, <2>1, <2>2 DEF Committed
<1>6. QED
  BY <1>3, <1>4, <1>5, UpToStep, DbStep

(* A call that returns no error has put every row in the target, whatever *)
(* was retried and whatever answers of the server were lost.               *)
THEOREM NoRowIsMissing == Spec => []NoRowMissing
<1>1. TypeInv /\ StageInv /\ Covered => NoRowMissing
  <2> SUFFICES ASSUME TypeInv, StageInv, Covered, result = "ok", NEW r \in Rows
               PROVE  db[r] > 0
    BY DEF NoRowMissing
  <2>1. ~wErr /\ from = NumRows + 1 /\ wpc \in {"sent", "exit"} /\ batchCh = <<>>
    BY DEF StageInv
  <2>2. UpTo = NumRows + 1
    BY <2>1 DEF UpTo, Upcoming, InHand
  <2>3. QED
    BY <2>1, <2>2, CopyConstants DEF Covered, Rows
<1>2. TypeInv /\ QueueInv /\ StageInv /\ Covered /\ [Next]_vars => Covered'
  BY CoveredStep
<1>3. QED
  BY <1>1, <1>2, ShapeInvariance, CoveredInitially, PTL DEF Spec


-----------------------------------------------------------------------------
(* From here on a COMMIT whose answer is an error has not happened, unless *)
(* ctx is done.                                                            *)
NoLostAnswer == "lost_ack" \notin Faults

LEMMA ExactlyInitially == Init => Exactly
<1> SUFFICES ASSUME Init PROVE Exactly
  OBVIOUS
<1>1. UpTo = 1 /\ wpc = "none" /\ result = "none" /\ db = [r \in Rows |-> 0]
  BY DEF Init, UpTo, Upcoming, InHand
<1>2. QED
  BY <1>1, CopyConstants DEF Exactly, Stored, Rows

(* A batch is committed after the rows before it. *)
LEMMA StoredCommit ==
  ASSUME TypeInv, QueueInv, wpc = "commit", Stored(db, cur.first - 1)
  PROVE  Stored(Committed, cur.last)
<1>1. /\ cur.first \in Nat /\ cur.last \in Nat /\ cur.first <= cur.last
      /\ db \in [Rows -> Nat]
  BY InHandRange, CopyConstants DEF InHand, TypeInv, TypeOK
<1> SUFFICES ASSUME NEW r \in Rows PROVE Committed[r] = IF r <= cur.last THEN 1 ELSE 0
  BY DEF Stored
<1>2. r \in Nat
  BY CopyConstants DEF Rows
<1>3. QED
  BY <1>1, <1>2 DEF Stored, Committed

(* What a COMMIT leaves behind: success, a failure, or a failure that is one *)
(* only for the client, because ctx was done.                                *)
LEMMA CommitOutcome ==
  ASSUME NoLostAnswer, TypeInv, StageInv, CommitBatch
  PROVE  /\ UNCHANGED <<cur, result, cancelled>> /\ result # "ok"
         /\ \/ db' = Committed /\ wpc' = "recv"
            \/ UNCHANGED db /\ (wpc' = "backoff" \/ wErr')
            \/ db' = Committed /\ cancelled /\ (wpc' = "backoff" \/ wErr')
BY DEF NoLostAnswer, CommitBatch, OpFails, Fault, AttemptFails, GiveUp, StageInv, mainVars

LEMMA CommitAdvances ==
  ASSUME QueueInv, CommitBatch, wpc' = "recv"
  PROVE  UpTo' = cur.last + 1
BY DEF CommitBatch, QueueInv, HandInv, InHand, UpTo, Upcoming, mainVars

(* How the writer comes to, and out of, the back-off. *)
LEMMA BackoffStep ==
  ASSUME TypeInv, QueueInv, StageInv, [Next]_vars, ~wErr', ~CommitBatch
  PROVE  /\ cancelled => cancelled'
         /\ wpc' = "backoff" => InHand /\ cur' = cur
         /\ wpc = "backoff" /\ wpc' # "backoff" => ~cancelled /\ UpTo' = cur.first
<1>1. CASE ReadNext
  BY <1>1 DEF ReadNext, OpFails, Fault, NoFault, InHand, writerVars
<1>2. CASE ReadSend
  BY <1>2 DEF ReadSend, NoFault, RowChLen, InHand, writerVars
<1>3. CASE ReadFail
  BY <1>3 DEF ReadFail, NoFault, RowChLen, InHand, writerVars
<1>4. CASE Acquire
  BY <1>4 DEF Acquire, OpFails, Fault, NoFault, GetConn, Returns, StageInv, InHand, writerVars
<1>5. CASE Configure
  BY <1>5 DEF Configure, OpFails, Fault, NoFault, Release, Returns, StageInv, InHand, writerVars
<1>6. CASE Interrupted
  BY <1>6 DEF Interrupted, NoFault, Stop, InHand, writerVars
<1>7. CASE ReceiveRow
  BY <1>7 DEF ReceiveRow, NoFault, InHand, writerVars
<1>8. CASE ReceiveEnd
  BY <1>8 DEF ReceiveEnd, NoFault, Stop, InHand, writerVars
<1>9. CASE SendBatch
  BY <1>9 DEF SendBatch, NoFault, NextBatch, InHand, writerVars
<1>10. CASE CloseBatches
  BY <1>10 DEF CloseBatches, NoFault, InHand, writerVars
<1>11. CASE Collect
  BY <1>11 DEF Collect, NoFault, Returns, InHand, writerVars
<1>12. CASE TakeBatch
  BY <1>12 DEF TakeBatch, NoFault, InHand, writerVars
<1>13. CASE BeginCopy
  BY <1>13 DEF BeginCopy, OpFails, Fault, NoFault, AttemptFails, GiveUp, InHand, writerVars
<1>14. CASE CommitBatch
  BY <1>14
<1>15. CASE Backoff
  BY <1>15 DEF Backoff, GiveUp, UpTo, InHand
<1>16. CASE Reacquire
  BY <1>16 DEF Reacquire, OpFails, Fault, NoFault, GetConn, AttemptFails, GiveUp, InHand, writerVars
<1>17. CASE Reconfigure
  BY <1>17 DEF Reconfigure, OpFails, Fault, NoFault, Release, AttemptFails, GiveUp, InHand,
       writerVars
<1>18. CASE Drain
  BY <1>18 DEF Drain, NoFault, InHand, writerVars
<1>19. CASE ReleaseDeferred
  BY <1>19 DEF ReleaseDeferred, NoFault, InHand, writerVars
<1>20. CASE Cancel
  BY <1>20 DEF Cancel, Fault, InHand, writerVars
<1>21. CASE PipelineCancel
  BY <1>21 DEF PipelineCancel, NoFault, InHand, writerVars
<1>22. CASE UNCHANGED vars
  BY <1>22 DEF vars, InHand, writerVars
<1>23. QED
  BY <1>1, <1>2, <1>3, <1>4, <1>5, <1>6, <1>7, <1>8, <1>9, <1>10, <1>11, <1>12, <1>13, <1>14,
       <1>15, <1>16, <1>17, <1>18, <1>19, <1>20, <1>21, <1>22 DEF Next, ReaderStep, MainStep,
       WriterStep

(* When CopyData is about to return no error every batch is committed. *)
LEMMA ResultStep ==
  ASSUME TypeInv, QueueInv, StageInv, [Next]_vars
  PROVE  \/ UNCHANGED result
         \/ /\ mpc # "returned" /\ UNCHANGED db
            /\ \/ result' = "error"
               \/ /\ result' = "ok" /\ ~wErr /\ wpc # "backoff"
                  /\ UpTo = NumRows + 1
<1>1. CASE ReadNext
  BY <1>1 DEF ReadNext, mainVars
<1>2. CASE ReadSend
  BY <1>2 DEF ReadSend, mainVars
<1>3. CASE ReadFail
  BY <1>3 DEF ReadFail, mainVars
<1>4. CASE Acquire
  BY <1>4 DEF Acquire, mainVars, Returns
<1>5. CASE Configure
  BY <1>5 DEF Configure, mainVars, Returns
<1>6. CASE Interrupted
  BY <1>6 DEF Interrupted, mainVars
<1>7. CASE ReceiveRow
  BY <1>7 DEF ReceiveRow, mainVars
<1>8. CASE ReceiveEnd
  BY <1>8 DEF ReceiveEnd, mainVars
<1>9. CASE SendBatch
  BY <1>9 DEF SendBatch, mainVars
<1>10. CASE CloseBatches
  BY <1>10 DEF CloseBatches, mainVars
<1>11. CASE Collect
  BY <1>11 DEF Collect, Returns, StageInv, UpTo, Upcoming, InHand
<1>12. CASE TakeBatch
  BY <1>12 DEF TakeBatch, mainVars
<1>13. CASE BeginCopy
  BY <1>13 DEF BeginCopy, mainVars
<1>14. CASE CommitBatch
  BY <1>14 DEF CommitBatch, mainVars
<1>15. CASE Backoff
  BY <1>15 DEF Backoff, mainVars
<1>16. CASE Reacquire
  BY <1>16 DEF Reacquire, mainVars
<1>17. CASE Reconfigure
  BY <1>17 DEF Reconfigure, mainVars
<1>18. CASE Drain
  BY <1>18 DEF Drain, mainVars
<1>19. CASE ReleaseDeferred
  BY <1>19 DEF ReleaseDeferred, mainVars
<1>20. CASE Cancel
  BY <1>20 DEF Cancel, mainVars
<1>21. CASE PipelineCancel
  BY <1>21 DEF PipelineCancel, mainVars
<1>22. CASE UNCHANGED vars
  BY <1>22 DEF vars, mainVars
<1>23. QED
  BY <1>1, <1>2, <1>3, <1>4, <1>5, <1>6, <1>7, <1>8, <1>9, <1>10, <1>11, <1>12, <1>13, <1>14,
       <1>15, <1>16, <1>17, <1>18, <1>19, <1>20, <1>21, <1>22 DEF Next, ReaderStep, MainStep,
       WriterStep

LEMMA ExactlyStep ==
  NoLostAnswer /\ TypeInv /\ QueueInv /\ StageInv /\ Exactly /\ [Next]_vars => Exactly'
<1> SUFFICES ASSUME NoLostAnswer, TypeInv, QueueInv, StageInv, Exactly, [Next]_vars
             PROVE  Exactly'
  OBVIOUS
<1>1. NumRows \in Nat
  BY CopyConstants
<1>2. CASE CommitBatch
  <2>1. wpc = "commit" /\ ~wErr /\ InHand
    BY <1>2 DEF CommitBatch, StageInv, InHand
  <2>2. UpTo = cur.first /\ cur.first \in Nat /\ cur.last \in Nat
    BY <2>1, InHandRange, <1>1
  <2>3. Stored(db, cur.first - 1) /\ Stored(Committed, cur.last)
    BY <2>1, <2>2, StoredCommit DEF Exactly
  <2>4. result' # "ok" /\ UNCHANGED <<cur, cancelled>>
    BY <1>2, CommitOutcome
  <2>5. CASE db' = Committed /\ wpc' = "recv"
    <3>1. UpTo' = cur.last + 1
      BY <1>2, <2>5, CommitAdvances
    <3>2. QED
      BY <2>2, <2>3, <2>4, <2>5, <3>1 DEF Exactly
  <2>6. CASE UNCHANGED db /\ (wpc' = "backoff" \/ wErr')
    BY <2>3, <2>4, <2>6 DEF Exactly
  <2>7. CASE db' = Committed /\ cancelled /\ (wpc' = "backoff" \/ wErr')
    BY <2>3, <2>4, <2>7 DEF Exactly
  <2>8. QED
    BY <1>2, <2>5, <2>6, <2>7, CommitOutcome
<1>3. CASE ~CommitBatch
  <2>1. UNCHANGED db
    BY <1>3, DbStep
  <2>2. ASSUME ~wErr', wpc' # "backoff" PROVE Stored(db', UpTo' - 1)
    <3>1. ~wErr /\ UpTo' = UpTo
      BY <1>3, <2>2, UpToStep
    <3>2. CASE wpc = "backoff"
      BY <1>3, <2>1, <2>2, <3>2, BackoffStep DEF Exactly
    <3>3. CASE wpc # "backoff"
      BY <2>1, <3>1, <3>3 DEF Exactly
    <3>4. QED
      BY <3>2, <3>3
  <2>3. ASSUME wpc' = "backoff"
        PROVE  Stored(db', cur'.first - 1) \/ (cancelled' /\ Stored(db', cur'.last))
    <3>1. ~wErr'
      BY <2>3, StageStep DEF StageInv
    <3>2. InHand /\ UNCHANGED cur /\ ~wErr /\ (cancelled => cancelled')
      BY <1>3, <2>3, <3>1, BackoffStep, UpToStep
    <3>3. UpTo = cur.first
      BY <3>2, InHandRange
    <3>4. QED
      BY <2>1, <3>2, <3>3 DEF Exactly
  <2>4. ASSUME result' = "ok" PROVE Stored(db', NumRows)
    BY <1>1, <2>1, <2>4, ResultStep DEF Exactly
  <2>5. QED
    BY <2>2, <2>3, <2>4 DEF Exactly
<1>4. QED
  BY <1>2, <1>3
-----------------------------------------------------------------------------
LEMMA ExactInvariance == ASSUME NoLostAnswer PROVE Spec => []Exactly
<1>1. TypeInv /\ QueueInv /\ StageInv /\ Exactly /\ [Next]_vars => Exactly'
  BY ExactlyStep
<1>2. QED
  BY <1>1, ShapeInvariance, ExactlyInitially, PTL DEF Spec

(* CopyData implements BatchCopy: the target is always a prefix of the     *)
(* source's rows, each row once, and an ok is returned only with all of it. *)
THEOREM BatchCopyImplemented ==
  ASSUME NoLostAnswer PROVE Spec => ImplementsBatchCopy
<1>1. Init => Copy!CopyInit
  <2> SUFFICES ASSUME Init PROVE Copy!CopyInit
    OBVIOUS
  <2>1. db = [r \in 1..NumRows |-> 0] /\ result = "none"
    BY DEF Init, Rows
  <2>2. \A r \in 1..NumRows : ~(r <= 0)
    BY CopyConstants
  <2>3. QED
    BY <2>1, <2>2 DEF Copy!CopyInit, Copy!Prefix
<1>2. TypeInv /\ TypeInv' /\ QueueInv /\ StageInv /\ Exactly /\ Exactly' /\ [Next]_vars
        => [Copy!Commit \/ Copy!Return]_(Copy!batchCopyVars)
  <2> SUFFICES ASSUME TypeInv, TypeInv', QueueInv, StageInv, Exactly, Exactly', [Next]_vars
               PROVE  [Copy!Commit \/ Copy!Return]_(Copy!batchCopyVars)
    OBVIOUS
  <2>1. db \in [Rows -> Nat] /\ db' \in [Rows -> Nat] /\ NumRows \in Nat
    BY CopyConstants DEF TypeInv, TypeOK
  <2>2. CASE CommitBatch
    <3>1. wpc = "commit" /\ ~wErr /\ InHand /\ result = "none"
      BY <2>2 DEF CommitBatch, StageInv, InHand
    <3>2. /\ UpTo = cur.first /\ cur.first \in 1..NumRows
          /\ cur.last \in cur.first..NumRows
      BY <3>1, InHandRange
    <3>3. Stored(db, cur.first - 1) /\ Stored(Committed, cur.last)
      BY <3>1, <3>2, StoredCommit DEF Exactly
    <3>4. UNCHANGED result /\ (UNCHANGED db \/ db' = Committed)
      BY <2>2, CommitOutcome
    <3>5. CASE db' = Committed
      <4>1. db = Copy!Prefix(cur.first - 1) /\ db' = Copy!Prefix(cur.last)
        BY <2>1, <3>3, <3>5 DEF Stored, Copy!Prefix, Rows
      <4>2. cur.first - 1 \in 0..NumRows /\ cur.last \in (cur.first - 1) + 1 .. NumRows
        BY <2>1, <3>2
      <4>3. Copy!Commit
        BY <3>1, <3>4, <4>1, <4>2 DEF Copy!Commit
      <4>4. QED
        BY <4>3
    <3>6. QED
      BY <3>4, <3>5 DEF Copy!batchCopyVars
  <2>3. CASE ~CommitBatch
    <3>1. UNCHANGED db
      BY <2>3, DbStep
    <3>2. CASE UNCHANGED result
      BY <3>1, <3>2 DEF Copy!batchCopyVars
    <3>3. CASE mpc # "returned" /\ result' = "error"
      <4>1. result = "none"
        BY <3>3 DEF StageInv
      <4>2. QED
        BY <3>1, <3>3, <4>1 DEF Copy!Return
    <3>4. CASE mpc # "returned" /\ result' = "ok"
      <4>1. result = "none"
        BY <3>4 DEF StageInv
      <4>2. db = Copy!Prefix(NumRows)
        BY <2>1, <3>1, <3>4 DEF Exactly, Stored, Copy!Prefix, Rows
      <4>3. QED
        BY <3>1, <3>4, <4>1, <4>2 DEF Copy!Return
    <3>5. QED
      BY <3>2, <3>3, <3>4, ResultStep
  <2>4. QED
    BY <2>2, <2>3
<1>3. QED
  BY <1>1, <1>2, ShapeInvariance, ExactInvariance, PTL
     DEF Spec, ImplementsBatchCopy, Copy!CopySpec
=============================================================================
