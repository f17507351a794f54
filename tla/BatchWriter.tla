---------------------------- MODULE BatchWriter ----------------------------
(***************************************************************************)
(* The asynchronous ClickHouse writer                                      *)
(* (internal/analytics/batch_writer.go and flush.go) for one of its five   *)
(* row types.  The row types share nothing but the context and the         *)
(* connection: each has its own channel and its own flushLoop goroutine.   *)
(*                                                                         *)
(* Rows are numbered in push order.  A flush is split in two, its start    *)
(* (the buffer is taken and replaced) and its outcome: reconciles push     *)
(* rows and the manager cancels the context while ClickHouse works.        *)
(***************************************************************************)
EXTENDS Integers, Sequences

CONSTANTS
  ChannelSize,      \* defaultChannelSize: 4096 in the code
  MaxRows,          \* bound on the rows pushed in a behaviour
  ClickHouseFails   \* whether a flush under a live context can fail

ASSUME WriterAssumption ==
  /\ ChannelSize \in Nat \ {0}
  /\ MaxRows \in Nat
  /\ ClickHouseFails \in BOOLEAN

VARIABLES
  pushed,      \* rows pushed so far: 1 .. pushed
  ch,          \* the buffered channel
  buf,         \* the loop's local buffer
  batch,       \* the rows of the flush under way
  pc,          \* where flushLoop is
  cancelled,   \* ctx is cancelled
  stored,      \* the rows in the ClickHouse table
  flushErrors, \* FlushErrors{table}: dropped rows and failed flushes
  rowsWritten  \* RowsWritten{table}

vars == <<pushed, ch, buf, batch, pc, cancelled, stored, flushErrors,
          rowsWritten>>

RowSeq == Seq(1 .. MaxRows)

TypeOK ==
  /\ pushed \in 0 .. MaxRows
  /\ ch \in RowSeq /\ Len(ch) <= ChannelSize
  /\ buf \in RowSeq
  /\ batch \in RowSeq
  /\ pc \in {"select", "flush", "drain", "lastFlush", "done"}
  /\ cancelled \in BOOLEAN
  /\ stored \in RowSeq
  /\ flushErrors \in Nat
  /\ rowsWritten \in Nat

Init ==
  /\ pushed = 0
  /\ ch = <<>>
  /\ buf = <<>>
  /\ batch = <<>>
  /\ pc = "select"
  /\ cancelled = FALSE
  /\ stored = <<>>
  /\ flushErrors = 0
  /\ rowsWritten = 0

RowsOf(s) == {s[i] : i \in 1 .. Len(s)}

----------------------------------------------------------------------------
(* Push*: a select with a default, so it never blocks. *)

(* Mutant: one row too many. *)
ChannelFullOffByOne == Len(ch) > ChannelSize

ChannelFull == Len(ch) >= ChannelSize

Push ==
  /\ pushed < MaxRows
  /\ ~ChannelFull
  /\ pushed' = pushed + 1
  /\ ch' = Append(ch, pushed')
  /\ UNCHANGED <<buf, batch, pc, cancelled, stored, flushErrors, rowsWritten>>

PushDropped ==
  /\ pushed < MaxRows
  /\ ChannelFull
  /\ pushed' = pushed + 1
  /\ flushErrors' = flushErrors + 1
  /\ UNCHANGED <<ch, buf, batch, pc, cancelled, stored, rowsWritten>>

----------------------------------------------------------------------------
(* flushLoop *)

Received ==
  /\ ch # <<>>
  /\ buf' = Append(buf, Head(ch))
  /\ ch' = Tail(ch)

(* The three cases of the select; Go picks any that is ready. *)

Receive ==
  /\ pc = "select"
  /\ Received
  /\ UNCHANGED <<pushed, batch, pc, cancelled, stored, flushErrors, rowsWritten>>

(* Mutant: the buffer is not replaced. *)
TakeBufferAndKeepIt(step) ==
  /\ buf # <<>>
  /\ batch' = buf
  /\ pc' = step
  /\ UNCHANGED buf

(* doFlush takes the buffer; an empty one is not flushed. *)
TakeBuffer(step) ==
  /\ buf # <<>>
  /\ batch' = buf
  /\ buf' = <<>>
  /\ pc' = step

(* Mutant: only a batch of at least two rows is flushed. *)
TickerWaitsForMore ==
  /\ pc = "select"
  /\ Len(buf) > 1
  /\ TakeBuffer("flush")
  /\ UNCHANGED <<pushed, ch, cancelled, stored, flushErrors, rowsWritten>>

TickerFires ==
  /\ pc = "select"
  /\ TakeBuffer("flush")
  /\ UNCHANGED <<pushed, ch, cancelled, stored, flushErrors, rowsWritten>>

SeeCancel ==
  /\ pc = "select"
  /\ cancelled
  /\ pc' = "drain"
  /\ UNCHANGED <<pushed, ch, buf, batch, cancelled, stored, flushErrors, rowsWritten>>

(* The inner loop empties the channel, then flushes once more and returns. *)

Drain ==
  /\ pc = "drain"
  /\ Received
  /\ UNCHANGED <<pushed, batch, pc, cancelled, stored, flushErrors, rowsWritten>>

DrainFlush ==
  /\ pc = "drain"
  /\ ch = <<>>
  /\ TakeBuffer("lastFlush")
  /\ UNCHANGED <<pushed, ch, cancelled, stored, flushErrors, rowsWritten>>

(* Mutant: the inner loop returns only after a flush. *)
DrainEmptySpins ==
  /\ pc = "drain"
  /\ ch = <<>> /\ buf = <<>>
  /\ UNCHANGED vars

DrainEmpty ==
  /\ pc = "drain"
  /\ ch = <<>> /\ buf = <<>>
  /\ pc' = "done"
  /\ UNCHANGED <<pushed, ch, buf, batch, cancelled, stored, flushErrors, rowsWritten>>

(* The flush function: PrepareBatch, Append, Send with the loop's ctx. *)

AfterFlush == IF pc = "flush" THEN "select" ELSE "done"

FlushSucceeds ==
  /\ pc \in {"flush", "lastFlush"}
  /\ stored' = stored \o batch
  /\ rowsWritten' = rowsWritten + Len(batch)
  /\ batch' = <<>>
  /\ pc' = AfterFlush
  /\ UNCHANGED <<pushed, ch, buf, cancelled, flushErrors>>

(* A flush under a cancelled context, or under a live one when ClickHouse is
   in trouble, can fail: the error is logged and the rows are given up. *)
FlushCanFail ==
  /\ pc \in {"flush", "lastFlush"}
  /\ cancelled \/ ClickHouseFails

(* Mutant: RowsWritten is updated before the error is looked at. *)
GiveUpBatchAsWritten ==
  /\ flushErrors' = flushErrors + 1
  /\ rowsWritten' = rowsWritten + Len(batch)
  /\ batch' = <<>>
  /\ pc' = AfterFlush
  /\ UNCHANGED <<pushed, ch, buf, cancelled>>

GiveUpBatch ==
  /\ flushErrors' = flushErrors + 1
  /\ batch' = <<>>
  /\ pc' = AfterFlush
  /\ UNCHANGED <<pushed, ch, buf, cancelled, rowsWritten>>

FlushFails ==
  /\ FlushCanFail
  /\ GiveUpBatch
  /\ UNCHANGED stored

(* Send returns an error although the server took the batch. *)
FlushUnacknowledged ==
  /\ FlushCanFail
  /\ GiveUpBatch
  /\ stored' = stored \o batch

----------------------------------------------------------------------------

(* The manager stops the operator. *)
Cancel ==
  /\ ~cancelled
  /\ cancelled' = TRUE
  /\ UNCHANGED <<pushed, ch, buf, batch, pc, stored, flushErrors, rowsWritten>>

FlushLoop ==
  \/ Receive \/ TickerFires \/ SeeCancel
  \/ Drain \/ DrainFlush \/ DrainEmpty
  \/ FlushSucceeds \/ FlushFails \/ FlushUnacknowledged

Next == Push \/ PushDropped \/ FlushLoop \/ Cancel

Spec == Init /\ [][Next]_vars

(* The loop runs, flushes end (the driver has its own timeouts), the ticker
   fires, and select, which picks among the ready cases at random, does not
   ignore a cancelled context for ever. *)
Fairness ==
  /\ WF_vars(FlushLoop)
  /\ SF_vars(SeeCancel)

FairSpec == Spec /\ Fairness

----------------------------------------------------------------------------
(***************************************************************************)
(* Properties                                                              *)
(***************************************************************************)

(* Everything accepted and not yet decided, oldest first. *)
Pending == batch \o buf \o ch

Log == INSTANCE RowLog WITH pending <- Pending

(* The writer implements the row log: through channel, buffer and flush, rows
   are stored at most once and in push order, and none is resurrected after it
   was given up. *)
ImplementsRowLog == Log!Spec

(* The counters tell the truth: no row vanishes uncounted (one that is neither
   stored nor on its way was counted in FlushErrors, by a full channel or a failed
   flush), and RowsWritten never claims a row that is not in the table. *)
CountersHonest ==
  /\ 1 .. pushed # RowsOf(stored) \cup RowsOf(Pending) => flushErrors > 0
  /\ rowsWritten <= Len(stored)

(* Shutdown is not held up: once the context is cancelled the loop returns,
   and with it Start. *)
StartReturns == cancelled ~> pc = "done"

(* A row pushed to a running writer is decided: it does not wait for ever in
   the channel or the buffer. *)
RowsDecided == \A r \in 1 .. MaxRows : r \in RowsOf(Pending) /\ pc # "done"
                                         ~> r \notin RowsOf(Pending) \/ pc = "done"
============================================================================
