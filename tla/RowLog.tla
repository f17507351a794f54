------------------------------- MODULE RowLog ------------------------------
(***************************************************************************)
(* What the asynchronous ClickHouse writer promises for one table, whatever*)
(* its buffering: rows reach the table at most once and in the order they  *)
(* were pushed; a row that does not reach it is given up for good, never   *)
(* retried.  Rows are numbered in push order.                              *)
(***************************************************************************)
EXTENDS Integers, Sequences

VARIABLES
  pushed,   \* rows pushed so far: 1 .. pushed
  pending,  \* sequence of the rows accepted and not yet decided
  stored    \* sequence of the rows in the table

vars == <<pushed, pending, stored>>

Init ==
  /\ pushed = 0
  /\ pending = <<>>
  /\ stored = <<>>

(* A push is accepted or refused, never blocked. *)
Accept ==
  /\ pushed' = pushed + 1
  /\ pending' = Append(pending, pushed')
  /\ UNCHANGED stored

Refuse ==
  /\ pushed' = pushed + 1
  /\ UNCHANGED <<pending, stored>>

(* The k oldest pending rows are stored together, or given up together. *)
Store ==
  \E k \in 1 .. Len(pending) :
    /\ stored' = stored \o SubSeq(pending, 1, k)
    /\ pending' = SubSeq(pending, k + 1, Len(pending))
    /\ UNCHANGED pushed

GiveUp ==
  \E k \in 1 .. Len(pending) :
    /\ pending' = SubSeq(pending, k + 1, Len(pending))
    /\ UNCHANGED <<pushed, stored>>

Next == Accept \/ Refuse \/ Store \/ GiveUp

Spec == Init /\ [][Next]_vars
============================================================================
