----------------------------- MODULE MCSegments -----------------------------
(***************************************************************************)
(* Segments for TLC.  A segment of 5 holds a record of 1 and a record of 2 *)
(* with a footer between and behind them and nothing more, so that a store *)
(* can go on in a segment that was closed before.  The third record does   *)
(* not fit in any segment: it gets one of its own.                         *)
(***************************************************************************)
EXTENDS Segments

CONSTANTS w1, w2, w3

MCWrites == {w1, w2, w3}
MCRecordSize == [w \in MCWrites |-> IF w = w1 THEN 1 ELSE IF w = w2 THEN 2 ELSE 6]

\* Two records that never fit together, for the liveness run.
MCWrites2 == {w1, w2}
MCRecordSize2 == [w \in MCWrites2 |-> 3]
=============================================================================
