----------------------------- MODULE MCReplica -----------------------------
(* Two readers of a replica, two segments and two records.                  *)
EXTENDS Replica

CONSTANTS r1, r2

MCReaders == {r1, r2}
=============================================================================
