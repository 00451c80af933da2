----------------------------- MODULE GlobalIds -----------------------------
(***************************************************************************)
(* The id under which the coordinator hands out a package: the shard's id   *)
(* in the high bits of a 64-bit word and the shard's own package id in the  *)
(* low ones.  The word is kept as an unsigned number, as Decode reads it.   *)
(***************************************************************************)
EXTENDS Integers

CONSTANTS
    ShardIds,  \* 2^16: the shard ids the high bits can hold
    LocalIds   \* 2^48: the package ids the low bits can hold

ASSUME GlobalIdsAssumption == ShardIds \in Nat \ {0} /\ LocalIds \in Nat \ {0}

\* The shift drops what does not fit, and the mask does.
Encode(shard, local) == (shard % ShardIds) * LocalIds + (local % LocalIds)

Decode(id) == [shard |-> id \div LocalIds, local |-> id % LocalIds]
=============================================================================
