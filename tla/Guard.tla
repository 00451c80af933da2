------------------------------- MODULE Guard -------------------------------
(***************************************************************************)
(* What stands before POST /v1/packages of a shard: ShardGuard             *)
(* (internal/api/shard.go), which the seal handler makes read-only, and     *)
(* the disk write gate of cmd/server/main.go, which closes the guard below  *)
(* MinFree and opens it again at MinFree + Hysteresis.                     *)
(*                                                                         *)
(* Every method of the guard takes its mutex for itself, so a request       *)
(* looks at it in up to three steps, between which the gate and the seal    *)
(* handler go on.  The gate measures the disk and acts on it later.        *)
(***************************************************************************)
EXTENDS Integers

CONSTANTS
    Posts,      \* POST requests
    MinFree,    \* MIN_FREE_DISK_BYTES
    Hysteresis, \* DISK_RESUME_HYSTERESIS_BYTES
    MaxFree,    \* bound: the size of the disk
    Unmeasured  \* nothing measured

ASSUME GuardAssumption ==
    /\ MinFree \in Nat /\ Hysteresis \in Nat /\ MaxFree \in Nat
    /\ Unmeasured \notin Int

VARIABLES
    readOnly,  \* ShardGuard.readOnly
    reason,    \* ShardGuard.writeBlockReason
    measured,  \* what evaluate has measured and not acted on yet
    post,      \* post[r]: where request r is, and the answer it got
    moved,     \* requests during which the gate has closed or opened
    free,      \* the free bytes of the disk
    low, high, \* the least and the greatest free since the process started
    flips      \* how often the gate has closed or opened since then: 0, 1 or
               \* 2 for more

stateVars == <<readOnly, reason>>
diskVars == <<free, low, high>>
guardVars == <<stateVars, measured, post, moved, diskVars, flips>>

Resume == MinFree + Hysteresis

\* The writeBlockReason of a guard that is open.
NoReason == ""

\* The process starts: NewShardGuard with the flag that the configuration and
\* the registration gave, on a disk with f bytes free.
NewShardGuard(flag, f) ==
    /\ readOnly' = flag /\ reason' = NoReason
    /\ measured' = Unmeasured
    /\ free' = f /\ low' = f /\ high' = f /\ flips' = 0
    /\ UNCHANGED <<post, moved>>

\* The process is gone, and its requests with it.
Gone ==
    /\ post' = [r \in Posts |-> IF post[r] = "idle" THEN "idle" ELSE "over"]
    /\ moved' = {}
    /\ readOnly' = FALSE /\ reason' = NoReason /\ measured' = Unmeasured
    /\ free' = 0 /\ low' = 0 /\ high' = 0 /\ flips' = 0

-----------------------------------------------------------------------------
(* runDiskWriteGate.                                                       *)

\* Others use the disk too.
DiskChanges ==
    /\ free' \in (0 .. MaxFree) \ {free}
    /\ low' = IF free' < low THEN free' ELSE low
    /\ high' = IF free' > high THEN free' ELSE high
    /\ UNCHANGED <<stateVars, measured, post, moved, flips>>

\* evaluate asks for the free bytes of the data directories.
MinAvailableBytes ==
    /\ measured = Unmeasured
    /\ measured' = free
    /\ UNCHANGED <<stateVars, post, moved, diskVars, flips>>

\* SetWriteBlockReason.
SetWriteBlockReason(to) ==
    /\ reason' = to
    /\ flips' = IF reason = to \/ flips = 2 THEN flips ELSE flips + 1
    /\ moved' = IF reason = to THEN moved
                ELSE moved \cup {r \in Posts : post[r] \in {"reason", "denied"}}

\* Mutant: the gate opens as soon as there is space again.
EvaluateAtMin ==
    /\ measured # Unmeasured
    /\ measured' = Unmeasured
    /\ SetWriteBlockReason(IF measured < MinFree THEN "disk_full" ELSE NoReason)
    /\ UNCHANGED <<readOnly, post, diskVars>>

\* Mutant: the gate does not open again.
EvaluateCloses ==
    /\ measured # Unmeasured
    /\ measured' = Unmeasured
    /\ SetWriteBlockReason(IF measured < MinFree THEN "disk_full" ELSE reason)
    /\ UNCHANGED <<readOnly, post, diskVars>>

\* evaluate acts on what it has measured.
Evaluate ==
    /\ measured # Unmeasured
    /\ measured' = Unmeasured
    /\ SetWriteBlockReason(IF measured < MinFree THEN "disk_full"
                           ELSE IF reason = "disk_full" /\ measured >= Resume THEN NoReason
                           ELSE reason)
    /\ UNCHANGED <<readOnly, post, diskVars>>

-----------------------------------------------------------------------------
(* The seal handler and the middleware.                                    *)

\* SetReadOnly.
Seal ==
    /\ ~readOnly
    /\ readOnly' = TRUE
    /\ UNCHANGED <<reason, measured, post, moved, diskVars, flips>>

\* writeAllowed looks at readOnly ...
CheckReadOnly(r) ==
    /\ post[r] = "idle"
    /\ post' = [post EXCEPT ![r] = IF readOnly THEN "denied" ELSE "reason"]
    /\ UNCHANGED <<stateVars, measured, moved, diskVars, flips>>

\* ... and then at the reason.
CheckReason(r) ==
    /\ post[r] = "reason"
    /\ post' = [post EXCEPT ![r] = IF reason # NoReason THEN "denied" ELSE "allowed"]
    /\ UNCHANGED <<stateVars, measured, moved, diskVars, flips>>

\* Mutant: the reason is not told.
RefuseForbidden(r) ==
    /\ post[r] = "denied"
    /\ post' = [post EXCEPT ![r] = "403"]
    /\ UNCHANGED <<stateVars, measured, moved, diskVars, flips>>

\* The middleware asks for the reason once more to choose the status.
Refuse(r) ==
    /\ post[r] = "denied"
    /\ post' = [post EXCEPT ![r] = IF reason = "disk_full" THEN "507" ELSE "403"]
    /\ UNCHANGED <<stateVars, measured, moved, diskVars, flips>>

\* The handler has answered.
Answer(r) ==
    /\ post[r] = "allowed"
    /\ post' = [post EXCEPT ![r] = "201"]
    /\ UNCHANGED <<stateVars, measured, moved, diskVars, flips>>

GuardInit ==
    /\ readOnly = FALSE /\ reason = NoReason /\ measured = Unmeasured
    /\ post = [r \in Posts |-> "idle"] /\ moved = {}
    /\ free = 0 /\ low = 0 /\ high = 0 /\ flips = 0

-----------------------------------------------------------------------------
(* Properties.                                                             *)

\* The types of the variables.
GuardTypeOK ==
    /\ readOnly \in BOOLEAN /\ reason \in {NoReason, "disk_full"}
    /\ measured \in (0 .. MaxFree) \cup {Unmeasured}
    /\ post \in [Posts -> {"idle", "reason", "denied", "allowed",
                           "201", "403", "507", "over"}]
    /\ moved \subseteq Posts
    /\ free \in 0 .. MaxFree /\ low \in 0 .. MaxFree /\ high \in 0 .. MaxFree
    /\ flips \in 0 .. 2

\* The gate does not flap: as long as the free space swings by less than
\* Hysteresis, it moves once at most in the life of a process, whenever it
\* measures (runDiskWriteGate).
GateSteady == high - low < Hysteresis => flips <= 1

\* A shard that is not read-only answers 403, which the coordinator takes for
\* an unreachable shard, only if the gate has moved while the request was on
\* its way (middleware).
ForbiddenMeansReadOnly ==
    \A r \in Posts : post[r] = "403" => readOnly \/ r \in moved
=============================================================================
