------------------------------- MODULE Server -------------------------------
(***************************************************************************)
(* The life of a primary, as main of cmd/server/main.go puts it together:  *)
(* the encoder with its dictionary (Dictionary), the unpack queue, the      *)
(* registration, the guard and its gate (Guard), and then the listener.     *)
(* The process may end at every step and starts again from the first.      *)
(***************************************************************************)
EXTENDS Dictionary, Guard

VARIABLE phase  \* what main has come to: "boot", "gate", or it listens:
                \* "listen", "blind" before a first measurement has succeeded

vars == <<dictionaryVars, guardVars, phase>>

Serving == phase \in {"listen", "blind"}

Init == DictionaryInit /\ GuardInit /\ phase = "boot"

\* RegisterShardWithRetry tells whether the coordinator holds the shard for
\* sealed; the guard is made with it.
Register ==
    /\ boot = "ready" /\ phase = "boot"
    /\ \E sealed \in BOOLEAN, f \in 0 .. MaxFree : NewShardGuard(sealed, f)
    /\ phase' = "gate"
    /\ UNCHANGED dictionaryVars

\* Mutant: the server listens before the gate has looked at the disk.
GateLater ==
    /\ phase \in {"gate", "listen", "blind"}
    /\ MinAvailableBytes \/ Evaluate
    /\ phase' = "listen"
    /\ UNCHANGED dictionaryVars

\* runDiskWriteGate evaluates once before the server listens, and then at
\* every tick.
Gate ==
    /\ phase # "boot"
    /\ \/ MinAvailableBytes /\ UNCHANGED phase
       \/ Evaluate /\ phase' = "listen"
    /\ UNCHANGED dictionaryVars

\* A measurement that fails leaves the gate as it is.
MeasureFails ==
    /\ phase = "gate" /\ measured = Unmeasured
    /\ phase' = "blind"
    /\ UNCHANGED <<dictionaryVars, guardVars>>

Disk ==
    /\ phase # "boot" /\ DiskChanges
    /\ UNCHANGED <<dictionaryVars, phase>>

\* The seal handler, and the middleware up to the handler of the request.
Handle ==
    /\ Serving
    /\ \/ Seal
       \/ \E r \in Posts : CheckReadOnly(r) \/ CheckReason(r) \/ Refuse(r)
    /\ UNCHANGED <<dictionaryVars, phase>>

\* CreatePackage stores what it was sent and answers.
CreatePackage(r) ==
    /\ Store /\ Answer(r)
    /\ UNCHANGED phase

\* A worker of the unpack queue stores a file: the queue runs as soon as
\* there is an encoder, whatever the coordinator says of the shard.
Unpack ==
    /\ Store
    /\ UNCHANGED <<guardVars, phase>>

Boot ==
    /\ BootStep \/ MirrorFails
    /\ UNCHANGED <<guardVars, phase>>

\* The disk, the table and the replica do their part.
Outside ==
    /\ Flushed \/ ReplicaTrains \/ Rebuild
    /\ UNCHANGED <<guardVars, phase>>

Ends ==
    /\ Crash \/ PowerLoss
    /\ Gone /\ phase' = "boot"

Next ==
    \/ Boot \/ Register \/ Gate \/ MeasureFails \/ Disk \/ Handle
    \/ (\E r \in Posts : CreatePackage(r)) \/ Unpack \/ Outside \/ Ends

Spec == Init /\ [][Next]_vars

\* The start goes on, and the ticker of the gate fires.
FairSpec == Spec /\ WF_vars(Boot) /\ WF_vars(Register) /\ WF_vars(Gate)

-----------------------------------------------------------------------------
(* Properties.                                                             *)

\* The types of the variables.
TypeOK ==
    /\ DictionaryTypeOK /\ GuardTypeOK
    /\ phase \in {"boot", "gate", "listen", "blind"}
    /\ phase # "boot" => boot = "ready"

\* A request gets through only if the disk had MinFree bytes free at some
\* time since this process started, unless no measurement has succeeded yet:
\* the gate evaluates before the server listens (main, runDiskWriteGate).
LetThrough(r) == post[r] # "allowed" /\ post'[r] = "allowed"

AllowedWithSpace ==
    [][\A r \in Posts : LetThrough(r) => phase = "blind" \/ high >= MinFree]_vars

\* The server listens in the end, unless the pointer of its sidecar was torn
\* by a loss of power (main, LoadCurrent, Sidecar.Save).
ServerStarts == <>[](Serving \/ current = Torn)

\* The gate follows the disk: when the free space stays below MinFree it
\* closes for good, when it stays at MinFree + Hysteresis or above it opens
\* (runDiskWriteGate).
GateFollows ==
    /\ <>[](Serving /\ free < MinFree) => <>[](reason = "disk_full")
    /\ <>[](Serving /\ free >= Resume) => <>[](reason = NoReason)
=============================================================================
