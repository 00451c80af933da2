---------------------------- MODULE ServerProofs ----------------------------
(***************************************************************************)
(* The invariants of Server for every disk, every set of requests and of    *)
(* dictionaries, and any number of failures.                               *)
(***************************************************************************)
EXTENDS Server, TLAPS

\* A leaf that names no prover is left to Zenon; the others, most of them about
\* numbers, sequences or EXCEPT, name the SMT solver.
USE ZenonT(30)

-----------------------------------------------------------------------------
(* The gate.                                                               *)

\* What the gate has measured lies between the extremes of the disk, and each
\* time it has moved it had seen one of them: it closes below MinFree, and
\* opens at Resume.
DiskInv ==
    /\ free \in Nat /\ low \in Nat /\ high \in Nat /\ low <= free /\ free <= high
    /\ measured # Unmeasured => measured \in Nat /\ low <= measured /\ measured <= high
    /\ reason \in {NoReason, "disk_full"} /\ flips \in 0 .. 2
    /\ flips = 0 => reason = NoReason
    /\ flips = 1 => reason = "disk_full"
    /\ flips > 0 => low < MinFree
    /\ flips > 1 => high >= Resume

\* A server that has measured the disk is open only if there was space.
OpenInv == phase = "listen" /\ reason = NoReason => high >= MinFree

\* Nobody is refused for nothing: the shard is read-only, the gate is closed,
\* or it has moved since.
RefusedInv ==
    \A r \in Posts :
        /\ post[r] = "denied" => readOnly \/ reason = "disk_full" \/ r \in moved
        /\ post[r] = "403" => readOnly \/ r \in moved
        /\ phase = "boot" => post[r] \in {"idle", "over"}

GuardInv == DiskInv /\ OpenInv /\ RefusedInv /\ DOMAIN post = Posts

\* What is known of the disk once a measurement is at hand.
LEMMA Measured ==
    ASSUME DiskInv, measured # Unmeasured
    PROVE  measured \in Nat /\ low <= measured /\ measured <= high
  BY DEF DiskInv

\* The constants of the gate.
LEMMA Thresholds == MinFree \in Nat /\ Resume \in Nat /\ MinFree <= Resume /\ MaxFree \in Nat
  BY GuardAssumption, SMTT(30) DEF Resume

\* The two reasons are not the same.
LEMMA Reasons == NoReason # "disk_full"
  BY DEF NoReason

\* Evaluate closes the gate, opens it, or leaves it.
LEMMA EvaluateCases ==
    ASSUME DiskInv, Evaluate
    PROVE  \/ measured < MinFree /\ SetWriteBlockReason("disk_full")
           \/ measured >= Resume /\ reason = "disk_full" /\ SetWriteBlockReason(NoReason)
           \/ measured >= MinFree /\ SetWriteBlockReason(reason)
  <1>1. measured \in Nat
    BY Measured DEF Evaluate
  <1>2. CASE measured < MinFree
    BY <1>2 DEF Evaluate
  <1>3. CASE ~(measured < MinFree)
    <2>1. measured >= MinFree
      BY <1>1, <1>3, Thresholds, SMTT(30)
    <2>2. CASE reason = "disk_full" /\ measured >= Resume
      BY <1>3, <2>2 DEF Evaluate
    <2>3. CASE ~(reason = "disk_full" /\ measured >= Resume)
      BY <1>3, <2>1, <2>3 DEF Evaluate
    <2> QED BY <2>2, <2>3
  <1> QED BY <1>2, <1>3

\* Evaluate keeps what is known of the disk and the gate.
LEMMA EvaluateDisk ==
    ASSUME DiskInv, Evaluate
    PROVE  DiskInv' /\ (reason' = NoReason => high' >= MinFree)
  <1>1. /\ measured # Unmeasured /\ measured' = Unmeasured
        /\ UNCHANGED <<free, low, high>>
    BY DEF Evaluate, diskVars
  <1>2. measured \in Nat /\ low <= measured /\ measured <= high
    BY <1>1, Measured
  <1>3. /\ free \in Nat /\ low \in Nat /\ high \in Nat /\ low <= free /\ free <= high
        /\ reason \in {NoReason, "disk_full"} /\ flips \in {0, 1, 2}
        /\ flips = 0 => reason = NoReason
        /\ flips = 1 => reason = "disk_full"
        /\ flips > 0 => low < MinFree
        /\ flips > 1 => high >= Resume
    BY SMTT(30) DEF DiskInv
  <1>4. CASE measured < MinFree /\ SetWriteBlockReason("disk_full")
    <2>1. reason' = "disk_full" /\ flips' = (IF reason = "disk_full" \/ flips = 2 THEN flips ELSE flips + 1)
      BY <1>4 DEF SetWriteBlockReason
    <2> QED BY <1>1, <1>2, <1>3, <1>4, <2>1, Thresholds, Reasons, SMTT(30) DEF DiskInv
  <1>5. CASE measured >= Resume /\ reason = "disk_full" /\ SetWriteBlockReason(NoReason)
    <2>1. reason' = NoReason /\ flips' = (IF flips = 2 THEN flips ELSE flips + 1)
      BY <1>5, Reasons DEF SetWriteBlockReason
    <2> QED BY <1>1, <1>2, <1>3, <1>5, <2>1, Thresholds, Reasons, SMTT(30) DEF DiskInv
  <1>6. CASE measured >= MinFree /\ SetWriteBlockReason(reason)
    <2>1. reason' = reason /\ flips' = flips
      BY <1>6 DEF SetWriteBlockReason
    <2> QED BY <1>1, <1>2, <1>3, <1>6, <2>1, Thresholds, Reasons, SMTT(30) DEF DiskInv
  <1> QED BY <1>4, <1>5, <1>6, EvaluateCases

\* A change of the disk and a measurement keep it.
LEMMA MeasureDisk ==
    ASSUME DiskInv, DiskChanges \/ MinAvailableBytes
    PROVE  DiskInv' /\ high <= high' /\ UNCHANGED <<readOnly, reason, post, moved>>
  <1>1. CASE DiskChanges
    <2>1. /\ free' \in Nat
          /\ low' = (IF free' < low THEN free' ELSE low)
          /\ high' = (IF free' > high THEN free' ELSE high)
          /\ UNCHANGED <<readOnly, reason, measured, post, moved, flips>>
      BY <1>1, Thresholds, SMTT(30) DEF DiskChanges, stateVars
    <2>2. low' \in Nat /\ low' <= low /\ low' <= free'
      BY <2>1, SMTT(30) DEF DiskInv
    <2>3. high' \in Nat /\ high <= high' /\ free' <= high'
      BY <2>1, SMTT(30) DEF DiskInv
    <2> QED BY <2>1, <2>2, <2>3, Thresholds, Reasons, SMTT(30) DEF DiskInv
  <1>2. CASE MinAvailableBytes
    BY <1>2, SMTT(30) DEF DiskInv, MinAvailableBytes, stateVars, diskVars
  <1> QED BY <1>1, <1>2

\* A new guard and the end of the process start over.
LEMMA FreshDisk ==
    ASSUME NEW f \in Nat, free' = f, low' = f, high' = f, flips' = 0, reason' = NoReason,
           measured' = Unmeasured
    PROVE  DiskInv'
  BY SMTT(30) DEF DiskInv

\* Evaluate lets nobody down who was refused before.
LEMMA EvaluateRefused ==
    ASSUME RefusedInv, Evaluate, phase # "boot", phase' # "boot"
    PROVE  RefusedInv'
  <1> SUFFICES ASSUME NEW r \in Posts
               PROVE  /\ post'[r] = "denied" => readOnly' \/ reason' = "disk_full" \/ r \in moved'
                      /\ post'[r] = "403" => readOnly' \/ r \in moved'
    BY DEF RefusedInv
  <1>1. UNCHANGED <<readOnly, post>>
    BY DEF Evaluate
  <1>2. \/ moved' = moved /\ reason' = reason
        \/ moved' = moved \cup {s \in Posts : post[s] \in {"reason", "denied"}}
    BY DEF Evaluate, SetWriteBlockReason
  <1>3. /\ post[r] = "denied" => readOnly \/ reason = "disk_full" \/ r \in moved
        /\ post[r] = "403" => readOnly \/ r \in moved
    BY DEF RefusedInv
  <1> QED BY <1>1, <1>2, <1>3

\* A step that leaves the guard alone and does not go back to the start.
LEMMA GuardAlone ==
    ASSUME GuardInv, UNCHANGED guardVars, phase' = phase \/ (phase' = "blind" /\ phase # "boot")
    PROVE  GuardInv'
  BY DEF GuardInv, DiskInv, OpenInv, RefusedInv, guardVars, stateVars, diskVars

\* The seal handler and the middleware.
LEMMA HandleStep ==
    ASSUME GuardInv, Handle
    PROVE  GuardInv'
  <1>1. Serving /\ phase # "boot" /\ phase' = phase
    BY DEF Handle, Serving
  <1>2. UNCHANGED <<reason, measured, moved, free, low, high, flips>>
    BY DEF Handle, Seal, CheckReadOnly, CheckReason, Refuse, stateVars, diskVars
  <1>3. DiskInv' /\ OpenInv'
    BY <1>1, <1>2 DEF GuardInv, DiskInv, OpenInv
  <1>4. reason \in {NoReason, "disk_full"}
    BY DEF GuardInv, DiskInv
  <1>5. DOMAIN post = Posts /\ RefusedInv
    BY DEF GuardInv
  <1>6. CASE Seal
    BY <1>1, <1>2, <1>3, <1>5, <1>6 DEF GuardInv, RefusedInv, Seal
  <1>7. ASSUME NEW r \in Posts, CheckReadOnly(r) \/ CheckReason(r) \/ Refuse(r)
        PROVE  GuardInv'
    <2>1. readOnly' = readOnly
      BY <1>7 DEF CheckReadOnly, CheckReason, Refuse, stateVars
    <2>2. DOMAIN post' = Posts /\ \A s \in Posts \ {r} : post'[s] = post[s]
      BY <1>5, <1>7 DEF CheckReadOnly, CheckReason, Refuse
    <2>3. /\ post'[r] = "denied" => readOnly \/ reason = "disk_full"
          /\ post'[r] = "403" => post[r] = "denied" /\ reason # "disk_full"
      BY <1>4, <1>5, <1>7 DEF CheckReadOnly, CheckReason, Refuse
    <2>4. post'[r] = "403" => readOnly \/ r \in moved
      BY <1>5, <2>3 DEF RefusedInv
    <2>5. RefusedInv'
      BY <1>1, <1>2, <1>5, <2>1, <2>2, <2>3, <2>4 DEF RefusedInv
    <2> QED BY <1>3, <2>2, <2>5 DEF GuardInv
  <1> QED BY <1>6, <1>7 DEF Handle

\* Every step keeps the invariant of the guard.
LEMMA GuardStep == GuardInv /\ [Next]_vars => GuardInv'
  <1> SUFFICES ASSUME GuardInv, [Next]_vars PROVE GuardInv'
    OBVIOUS
  <1>1. CASE UNCHANGED vars
    <2>1. UNCHANGED guardVars
      BY <1>1 DEF vars
    <2>2. phase' = phase
      BY <1>1 DEF vars
    <2> QED BY <2>1, <2>2, GuardAlone
  <1>2. CASE Boot \/ MeasureFails \/ Unpack \/ Outside
    <2>1. UNCHANGED guardVars
      BY <1>2 DEF Boot, MeasureFails, Unpack, Outside
    <2>2. phase' = phase \/ (phase' = "blind" /\ phase # "boot")
      <3>1. CASE MeasureFails
        BY <3>1 DEF MeasureFails
      <3>2. CASE Boot \/ Unpack \/ Outside
        <4>1. phase' = phase
          BY <3>2 DEF Boot, Unpack, Outside
        <4> QED BY <4>1
      <3> QED BY <1>2, <3>1, <3>2
    <2> QED BY <2>1, <2>2, GuardAlone
  <1>3. CASE Register
    <2>1. PICK flag \in BOOLEAN, f \in 0 .. MaxFree : NewShardGuard(flag, f)
      BY <1>3 DEF Register
    <2>2. phase = "boot" /\ phase' = "gate"
      BY <1>3 DEF Register
    <2>3. DiskInv'
      BY <2>1, FreshDisk, Thresholds, SMTT(30) DEF NewShardGuard
    <2>4. post' = post
      BY <2>1 DEF NewShardGuard
    <2>5. RefusedInv'
      BY <2>2, <2>4 DEF GuardInv, RefusedInv
    <2> QED BY <2>2, <2>3, <2>4, <2>5 DEF GuardInv, OpenInv
  <1>4. CASE Gate
    <2>1. CASE MinAvailableBytes /\ UNCHANGED phase
      <3>1. DiskInv' /\ high <= high' /\ UNCHANGED <<readOnly, reason, post, moved>>
        BY <2>1, MeasureDisk DEF GuardInv
      <3>2. OpenInv'
        BY <2>1, <3>1, Thresholds, SMTT(30) DEF GuardInv, OpenInv, DiskInv
      <3> QED BY <2>1, <3>1, <3>2 DEF GuardInv, RefusedInv
    <2>2. CASE Evaluate /\ phase' = "listen"
      <3>1. DiskInv' /\ (reason' = NoReason => high' >= MinFree)
        BY <2>2, EvaluateDisk DEF GuardInv
      <3>2. RefusedInv'
        BY <1>4, <2>2, EvaluateRefused DEF GuardInv, Gate
      <3>3. post' = post
        BY <2>2 DEF Evaluate
      <3> QED BY <3>1, <3>2, <3>3 DEF GuardInv, OpenInv
    <2> QED BY <1>4, <2>1, <2>2 DEF Gate
  <1>5. CASE Disk
    <2>1. DiskInv' /\ high <= high' /\ UNCHANGED <<readOnly, reason, post, moved>>
      BY <1>5, MeasureDisk DEF GuardInv, Disk
    <2>2. phase' = phase
      BY <1>5 DEF Disk
    <2>3. OpenInv'
      BY <2>1, <2>2, Thresholds, SMTT(30) DEF GuardInv, OpenInv, DiskInv
    <2> QED BY <2>1, <2>2, <2>3 DEF GuardInv, RefusedInv
  <1>6. CASE Handle
    BY <1>6, HandleStep
  <1>7. ASSUME NEW r \in Posts, CreatePackage(r) PROVE GuardInv'
    <2>1. /\ post' = [post EXCEPT ![r] = "201"] /\ phase' = phase /\ post[r] = "allowed"
          /\ UNCHANGED <<readOnly, reason, measured, moved, free, low, high, flips>>
      BY <1>7 DEF CreatePackage, Answer, stateVars, diskVars
    <2>2. DiskInv' /\ OpenInv'
      BY <2>1 DEF GuardInv, DiskInv, OpenInv
    <2>3. phase # "boot"
      BY <2>1 DEF GuardInv, RefusedInv
    <2>4. RefusedInv'
      BY <2>1, <2>3 DEF GuardInv, RefusedInv
    <2> QED BY <2>1, <2>2, <2>4 DEF GuardInv
  <1>8. CASE Ends
    <2>1. /\ phase' = "boot" /\ Gone
      BY <1>8 DEF Ends
    <2>2. DiskInv'
      BY <2>1, FreshDisk DEF Gone
    <2>3. /\ DOMAIN post' = Posts
          /\ \A r \in Posts : post'[r] \in {"idle", "over"}
      BY <2>1 DEF Gone
    <2> QED BY <2>1, <2>2, <2>3 DEF GuardInv, OpenInv, RefusedInv
  <1> QED BY <1>1, <1>2, <1>3, <1>4, <1>5, <1>6, <1>7, <1>8 DEF Next

\* The invariant of the guard holds at all times.
LEMMA GuardInvariant == Spec => []GuardInv
  <1>1. Init => GuardInv
    BY SMTT(30) DEF Init, GuardInit, GuardInv, DiskInv, OpenInv, RefusedInv
  <1> QED BY <1>1, GuardStep, PTL DEF Spec

\* The gate moves once at most in the life of a process while the free space
\* swings by less than the hysteresis, on every disk and whenever it measures
\* (runDiskWriteGate).
THEOREM Steady == Spec => []GateSteady
  <1>1. GuardInv => GateSteady
    BY Thresholds, GuardAssumption, SMTT(30) DEF GuardInv, DiskInv, GateSteady, Resume
  <1> QED BY <1>1, GuardInvariant, PTL

\* A request that is answered 403 met a shard that is read-only, or a gate that
\* moved on its way, for any number of requests (middleware).
THEOREM Forbidden == Spec => []ForbiddenMeansReadOnly
  <1>1. GuardInv => ForbiddenMeansReadOnly
    BY DEF GuardInv, RefusedInv, ForbiddenMeansReadOnly
  <1> QED BY <1>1, GuardInvariant, PTL

\* No request gets through on a disk that never had MinFree bytes free, unless
\* it could not be measured (main, runDiskWriteGate).
THEOREM Space == Spec => AllowedWithSpace
  <1>1. ASSUME GuardInv, [Next]_vars, NEW r \in Posts, LetThrough(r)
        PROVE  phase = "blind" \/ high >= MinFree
    <2>1. Handle
      <3>1. post' # post /\ post'[r] = "allowed" /\ post[r] # "allowed"
        BY <1>1 DEF LetThrough
      <3>2. post'[r] # "over" /\ post'[r] # "201"
        BY <3>1
      <3>3. ~Ends
        BY <3>1 DEF Ends, Gone
      <3>4. ~(\E s \in Posts : CreatePackage(s))
        BY <1>1, <3>1 DEF CreatePackage, Answer, GuardInv
      <3>5. ~(UNCHANGED vars) /\ ~Boot /\ ~MeasureFails /\ ~Unpack /\ ~Outside
        BY <3>1 DEF vars, guardVars, Boot, MeasureFails, Unpack, Outside
      <3>6. ~Register /\ ~Disk
        BY <3>1 DEF Register, NewShardGuard, Disk, DiskChanges
      <3>7. ~Gate
        BY <3>1 DEF Gate, MinAvailableBytes, Evaluate
      <3> QED BY <1>1, <3>3, <3>4, <3>5, <3>6, <3>7 DEF Next
    <2>2. ~Seal
      BY <1>1 DEF Seal, LetThrough
    <2>3. PICK s \in Posts : CheckReadOnly(s) \/ CheckReason(s) \/ Refuse(s)
      BY <2>1, <2>2 DEF Handle
    <2>4. reason = NoReason
      BY <1>1, <2>3 DEF CheckReadOnly, CheckReason, Refuse, LetThrough, GuardInv
    <2> QED BY <1>1, <2>1, <2>4 DEF Handle, Serving, GuardInv, OpenInv
  <1>2. GuardInv /\ [Next]_vars =>
          [\A r \in Posts : LetThrough(r) => phase = "blind" \/ high >= MinFree]_vars
    BY <1>1
  <1> QED BY <1>2, GuardInvariant, PTL DEF Spec, AllowedWithSpace

-----------------------------------------------------------------------------
(* The dictionary.                                                         *)

InTable(d) == \E i \in DOMAIN rows : rows[i] = d

\* As long as the primary has its sidecar, every record was compressed with
\* the dictionary that current.json points to, and so is the next: a start
\* comes to the table, or trains, only without a pointer.
SidecarInv ==
    ~bare =>
        /\ boot = "ready" => current = dict
        /\ boot \in {"latest", "train", "row", "file", "pointer", "mirrorFile", "mirrorPointer"}
              => current = None
        /\ \A d \in stored : d = None \/ d = current

\* Every dictionary that is in use has a row, and a start that found no row
\* found no record with a dictionary either.
TableInv ==
    /\ rows \in Seq(Dicts) /\ saved \subseteq Dicts
    /\ current \in Dicts => InTable(current)
    /\ boot \in {"file", "pointer", "mirrorFile", "mirrorPointer", "ready"} /\ dict # None
          => InTable(dict)
    /\ \A d \in stored : d = None \/ InTable(d)
    /\ boot \in {"latest", "train"} => dict = None
    /\ boot = "train" \/ (boot = "ready" /\ dict = None) => \A d \in stored : d = None
    /\ boot \in {"row", "file", "pointer", "mirrorFile", "mirrorPointer"} => dict \in Dicts
    /\ boot = "down" => dict = None

\* A table that does not change, or grows, keeps its dictionaries.
LEMMA TableGrows ==
    ASSUME rows \in Seq(Dicts), NEW d \in Dicts, rows' = Append(rows, d)
    PROVE  /\ rows' \in Seq(Dicts) /\ InTable(d)'
           /\ \A e : InTable(e) => InTable(e)'
  <1>1. /\ rows' \in Seq(Dicts) /\ Len(rows') = Len(rows) + 1 /\ Len(rows) \in Nat
        /\ DOMAIN rows' = 1 .. Len(rows) + 1 /\ DOMAIN rows = 1 .. Len(rows)
        /\ rows'[Len(rows) + 1] = d
        /\ \A i \in 1 .. Len(rows) : rows'[i] = rows[i]
    BY SMTT(30)
  <1> QED BY <1>1, SMTT(30) DEF InTable

\* The table as it is.
LEMMA TableSame ==
    ASSUME rows' = rows
    PROVE  \A e : InTable(e)' <=> InTable(e)
  BY DEF InTable

\* The steps of the start keep the invariant of the sidecar.
LEMMA BootSidecar ==
    ASSUME SidecarInv, TableInv, BootStep \/ MirrorFails
    PROVE  SidecarInv'
  <1>1. CASE LoadCurrent
    BY <1>1 DEF SidecarInv, TableInv, LoadCurrent, fileVars
  <1>2. CASE GetLatestDictionary
    BY <1>2 DEF SidecarInv, GetLatestDictionary, fileVars
  <1>3. CASE Train
    BY <1>3, SMTT(30) DEF SidecarInv, TableInv, Train, fileVars
  <1>4. CASE SaveDictionary
    BY <1>4 DEF SidecarInv, SaveDictionary, fileVars
  <1>5. CASE SaveFile
    BY <1>5 DEF SidecarInv, SaveFile
  <1>6. CASE SavePointer
    BY <1>6 DEF SidecarInv, SavePointer
  <1>7. CASE MirrorFails
    BY <1>7 DEF SidecarInv, MirrorFails, fileVars
  <1> QED BY <1>1, <1>2, <1>3, <1>4, <1>5, <1>6, <1>7 DEF BootStep

\* The steps of the start keep the invariant of the table.
LEMMA BootTable ==
    ASSUME TableInv, BootStep \/ MirrorFails
    PROVE  TableInv'
  <1> USE DictionaryAssumption
  <1>1. CASE LoadCurrent
    <2>1. rows' = rows /\ UNCHANGED <<current, saved, stored>>
      BY <1>1 DEF LoadCurrent, fileVars
    <2>2. CASE current = None
      <3>1. boot' = "latest" /\ dict' = dict /\ boot = "down"
        BY <1>1, <2>2 DEF LoadCurrent
      <3> QED BY <2>1, <3>1, TableSame DEF TableInv
    <2>3. CASE current # None
      <3>1. boot' = "ready" /\ dict' = current
        BY <1>1, <2>3 DEF LoadCurrent
      <3>2. current \in saved
        BY <1>1, <2>3 DEF LoadCurrent, Loadable
      <3> QED BY <2>1, <2>3, <3>1, <3>2, TableSame DEF TableInv
    <2> QED BY <2>2, <2>3
  <1>2. CASE GetLatestDictionary
    <2>1. rows' = rows /\ UNCHANGED <<current, saved, stored>> /\ dict = None
      BY <1>2 DEF GetLatestDictionary, fileVars, TableInv
    <2>2. CASE rows = << >>
      <3>1. boot' = "train" /\ dict' = dict
        BY <1>2, <2>2 DEF GetLatestDictionary
      <3>2. \A d : ~InTable(d)
        BY <2>2, SMTT(30) DEF InTable
      <3>3. \A d \in stored' : d = None
        BY <2>1, <3>2 DEF TableInv
      <3> QED BY <2>1, <3>1, <3>3, TableSame DEF TableInv
    <2>3. CASE rows # << >>
      <3>1. boot' = "mirrorFile" /\ dict' = rows[Len(rows)]
        BY <1>2, <2>3 DEF GetLatestDictionary
      <3>2. Len(rows) \in DOMAIN rows
        BY <2>3, SMTT(30) DEF TableInv
      <3>3. InTable(dict') /\ dict' \in Dicts
        BY <3>1, <3>2, SMTT(30) DEF InTable, TableInv
      <3> QED BY <2>1, <3>1, <3>3, TableSame DEF TableInv
    <2> QED BY <2>2, <2>3
  <1>3. CASE Train
    <2>1. rows' = rows /\ UNCHANGED <<current, saved, stored>> /\ boot = "train" /\ dict = None
      BY <1>3 DEF Train, fileVars, TableInv
    <2>2. CASE boot' = "ready" /\ dict' = dict
      BY <2>1, <2>2, TableSame DEF TableInv
    <2>3. CASE boot' = "row" /\ dict' \in Dicts
      BY <2>1, <2>3, TableSame DEF TableInv
    <2> QED BY <1>3, <2>2, <2>3 DEF Train
  <1>4. CASE SaveDictionary
    <2>1. /\ rows' = Append(rows, dict) /\ UNCHANGED <<current, saved, stored, dict>>
          /\ boot = "row" /\ boot' = "file"
      BY <1>4 DEF SaveDictionary, fileVars
    <2>2. dict \in Dicts /\ rows \in Seq(Dicts)
      BY <2>1 DEF TableInv
    <2>3. /\ rows' \in Seq(Dicts) /\ InTable(dict)'
          /\ \A e : InTable(e) => InTable(e)'
      BY <2>1, <2>2, TableGrows
    <2> QED BY <2>1, <2>2, <2>3 DEF TableInv
  <1>5. CASE SaveFile
    <2>1. /\ rows' = rows /\ UNCHANGED <<current, stored, dict>> /\ saved' = saved \cup {dict}
          /\ boot \in {"file", "mirrorFile"} /\ boot' \in {"pointer", "mirrorPointer"}
      BY <1>5 DEF SaveFile
    <2> QED BY <2>1, TableSame DEF TableInv
  <1>6. CASE SavePointer
    <2>1. /\ rows' = rows /\ UNCHANGED <<saved, stored, dict>> /\ current' = dict
          /\ boot \in {"pointer", "mirrorPointer"} /\ boot' = "ready"
      BY <1>6 DEF SavePointer
    <2> QED BY <2>1, TableSame DEF TableInv
  <1>7. CASE MirrorFails
    <2>1. /\ rows' = rows /\ UNCHANGED <<current, saved, stored, dict>>
          /\ boot \in {"mirrorFile", "mirrorPointer"} /\ boot' = "ready"
      BY <1>7 DEF MirrorFails, fileVars
    <2> QED BY <2>1, TableSame DEF TableInv
  <1> QED BY <1>1, <1>2, <1>3, <1>4, <1>5, <1>6, <1>7 DEF BootStep

\* What comes after the start: the records, the failures and the others who
\* write to the table.
LEMMA LaterSteps ==
    ASSUME SidecarInv, TableInv,
           Store \/ Flushed \/ ReplicaTrains \/ Rebuild \/ Crash \/ PowerLoss
    PROVE  SidecarInv' /\ TableInv'
  <1> USE DictionaryAssumption
  <1>1. CASE Store
    <2>1. /\ stored' = stored \cup {dict} /\ boot = "ready"
          /\ UNCHANGED <<rows, saved, current, boot, dict, bare>>
      BY <1>1 DEF Store, fileVars
    <2>2. SidecarInv'
      BY <2>1 DEF SidecarInv
    <2>3. TableInv'
      BY <2>1, TableSame DEF TableInv
    <2> QED BY <2>2, <2>3
  <1>2. CASE Flushed
    <2>1. UNCHANGED <<rows, saved, current, boot, dict, stored, bare>>
      BY <1>2 DEF Flushed
    <2> QED BY <2>1, TableSame DEF SidecarInv, TableInv
  <1>3. CASE ReplicaTrains \/ Rebuild
    <2>1. UNCHANGED <<saved, current, boot, dict, stored, bare>>
      BY <1>3 DEF ReplicaTrains, Rebuild, fileVars
    <2>2. rows \in Seq(Dicts)
      BY DEF TableInv
    <2>3. \E d \in Dicts : rows' = Append(rows, d)
      BY <1>3 DEF ReplicaTrains, Rebuild, TableInv
    <2>4. /\ rows' \in Seq(Dicts)
          /\ \A e : InTable(e) => InTable(e)'
      BY <2>2, <2>3, TableGrows
    <2>5. SidecarInv'
      BY <2>1 DEF SidecarInv
    <2>6. TableInv'
      BY <2>1, <2>4 DEF TableInv
    <2> QED BY <2>5, <2>6
  <1>4. CASE Crash
    <2>1. /\ boot' = "down" /\ dict' = None
          /\ UNCHANGED <<rows, saved, current, stored, bare>>
      BY <1>4 DEF Crash, Exit, fileVars
    <2>2. SidecarInv'
      BY <2>1 DEF SidecarInv
    <2>3. TableInv'
      BY <2>1, TableSame DEF TableInv
    <2> QED BY <2>2, <2>3
  <1>5. CASE PowerLoss
    <2>1. /\ boot' = "down" /\ dict' = None /\ bare' /\ current' \in {None, Torn}
          /\ UNCHANGED <<rows, saved, stored>>
      BY <1>5 DEF PowerLoss, Exit
    <2>2. SidecarInv'
      BY <2>1 DEF SidecarInv
    <2>3. TableInv'
      BY <2>1, TableSame DEF TableInv
    <2> QED BY <2>2, <2>3
  <1> QED BY <1>1, <1>2, <1>3, <1>4, <1>5

\* Both invariants hold at all times.
LEMMA DictionaryInvariant == Spec => [](SidecarInv /\ TableInv)
  <1>1. Init => SidecarInv /\ TableInv
    <2> SUFFICES ASSUME Init PROVE SidecarInv /\ TableInv
      OBVIOUS
    <2>1. /\ rows = << >> /\ saved = {} /\ current = None /\ boot = "down" /\ dict = None
          /\ stored = {}
      BY DEF Init, DictionaryInit
    <2> QED BY <2>1, DictionaryAssumption, SMTT(30) DEF SidecarInv, TableInv
  <1>2. SidecarInv /\ TableInv /\ [Next]_vars => SidecarInv' /\ TableInv'
    <2> SUFFICES ASSUME SidecarInv, TableInv, [Next]_vars PROVE SidecarInv' /\ TableInv'
      OBVIOUS
    <2>1. CASE UNCHANGED dictionaryVars
      <3>1. UNCHANGED <<rows, saved, current, boot, dict, stored, bare>>
        BY <2>1 DEF dictionaryVars, fileVars
      <3> QED BY <3>1, TableSame DEF SidecarInv, TableInv
    <2>2. CASE Boot
      BY <2>2, BootSidecar, BootTable DEF Boot
    <2>3. CASE Unpack \/ Outside \/ Ends \/ \E r \in Posts : CreatePackage(r)
      BY <2>3, LaterSteps DEF Unpack, Outside, Ends, CreatePackage
    <2>4. CASE Register \/ Gate \/ MeasureFails \/ Disk \/ Handle \/ UNCHANGED vars
      BY <2>1, <2>4 DEF Register, Gate, MeasureFails, Disk, Handle, vars
    <2> QED BY <2>2, <2>3, <2>4 DEF Next
  <1> QED BY <1>1, <1>2, PTL DEF Spec

\* A primary that has had its sidecar at every start decodes all its records,
\* whatever dictionaries a replica or a rebuild puts into the table
\* (BootstrapEncoder, Sidecar.Save).
THEOREM Sidecar == Spec => []SidecarDecodes
  <1>1. SidecarInv => SidecarDecodes
    BY DEF SidecarInv, SidecarDecodes, Decodable
  <1> QED BY <1>1, DictionaryInvariant, PTL

\* As long as all rows of the table hold one dictionary, a primary decodes all
\* its records with or without its sidecar (GetLatestDictionary).
THEOREM Table == Spec => []TableDecodes
  <1>1. TableInv => TableDecodes
    <2> SUFFICES ASSUME TableInv, boot = "ready", \A i, j \in DOMAIN rows : rows[i] = rows[j],
                        NEW d \in stored, d # None
                 PROVE  d = dict
      BY DEF TableDecodes, Decodable
    <2>1. InTable(d) /\ dict # None
      BY DEF TableInv
    <2>2. InTable(dict)
      BY <2>1 DEF TableInv
    <2> QED BY <2>1, <2>2 DEF InTable
  <1> QED BY <1>1, DictionaryInvariant, PTL

-----------------------------------------------------------------------------
(* The types.                                                              *)

\* The steps of the start keep the types of the dictionary's variables.
LEMMA BootTyped ==
    ASSUME DictionaryTypeOK, TableInv, BootStep \/ MirrorFails
    PROVE  DictionaryTypeOK'
  <1> USE DictionaryAssumption
  <1>1. CASE LoadCurrent
    BY <1>1 DEF DictionaryTypeOK, LoadCurrent, Loadable, fileVars
  <1>2. CASE GetLatestDictionary
    <2>1. CASE rows = << >>
      BY <1>2, <2>1 DEF DictionaryTypeOK, GetLatestDictionary, fileVars
    <2>2. CASE rows # << >>
      <3>1. rows[Len(rows)] \in Dicts
        BY <2>2, SMTT(30) DEF DictionaryTypeOK
      <3>2. boot' = "mirrorFile" /\ dict' \in Dicts
        BY <1>2, <2>2, <3>1 DEF GetLatestDictionary
      <3> QED BY <1>2, <3>2 DEF DictionaryTypeOK, GetLatestDictionary, fileVars
    <2> QED BY <2>1, <2>2
  <1>3. CASE Train
    BY <1>3 DEF DictionaryTypeOK, Train, fileVars
  <1>4. CASE SaveDictionary
    <2>1. dict \in Dicts
      BY <1>4 DEF TableInv, SaveDictionary
    <2>2. rows' \in Seq(Dicts)
      BY <1>4, <2>1, TableGrows DEF DictionaryTypeOK, SaveDictionary
    <2> QED BY <1>4, <2>2 DEF DictionaryTypeOK, SaveDictionary, fileVars
  <1>5. CASE SaveFile
    <2>1. dict \in Dicts
      BY <1>5 DEF TableInv, SaveFile
    <2> QED BY <1>5, <2>1 DEF DictionaryTypeOK, SaveFile
  <1>6. CASE SavePointer
    BY <1>6 DEF DictionaryTypeOK, SavePointer
  <1>7. CASE MirrorFails
    BY <1>7, SMTT(30) DEF DictionaryTypeOK, MirrorFails, fileVars
  <1> QED BY <1>1, <1>2, <1>3, <1>4, <1>5, <1>6, <1>7 DEF BootStep

\* So do the others.
LEMMA LaterTyped ==
    ASSUME DictionaryTypeOK,
           Store \/ Flushed \/ ReplicaTrains \/ Rebuild \/ Crash \/ PowerLoss
    PROVE  DictionaryTypeOK'
  <1> USE DictionaryAssumption
  <1>1. CASE Store
    BY <1>1 DEF DictionaryTypeOK, Store, fileVars
  <1>2. CASE Flushed
    BY <1>2 DEF DictionaryTypeOK, Flushed
  <1>3. CASE ReplicaTrains \/ Rebuild
    <2>1. PICK d \in Dicts : rows' = Append(rows, d)
      BY <1>3 DEF DictionaryTypeOK, ReplicaTrains, Rebuild
    <2>2. rows' \in Seq(Dicts)
      BY <2>1, TableGrows DEF DictionaryTypeOK
    <2> QED BY <1>3, <2>2 DEF DictionaryTypeOK, ReplicaTrains, Rebuild, fileVars
  <1>4. CASE Crash
    BY <1>4, SMTT(30) DEF DictionaryTypeOK, Crash, Exit, fileVars
  <1>5. CASE PowerLoss
    <2>1. errors' \in 0 .. MaxErrors
      BY <1>5, SMTT(30) DEF DictionaryTypeOK, PowerLoss, Exit
    <2>2. /\ UNCHANGED <<rows, saved, stored, replica>> /\ fresh' = FALSE /\ bare' = TRUE
          /\ current' \in {None, Torn} /\ boot' = "down" /\ dict' = None
      BY <1>5 DEF PowerLoss, Exit
    <2> QED BY <2>1, <2>2 DEF DictionaryTypeOK
  <1> QED BY <1>1, <1>2, <1>3, <1>4, <1>5

\* The guard, the gate and the requests.
LEMMA GuardTyped ==
    ASSUME GuardTypeOK, [Next]_vars
    PROVE  GuardTypeOK'
  <1>1. CASE UNCHANGED guardVars
    BY <1>1 DEF GuardTypeOK, guardVars, stateVars, diskVars
  <1>2. CASE Register
    <2>1. PICK flag \in BOOLEAN, f \in 0 .. MaxFree : NewShardGuard(flag, f)
      BY <1>2 DEF Register
    <2> QED BY <2>1, SMTT(30) DEF GuardTypeOK, NewShardGuard
  <1>3. CASE MinAvailableBytes
    BY <1>3 DEF GuardTypeOK, MinAvailableBytes, stateVars, diskVars
  <1>4. CASE Evaluate
    <2>1. /\ measured' = Unmeasured
          /\ UNCHANGED <<readOnly, post, free, low, high>>
          /\ \E to \in {NoReason, "disk_full"} : SetWriteBlockReason(to)
      BY <1>4 DEF GuardTypeOK, Evaluate, diskVars
    <2>2. reason' \in {NoReason, "disk_full"} /\ moved' \subseteq Posts
      BY <2>1 DEF GuardTypeOK, SetWriteBlockReason
    <2>3. flips' \in 0 .. 2
      <3>1. flips' = flips \/ (flips # 2 /\ flips' = flips + 1)
        BY <2>1 DEF SetWriteBlockReason
      <3> QED BY <3>1, SMTT(30) DEF GuardTypeOK
    <2> QED BY <2>1, <2>2, <2>3 DEF GuardTypeOK
  <1>5. CASE DiskChanges
    <2>1. /\ UNCHANGED <<readOnly, reason, measured, post, moved, flips>>
          /\ free' \in 0 .. MaxFree /\ low' \in {free', low} /\ high' \in {free', high}
      BY <1>5 DEF DiskChanges, stateVars
    <2> QED BY <2>1 DEF GuardTypeOK
  <1>6. CASE Seal
    BY <1>6 DEF GuardTypeOK, Seal, diskVars
  <1>7. ASSUME NEW r \in Posts,
               CheckReadOnly(r) \/ CheckReason(r) \/ Refuse(r) \/ Answer(r)
        PROVE  GuardTypeOK'
    <2>1. /\ UNCHANGED <<readOnly, reason, measured, moved, free, low, high, flips>>
          /\ \E a \in {"reason", "denied", "allowed", "201", "403", "507"} :
                 post' = [post EXCEPT ![r] = a]
      BY <1>7 DEF CheckReadOnly, CheckReason, Refuse, Answer, stateVars, diskVars
    <2> QED BY <2>1 DEF GuardTypeOK
  <1>8. CASE Gone
    <2>1. 0 \in 0 .. MaxFree /\ 0 \in 0 .. 2 /\ NoReason \in {NoReason, "disk_full"}
      BY Thresholds, SMTT(30)
    <2>2. post' \in [Posts -> {"idle", "over"}]
      BY <1>8 DEF Gone
    <2>3. post' \in [Posts -> {"idle", "reason", "denied", "allowed",
                               "201", "403", "507", "over"}]
      BY <2>2
    <2>4. /\ moved' = {} /\ readOnly' = FALSE /\ reason' = NoReason /\ measured' = Unmeasured
          /\ free' = 0 /\ low' = 0 /\ high' = 0 /\ flips' = 0
      BY <1>8 DEF Gone
    <2> QED BY <2>1, <2>3, <2>4 DEF GuardTypeOK
  <1>9. CASE UNCHANGED vars \/ Boot \/ MeasureFails \/ Unpack \/ Outside
    <2>1. UNCHANGED guardVars
      BY <1>9 DEF vars, Boot, MeasureFails, Unpack, Outside
    <2> QED BY <1>1, <2>1
  <1>10. CASE Gate
    BY <1>3, <1>4, <1>10 DEF Gate
  <1>11. CASE Disk
    BY <1>5, <1>11 DEF Disk
  <1>12. CASE Handle
    BY <1>6, <1>7, <1>12 DEF Handle
  <1>13. CASE \E r \in Posts : CreatePackage(r)
    BY <1>7, <1>13 DEF CreatePackage
  <1>14. CASE Ends
    BY <1>8, <1>14 DEF Ends
  <1> QED BY <1>2, <1>9, <1>10, <1>11, <1>12, <1>13, <1>14 DEF Next

\* The types of the variables hold, and the server is registered, measures the
\* disk and listens only with an encoder (main, BootstrapEncoder).
THEOREM Typed == Spec => []TypeOK
  <1>1. Init => TypeOK
    <2> SUFFICES ASSUME Init PROVE TypeOK
      OBVIOUS
    <2>1. DictionaryTypeOK
      <3>1. 0 \in 0 .. MaxErrors /\ << >> \in Seq(Dicts)
        BY DictionaryAssumption, SMTT(30)
      <3> QED BY <3>1 DEF Init, DictionaryInit, DictionaryTypeOK
    <2>2. GuardTypeOK
      <3>1. 0 \in 0 .. MaxFree /\ 0 \in 0 .. 2 /\ NoReason \in {NoReason, "disk_full"}
        BY Thresholds, SMTT(30)
      <3>2. post \in [Posts -> {"idle", "reason", "denied", "allowed",
                                "201", "403", "507", "over"}]
        BY DEF Init, GuardInit
      <3> QED BY <3>1, <3>2 DEF Init, GuardInit, GuardTypeOK
    <2>3. phase = "boot"
      BY DEF Init
    <2> QED BY <2>1, <2>2, <2>3 DEF TypeOK
  <1>2. TypeOK /\ TableInv /\ [Next]_vars => TypeOK'
    <2> SUFFICES ASSUME TypeOK, TableInv, [Next]_vars PROVE TypeOK'
      OBVIOUS
    <2>1. /\ DictionaryTypeOK /\ GuardTypeOK /\ phase \in {"boot", "gate", "listen", "blind"}
          /\ phase # "boot" => boot = "ready"
      BY DEF TypeOK
    <2>2. GuardTypeOK'
      BY <2>1, GuardTyped
    <2>3. DictionaryTypeOK'
      <3>1. CASE UNCHANGED dictionaryVars
        BY <2>1, <3>1 DEF DictionaryTypeOK, dictionaryVars, fileVars
      <3>2. CASE UNCHANGED vars \/ Register \/ Gate \/ MeasureFails \/ Disk \/ Handle
        <4>1. UNCHANGED dictionaryVars
          BY <3>2 DEF vars, Register, Gate, MeasureFails, Disk, Handle
        <4> QED BY <3>1, <4>1
      <3>3. CASE Boot
        BY <2>1, <3>3, BootTyped DEF Boot
      <3>4. CASE (\E r \in Posts : CreatePackage(r)) \/ Unpack \/ Outside \/ Ends
        BY <2>1, <3>4, LaterTyped DEF CreatePackage, Unpack, Outside, Ends
      <3> QED BY <3>2, <3>3, <3>4 DEF Next
    <2>4. /\ phase' \in {"boot", "gate", "listen", "blind"}
          /\ phase' # "boot" => boot' = "ready"
      <3>1. CASE UNCHANGED vars
        BY <2>1, <3>1 DEF vars, dictionaryVars
      <3>2. CASE Register \/ Gate \/ MeasureFails \/ Disk \/ Handle
        <4>1. UNCHANGED boot /\ phase' \in {phase, "gate", "listen", "blind"}
              /\ (phase # "boot" \/ boot = "ready")
          <5>1. CASE Register
            BY <5>1 DEF Register, dictionaryVars
          <5>2. CASE Gate
            BY <5>2 DEF Gate, dictionaryVars
          <5>3. CASE MeasureFails
            BY <5>3 DEF MeasureFails, dictionaryVars
          <5>4. CASE Disk
            BY <5>4 DEF Disk, dictionaryVars
          <5>5. CASE Handle
            BY <5>5 DEF Handle, Serving, dictionaryVars
          <5> QED BY <3>2, <5>1, <5>2, <5>3, <5>4, <5>5
        <4> QED BY <2>1, <4>1
      <3>3. CASE Boot
        <4>1. boot # "ready"
          BY <3>3 DEF Boot, BootStep, MirrorFails, LoadCurrent, GetLatestDictionary, Train,
                      SaveDictionary, SaveFile, SavePointer
        <4>2. phase' = phase
          BY <3>3 DEF Boot
        <4> QED BY <2>1, <4>1, <4>2
      <3>4. CASE (\E r \in Posts : CreatePackage(r)) \/ Unpack \/ Outside
        <4>1. phase' = phase /\ boot' = boot
          BY <3>4 DEF CreatePackage, Unpack, Outside, Store, Flushed, ReplicaTrains, Rebuild
        <4> QED BY <2>1, <4>1
      <3>5. CASE Ends
        BY <3>5 DEF Ends
      <3> QED BY <3>1, <3>2, <3>3, <3>4, <3>5 DEF Next
    <2> QED BY <2>2, <2>3, <2>4 DEF TypeOK
  <1> QED BY <1>1, <1>2, DictionaryInvariant, PTL DEF Spec
=============================================================================
