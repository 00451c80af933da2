------------------------------ MODULE Replica ------------------------------
(***************************************************************************)
(* A shard's replica: shard-sync (cmd/shard-sync/main.go) copies the        *)
(* segment files that the primary lists and serves (internal/api/shard.go), *)
(* and the replica's own SegmentManager (internal/storage/segment.go)       *)
(* reads records from the copies, through its cache of read handles, while  *)
(* they are replaced.                                                      *)
(*                                                                         *)
(* The primary goes on writing, restarts, and may lose what it had not      *)
(* synced, so that an offset is used again.  Both servers cut the newest    *)
(* segment file behind its first footer when they start and write a footer  *)
(* when they are closed: the replica does so to its copies.                *)
(*                                                                         *)
(* A file is a sequence of items of one size: a record, or a footer.  The   *)
(* .idx files and the journal are copied by the same loop; the replica      *)
(* does not read them.                                                     *)
(***************************************************************************)
EXTENDS Naturals, Sequences

CONSTANTS
    Readers,    \* GET requests at the replica
    MaxSegment, \* bound: segment ids are 0 .. MaxSegment
    MaxRecords, \* bound on the records that the primary writes
    MaxFaults,  \* bound on restarts, losses of power and failed requests
    Absent,     \* no such file
    Changed     \* listed with the size of one moment and the sum of another

ASSUME ReplicaAssumption ==
    /\ MaxSegment \in Nat
    /\ MaxRecords \in Nat /\ MaxFaults \in Nat
    /\ Absent # Changed /\ Absent \notin Nat
    /\ Absent \notin Seq(Nat) /\ Changed \notin Seq(Nat)

Segs == 0 .. MaxSegment
Records == 1 .. MaxRecords
Footer == 0

VARIABLES
    dat,       \* dat[s]: segment file s of the primary
    written,   \* the records written so far are 1 .. written
    loc,       \* loc[n]: where record n was written
    committed, \* the records that have a row in the shared database
    lost,      \* the records the primary has lost since
    copy,      \* copy[s]: the replica's file s
    own,       \* the segment whose copy is the replica's activeFile, if any
    cached,    \* cached[s]: the items of the cached read handle of s, or Absent
    same,      \* segments whose handle has the size and time of the copy
    step,      \* where syncOnce is: "idle", "compare", "rename"
    at,        \* the segment it is at
    listed,    \* what the primary has listed
    tmp,       \* what was downloaded
    begun,     \* committed when the round began
    covered,   \* committed before a round began that has come to its end
    read,      \* read[r]: where the reader r is and what it holds
    faults

primaryVars == <<dat, written, loc, committed, lost>>
replicaVars == <<copy, own, cached, same>>
syncVars == <<step, at, listed, tmp, begun>>
vars == <<primaryVars, replicaVars, syncVars, covered, read, faults>>

Fault == faults < MaxFaults /\ faults' = faults + 1

-----------------------------------------------------------------------------
(* The primary.                                                            *)

Top == CHOOSE s \in Segs :
          dat[s] # Absent /\ \A t \in Segs : dat[t] # Absent => t <= s

\* scanValidTail: everything up to the first footer, and that.
Valid(file) ==
    LET footers == {i \in DOMAIN file : file[i] = Footer}
    IN IF footers = {} THEN file
       ELSE SubSeq(file, 1, CHOOSE i \in footers : \A j \in footers : i <= j)

\* What of record n a reader finds at its location in a file.
At(file, n) ==
    IF file # Absent /\ loc[n][2] \in DOMAIN file THEN file[loc[n][2]] ELSE Footer

\* A record goes to the end of the newest segment or, if it does not fit
\* there, behind a footer into a new one.
WriteTo(s, file) ==
    /\ written < MaxRecords
    /\ written' = written + 1
    /\ dat' = [file EXCEPT ![s] = Append(@, written')]
    /\ loc' = [loc EXCEPT ![written'] = <<s, Len(file[s]) + 1>>]
    /\ UNCHANGED <<committed, lost, replicaVars, syncVars, covered, read, faults>>

Write == WriteTo(Top, dat)

Rotate ==
    /\ dat[Top] # << >> /\ Top + 1 \in Segs
    /\ WriteTo(Top + 1, [dat EXCEPT ![Top] = Append(@, Footer), ![Top + 1] = << >>])

\* The batch is synced and its records get their rows.
Commit ==
    /\ committed \cup lost # 1 .. written
    /\ committed' = (1 .. written) \ lost
    /\ UNCHANGED <<dat, written, loc, lost, replicaVars, syncVars, covered, read, faults>>

\* The process ends and starts again with file for its newest segment.
RestartWith(file) ==
    /\ Fault
    /\ dat' = [dat EXCEPT ![Top] = Valid(file)]
    /\ lost' = {n \in 1 .. written : At(dat'[loc[n][1]], n) # n}
    /\ committed' = committed \ lost'
    /\ UNCHANGED <<written, loc, replicaVars, syncVars, covered, read>>

\* A clean stop writes a footer; without power what was not synced may go.
\* Without power too, every committed record is in its place before the start.
PrimaryRestarts ==
    \/ RestartWith(IF dat[Top] = << >> THEN << >> ELSE Append(dat[Top], Footer))
    \/ \E k \in 0 .. Len(dat[Top]) :
          /\ \A i \in (k + 1) .. Len(dat[Top]) : dat[Top][i] \in Records \ committed
          /\ RestartWith(SubSeq(dat[Top], 1, k))

-----------------------------------------------------------------------------
(* syncOnce.                                                               *)

\* The handler takes the size of a file and then its checksum; a file that is
\* written meanwhile gets two that do not belong together.
List ==
    /\ step = "idle"
    /\ step' = "compare" /\ at' = 0 /\ begun' = committed
    /\ listed' \in {dat, [dat EXCEPT ![Top] = Changed]}
    /\ UNCHANGED <<primaryVars, replicaVars, tmp, covered, read, faults>>

\* The round goes on with the next file, or is over.
Onward ==
    IF at = MaxSegment
    THEN /\ step' = "idle" /\ at' = 0
         /\ listed' = [s \in Segs |-> Absent]
         /\ covered' = covered \cup (begun \ lost)
         /\ begun' = {}
    ELSE /\ step' = "compare" /\ at' = at + 1
         /\ UNCHANGED <<listed, begun, covered>>

\* Mutant: the sizes are enough.
SameSize(file, remote) ==
    /\ file # Absent /\ remote # Changed
    /\ Len(file) = Len(remote)

\* Mutant: a file that is there is not copied again.
FileExists(file, remote) == file # Absent

IsFileInSync(file, remote) == file = remote

Skip ==
    /\ step = "compare"
    /\ listed[at] = Absent \/ IsFileInSync(copy[at], listed[at])
    /\ Onward
    /\ UNCHANGED <<primaryVars, replicaVars, tmp, read, faults>>

\* downloadSegment: the primary reads the file as it is now ...
Download ==
    /\ step = "compare"
    /\ listed[at] # Absent /\ ~IsFileInSync(copy[at], listed[at])
    /\ tmp' = dat[at] /\ step' = "rename"
    /\ UNCHANGED <<primaryVars, replicaVars, at, listed, begun, covered, read, faults>>

\* Mutant: a handle is told from the file by its size only.
RenameBySize ==
    /\ step = "rename"
    /\ copy' = [copy EXCEPT ![at] = tmp]
    /\ tmp' = Absent
    /\ same' = IF cached[at] # Absent /\ Len(cached[at]) = Len(tmp) THEN same ELSE same \ {at}
    /\ own' = IF own = at THEN Absent ELSE own
    /\ Onward
    /\ UNCHANGED <<primaryVars, cached, read, faults>>

\* ... and what has come is renamed into its place: a new file.
Rename ==
    /\ step = "rename"
    /\ copy' = [copy EXCEPT ![at] = tmp]
    /\ tmp' = Absent
    /\ same' = same \ {at}
    /\ own' = IF own = at THEN Absent ELSE own
    /\ Onward
    /\ UNCHANGED <<primaryVars, cached, read, faults>>

\* A request fails, or shard-sync is stopped: the round ends there.
SyncFails ==
    /\ step # "idle" /\ Fault
    /\ step' = "idle" /\ at' = 0 /\ tmp' = Absent /\ begun' = {}
    /\ listed' = [s \in Segs |-> Absent]
    /\ UNCHANGED <<primaryVars, replicaVars, covered, read>>

Sync == List \/ Skip \/ Download \/ Rename

-----------------------------------------------------------------------------
(* The replica's server.                                                   *)

\* A request that has not begun, and one that has ended.
Idle == [pc |-> "idle", rec |-> 0, held |-> Absent, closed |-> FALSE,
         right |-> FALSE, sure |-> FALSE]
Over == [Idle EXCEPT !.pc = "over"]

\* recover takes the newest name that begins like a segment file's, that of a
\* download in progress included, and creates the file if there is none.
Newest(s) ==
    LET Names == {t \in Segs : copy[t] # Absent} \cup (IF step = "rename" THEN {at} ELSE {})
    IN IF Names = {} THEN s = 0 ELSE s \in Names /\ \A t \in Names : t <= s

\* The records that a step takes out of the copies.
Cut == {n \in 1 .. written : At(copy[loc[n][1]], n) = n /\ At(copy'[loc[n][1]], n) # n}

\* The server is stopped, cleanly or not, and starts again.  A clean stop
\* writes the footer to the file that was open, if that is still the copy.
ReplicaRestarts ==
    /\ Fault
    /\ \E clean \in BOOLEAN, s \in Segs :
          LET left == IF clean /\ own # Absent /\ copy[own] # << >>
                      THEN [copy EXCEPT ![own] = Append(@, Footer)] ELSE copy
          IN /\ Newest(s)
             /\ copy' = [left EXCEPT ![s] = IF @ = Absent THEN << >> ELSE Valid(@)]
             /\ own' = s
    /\ covered' = covered \ Cut /\ begun' = begun \ Cut
    /\ cached' = [s \in Segs |-> Absent] /\ same' = {}
    /\ read' = [r \in Readers |-> IF read[r].pc = "idle" THEN Idle ELSE Over]
    /\ UNCHANGED <<primaryVars, step, at, listed, tmp>>

Segment(r) == loc[read[r].rec][1]

\* A reader has looked up a record in the database and takes readMu.
Begin(r, n) ==
    /\ read[r].pc = "idle" /\ \A o \in Readers : read[o].pc # "open"
    /\ n \in committed
    /\ UNCHANGED <<primaryVars, copy, own, syncVars, covered, faults>>

Request(n) ==
    [pc |-> "open", rec |-> n, held |-> Absent, closed |-> FALSE,
     right |-> At(copy[loc[n][1]], n) = n, sure |-> n \in covered]

\* Stat: there is no file, the cached handle is that of the file, ...
StatFails(r, n) ==
    /\ Begin(r, n) /\ copy[loc[n][1]] = Absent
    /\ read' = [read EXCEPT ![r] = Over]
    /\ UNCHANGED <<cached, same>>

UseCached(r, n) ==
    /\ Begin(r, n) /\ loc[n][1] \in same
    /\ read' = [read EXCEPT ![r] = [Request(n) EXCEPT !.pc = "read", !.held = cached[loc[n][1]]]]
    /\ UNCHANGED <<cached, same>>

\* ... or it is closed, whoever reads with it, and the file is opened next.
Refresh(r, n) ==
    /\ Begin(r, n) /\ copy[loc[n][1]] # Absent /\ loc[n][1] \notin same
    /\ read' = [o \in Readers |->
                  IF o = r THEN Request(n)
                  ELSE IF read[o].pc = "read" /\ Segment(o) = loc[n][1]
                  THEN [read[o] EXCEPT !.closed = TRUE] ELSE read[o]]
    /\ cached' = [cached EXCEPT ![loc[n][1]] = Absent]
    /\ same' = same \cup {loc[n][1]}

\* Open.  The handle is kept with the size and time from before.
OpenHandle(r) ==
    /\ read[r].pc = "open"
    /\ cached' = [cached EXCEPT ![Segment(r)] = copy[Segment(r)]]
    /\ read' = [read EXCEPT ![r].pc = "read", ![r].held = copy[Segment(r)]]
    /\ UNCHANGED <<primaryVars, copy, own, same, syncVars, covered, faults>>

\* The reads of header, payload and checksum.
ReadAt(r) ==
    /\ read[r].pc = "read"
    /\ read' = [read EXCEPT ![r] =
                  IF read[r].closed \/ At(read[r].held, read[r].rec) = read[r].rec THEN Over
                  ELSE [@ EXCEPT !.pc = "bad", !.held = Absent]]
    /\ UNCHANGED <<primaryVars, replicaVars, syncVars, covered, faults>>

-----------------------------------------------------------------------------

Init ==
    /\ dat = [s \in Segs |-> IF s = 0 THEN << >> ELSE Absent]
    /\ written = 0 /\ loc = [n \in Records |-> <<0, 0>>]
    /\ committed = {} /\ lost = {}
    /\ copy = [s \in Segs |-> IF s = 0 THEN << >> ELSE Absent] /\ own = 0
    /\ cached = [s \in Segs |-> Absent] /\ same = {}
    /\ step = "idle" /\ at = 0 /\ listed = [s \in Segs |-> Absent]
    /\ tmp = Absent /\ begun = {} /\ covered = {}
    /\ read = [r \in Readers |-> Idle]
    /\ faults = 0

Next ==
    \/ Write \/ Rotate \/ Commit \/ PrimaryRestarts
    \/ Sync \/ SyncFails \/ ReplicaRestarts
    \/ \E r \in Readers :
          \/ OpenHandle(r) \/ ReadAt(r)
          \/ \E n \in Records : StatFails(r, n) \/ UseCached(r, n) \/ Refresh(r, n)

Spec == Init /\ [][Next]_vars

\* shard-sync starts a round again and again and goes on with it.
FairSpec == Spec /\ WF_vars(Sync)

-----------------------------------------------------------------------------
(* Properties.                                                             *)

Files == [Segs -> Seq(Records \cup {Footer}) \cup {Absent, Changed}]

\* The types of the variables.
TypeOK ==
    /\ written \in 0 .. MaxRecords /\ loc \in [Records -> Segs \X Nat]
    /\ \A set \in {committed, lost, begun, covered} : set \subseteq 1 .. written
    /\ dat \in Files /\ copy \in Files /\ cached \in Files /\ listed \in Files
    /\ own \in Segs \cup {Absent} /\ same \subseteq Segs
    /\ step \in {"idle", "compare", "rename"} /\ at \in Segs
    /\ \A r \in Readers :
          read[r].pc \in {"idle", "open", "read", "bad", "over"}
    /\ faults \in 0 .. MaxFaults

\* A record that was committed before a round of shard-sync began which came
\* to its end can be read at the replica, through appends, restarts of the
\* primary and offsets that are used again, unless the primary has lost it,
\* a restart of the replica has cut it off, or the handle was closed by
\* another reader (syncOnce, isFileInSync, openReadHandle).
CoveredReadable ==
    \A r \in Readers : read[r].pc = "bad" /\ read[r].sure => read[r].rec \in lost

\* A read that finds the record in the copy when it begins does not miss it
\* through a handle of an older file (openReadHandle).
NoStaleHandle ==
    \A r \in Readers : read[r].pc = "bad" /\ read[r].right => read[r].rec \in lost

\* When the primary rests, the copies become equal to its files and stay so
\* (syncOnce).
ReplicaConverges == <>[](\A s \in Segs : dat[s] # Absent => copy[s] = dat[s])
=============================================================================
