------------------------------- MODULE Blobs --------------------------------
(***************************************************************************)
(* BlobStore.StoreOrRef under concurrent ingest transactions.  A request   *)
(* stores its original and, for a small ZIP, its members inside one        *)
(* Postgres transaction: each content is appended to the segments or       *)
(* referenced, and gets a package_files row.  Statements of different      *)
(* transactions interleave under READ COMMITTED: a statement sees committed *)
(* rows and its own, waits for a row another transaction has written, and  *)
(* is aborted when it waits in a cycle.                                    *)
(*                                                                         *)
(* A content stands for its hash.  The segments are the log of what was    *)
(* appended, a location is a position in it (module Segments has the       *)
(* details).  The bytes and sizes of contents are left out.                *)
(***************************************************************************)
EXTENDS Naturals, Sequences, FiniteSets

CONSTANTS
    Txs,          \* ingest requests
    Contents,     \* content hashes
    Original,     \* Original[t]: the content of the body of request t
    Members,      \* Members[t]: the contents of the members of its ZIP
    ErrText,      \* the content of an unpack error message
    None

ASSUME BlobsAssumption ==
    /\ IsFiniteSet(Txs) /\ IsFiniteSet(Contents)
    /\ Original \in [Txs -> Contents] /\ Members \in [Txs -> Seq(Contents)]
    /\ ErrText \in Contents /\ None \notin Txs \cup Contents

VARIABLES
    log,        \* the records in the segments
    idx,        \* the entries of the .idx files: content and location
    refCount,   \* content_blobs: ref_count, as committed
    blobLoc,    \* content_blobs: segment_id and offset, 0 if there is no row
    fileRows,   \* fileRows[c]: the committed package_files rows that name c
    lock,       \* lock[c]: the transaction that has written the row of c
    indexed,    \* a HotIndex is configured (dedup backend not "postgres")
    kv, bloom,  \* HotIndex
    pc,         \* pc[t]: the next step of request t
    pos,        \* pos[t]: 0 for the original, i for member i, behind them the error
    newLoc,     \* newLoc[t]: where StoreOrRef appended the record
    incs,       \* incs[t][c]: what t has added to ref_count
    ins,        \* ins[t][c]: location of the row t has inserted, or 0
    refs,       \* refs[t][c]: the package_files rows t has inserted
    spoiled,    \* spoiled[t]: the member of t whose index entry could not be written
    drift       \* drift[c]: how many committed transactions had c spoiled

tables  == <<refCount, blobLoc, fileRows>>
hot     == <<indexed, kv, bloom>>
work    == <<incs, ins, refs, spoiled, drift>>
vars == <<log, idx, tables, lock, hot, pc, pos, newLoc, work>>

Nothing == [c \in Contents |-> 0]

Item(t) == IF pos[t] = 0 THEN Original[t]
           ELSE IF pos[t] <= Len(Members[t]) THEN Members[t][pos[t]] ELSE ErrText

IsMember(t) == pos[t] \in 1 .. Len(Members[t])

\* The row of c as a statement of t sees it.
Visible(t, c) == blobLoc[c] # 0 \/ ins[t][c] # 0

Free(t, c) == lock[c] \in {None, t}

Goto(t, l) == pc' = [pc EXCEPT ![t] = l]

-----------------------------------------------------------------------------
(* StoreOrRef.                                                             *)

Begin(t) ==
    /\ pc[t] = "idle"
    /\ Goto(t, "start")
    /\ UNCHANGED <<log, idx, tables, lock, hot, pos, newLoc, work>>

\* MightContain, then Lookup.  The Bloom filter may say yes to anything.
Consult(t) ==
    /\ pc[t] = "start"
    /\ \/ ~indexed /\ Goto(t, "get")
       \/ indexed /\ Item(t) \notin bloom /\ Goto(t, "append")
       \/ indexed /\ Goto(t, IF Item(t) \in kv THEN "incIfExists" ELSE "get")
    /\ UNCHANGED <<log, idx, tables, lock, hot, pos, newLoc, work>>

\* UPDATE ... ref_count + 1 of a row t sees.
AddRef(t) ==
    /\ Free(t, Item(t))
    /\ lock' = [lock EXCEPT ![Item(t)] = t]
    /\ incs' = [incs EXCEPT ![t][Item(t)] = @ + 1]
    /\ UNCHANGED <<ins, refs, spoiled, drift>>

IncrementRefCountIfExists(t) ==
    /\ pc[t] = "incIfExists"
    /\ IF Visible(t, Item(t))
       THEN AddRef(t) /\ Goto(t, "file")
       ELSE Goto(t, "get") /\ UNCHANGED <<lock, work>>
    /\ UNCHANGED <<log, idx, tables, hot, pos, newLoc>>

GetBlob(t) ==
    /\ pc[t] = "get"
    /\ Goto(t, IF Visible(t, Item(t)) THEN "inc" ELSE "append")
    /\ UNCHANGED <<log, idx, tables, lock, hot, pos, newLoc, work>>

IncrementRefCount(t) ==
    /\ pc[t] = "inc"
    /\ AddRef(t)
    /\ Goto(t, "put")
    /\ UNCHANGED <<log, idx, tables, hot, pos, newLoc>>

\* The transaction ends without effect.
Rollback(t) ==
    /\ Goto(t, "failed")
    /\ lock' = [c \in Contents |-> IF lock[c] = t THEN None ELSE lock[c]]
    /\ incs' = [incs EXCEPT ![t] = Nothing]
    /\ ins' = [ins EXCEPT ![t] = Nothing]
    /\ refs' = [refs EXCEPT ![t] = Nothing]
    /\ spoiled' = [spoiled EXCEPT ![t] = None]
    /\ UNCHANGED <<log, idx, tables, hot, pos, newLoc, drift>>

\* StoreOrRef fails although the transaction is intact, before it has written
\* the row (c = None) or after it.  For a member, persistZipMembers takes it as
\* an unpack error and goes on with the message.
StoreFails(t, c) ==
    IF IsMember(t)
    THEN /\ pos' = [pos EXCEPT ![t] = Len(Members[t]) + 1]
         /\ Goto(t, "start")
         /\ spoiled' = [spoiled EXCEPT ![t] = c]
         /\ UNCHANGED <<log, idx, tables, lock, hot, newLoc, incs, ins, refs, drift>>
    ELSE Rollback(t)

\* storeNew: segments.Append.
AppendSegment(t) ==
    /\ pc[t] = "append"
    /\ \/ /\ log' = Append(log, Item(t))
          /\ newLoc' = [newLoc EXCEPT ![t] = Len(log) + 1]
          /\ Goto(t, "insert")
          /\ UNCHANGED <<idx, tables, lock, hot, pos, work>>
       \/ StoreFails(t, None)

\* Mutant: the new location replaces the one of an existing row.
InsertOverwrites(t) ==
    /\ pc[t] = "insert" /\ Free(t, Item(t))
    /\ lock' = [lock EXCEPT ![Item(t)] = t]
    /\ incs' = [incs EXCEPT ![t][Item(t)] = @ + 1]
    /\ ins' = [ins EXCEPT ![t][Item(t)] = newLoc[t]]
    /\ Goto(t, IF Visible(t, Item(t)) THEN "file" ELSE "segIndex")
    /\ UNCHANGED <<log, idx, tables, hot, pos, newLoc, refs, spoiled, drift>>

\* Mutant: a conflict leaves the row as it is.
InsertDoesNothing(t) ==
    /\ pc[t] = "insert" /\ Free(t, Item(t))
    /\ IF Visible(t, Item(t))
       THEN Goto(t, "file") /\ UNCHANGED <<lock, work>>
       ELSE /\ lock' = [lock EXCEPT ![Item(t)] = t]
            /\ incs' = [incs EXCEPT ![t][Item(t)] = @ + 1]
            /\ ins' = [ins EXCEPT ![t][Item(t)] = newLoc[t]]
            /\ Goto(t, "segIndex")
            /\ UNCHANGED <<refs, spoiled, drift>>
    /\ UNCHANGED <<log, idx, tables, hot, pos, newLoc>>

\* INSERT ... ON CONFLICT DO UPDATE: waits for a row in the making, then adds
\* to the row there is or inserts one.
InsertBlobOrIncrement(t) ==
    /\ pc[t] = "insert"
    /\ IF Visible(t, Item(t))
       THEN AddRef(t) /\ Goto(t, "file")
       ELSE /\ Free(t, Item(t))
            /\ lock' = [lock EXCEPT ![Item(t)] = t]
            /\ incs' = [incs EXCEPT ![t][Item(t)] = @ + 1]
            /\ ins' = [ins EXCEPT ![t][Item(t)] = newLoc[t]]
            /\ Goto(t, "segIndex")
            /\ UNCHANGED <<refs, spoiled, drift>>
    /\ UNCHANGED <<log, idx, tables, hot, pos, newLoc>>

\* Mutant: the segment index is not written.
SkipSegmentIndex(t) ==
    /\ pc[t] = "segIndex"
    /\ Goto(t, "put")
    /\ UNCHANGED <<log, idx, tables, lock, hot, pos, newLoc, work>>

SegmentIndexAppend(t) ==
    /\ pc[t] = "segIndex"
    /\ \/ /\ idx' = idx \cup {<<Item(t), newLoc[t]>>}
          /\ Goto(t, "put")
          /\ UNCHANGED <<log, tables, lock, hot, pos, newLoc, work>>
       \/ StoreFails(t, Item(t))

\* HotIndex.Put: the store first, then the Bloom filter.
IndexPut(t) ==
    /\ pc[t] = "put"
    /\ \/ /\ IF indexed THEN kv' = kv \cup {Item(t)} /\ bloom' = bloom \cup {Item(t)}
                         ELSE UNCHANGED <<kv, bloom>>
          /\ Goto(t, "file")
          /\ UNCHANGED <<log, idx, tables, lock, indexed, pos, newLoc, work>>
       \/ indexed /\ StoreFails(t, Item(t))

-----------------------------------------------------------------------------
(* The transaction around it.                                              *)

\* CreatePackageFile; then the next member, or the end.
CreatePackageFile(t) ==
    /\ pc[t] = "file"
    /\ refs' = [refs EXCEPT ![t][Item(t)] = @ + 1]
    /\ IF pos[t] < Len(Members[t])
       THEN pos' = [pos EXCEPT ![t] = @ + 1] /\ Goto(t, "start")
       ELSE Goto(t, "commit") /\ UNCHANGED pos
    /\ UNCHANGED <<log, idx, tables, lock, hot, newLoc, incs, ins, spoiled, drift>>

\* ForEachZipMember cannot read the next member, or a limit is exceeded.
MemberUnreadable(t) ==
    /\ pc[t] = "start" /\ IsMember(t)
    /\ pos' = [pos EXCEPT ![t] = Len(Members[t]) + 1]
    /\ UNCHANGED <<log, idx, tables, lock, hot, pc, newLoc, work>>

\* Mutant: the locks outlive the transaction.
CommitKeepsLocks(t) ==
    /\ pc[t] = "commit"
    /\ Goto(t, "done")
    /\ refCount' = [c \in Contents |-> refCount[c] + incs[t][c]]
    /\ blobLoc' = [c \in Contents |-> IF ins[t][c] # 0 THEN ins[t][c] ELSE blobLoc[c]]
    /\ fileRows' = [c \in Contents |-> fileRows[c] + refs[t][c]]
    /\ incs' = [incs EXCEPT ![t] = Nothing]
    /\ ins' = [ins EXCEPT ![t] = Nothing]
    /\ refs' = [refs EXCEPT ![t] = Nothing]
    /\ UNCHANGED <<log, idx, lock, hot, pos, newLoc, spoiled, drift>>

\* Commit.  The request may see an error although the server has committed.
Commit(t) ==
    /\ pc[t] = "commit"
    /\ Goto(t, "done") \/ Goto(t, "failed")
    /\ refCount' = [c \in Contents |-> refCount[c] + incs[t][c]]
    /\ blobLoc' = [c \in Contents |-> IF ins[t][c] # 0 THEN ins[t][c] ELSE blobLoc[c]]
    /\ fileRows' = [c \in Contents |-> fileRows[c] + refs[t][c]]
    /\ lock' = [c \in Contents |-> IF lock[c] = t THEN None ELSE lock[c]]
    /\ incs' = [incs EXCEPT ![t] = Nothing]
    /\ ins' = [ins EXCEPT ![t] = Nothing]
    /\ refs' = [refs EXCEPT ![t] = Nothing]
    /\ drift' = [c \in Contents |-> drift[c] + IF spoiled[t] = c THEN 1 ELSE 0]
    /\ spoiled' = [spoiled EXCEPT ![t] = None]
    /\ UNCHANGED <<log, idx, hot, pos, newLoc>>

Active(t) == pc[t] \notin {"idle", "done", "failed"}

\* A statement or the commit fails, or the caller's context ends.  Later
\* statements fail too, the unpack error message included.
Abort(t) == Active(t) /\ Rollback(t)

\* The transaction t waits for.
WaitsFor(t, u) ==
    /\ u # t /\ lock[Item(t)] = u
    /\ \/ pc[t] \in {"inc", "insert"}
       \/ pc[t] = "incIfExists" /\ Visible(t, Item(t))

\* Postgres breaks a cycle of waiting transactions by aborting one of them.
BreakDeadlock(t) ==
    /\ \E S \in SUBSET Txs : t \in S /\ \A u \in S : \E v \in S : WaitsFor(u, v)
    /\ Rollback(t)

\* The process dies and starts again, with a HotIndex or without; open
\* transactions are rolled back.  The HotIndex is rebuilt from content_blobs, or it keeps only what its store
\* kept and an empty Bloom filter.
Restart ==
    /\ \E t \in Txs : Active(t)
    /\ pc' = [t \in Txs |-> IF Active(t) THEN "failed" ELSE pc[t]]
    /\ lock' = [c \in Contents |-> None]
    /\ incs' = [t \in Txs |-> Nothing]
    /\ ins' = [t \in Txs |-> Nothing]
    /\ refs' = [t \in Txs |-> Nothing]
    /\ \/ kv' = {c \in Contents : blobLoc[c] # 0} /\ bloom' = kv'
       \/ kv' \in {kv, {}} /\ bloom' = {}
    /\ indexed' \in BOOLEAN
    /\ spoiled' = [t \in Txs |-> None]
    /\ UNCHANGED <<log, idx, tables, pos, newLoc, drift>>

Init ==
    /\ log = << >> /\ idx = {}
    /\ refCount = Nothing /\ blobLoc = Nothing /\ fileRows = Nothing
    /\ lock = [c \in Contents |-> None]
    /\ indexed \in BOOLEAN /\ kv = {} /\ bloom = {}
    /\ pc = [t \in Txs |-> "idle"]
    /\ pos = [t \in Txs |-> 0]
    /\ newLoc = [t \in Txs |-> 0]
    /\ incs = [t \in Txs |-> Nothing]
    /\ ins = [t \in Txs |-> Nothing]
    /\ refs = [t \in Txs |-> Nothing]
    /\ spoiled = [t \in Txs |-> None] /\ drift = Nothing

Step(t) ==
    \/ Consult(t) \/ IncrementRefCountIfExists(t) \/ GetBlob(t) \/ IncrementRefCount(t)
    \/ AppendSegment(t) \/ InsertBlobOrIncrement(t) \/ SegmentIndexAppend(t) \/ IndexPut(t)
    \/ CreatePackageFile(t) \/ MemberUnreadable(t) \/ Commit(t) \/ BreakDeadlock(t)

Next ==
    \/ \E t \in Txs : Begin(t) \/ Step(t) \/ Abort(t)
    \/ Restart

Spec == Init /\ [][Next]_vars

-----------------------------------------------------------------------------
(* Properties.                                                             *)

\* Every variable has its type.
TypeOK ==
    /\ log \in Seq(Contents)
    /\ idx \subseteq Contents \X Nat
    /\ refCount \in [Contents -> Nat] /\ blobLoc \in [Contents -> Nat]
    /\ fileRows \in [Contents -> Nat]
    /\ lock \in [Contents -> Txs \cup {None}]
    /\ indexed \in BOOLEAN /\ kv \subseteq Contents /\ bloom \subseteq Contents
    /\ pc \in [Txs -> {"idle", "start", "incIfExists", "get", "inc", "append", "insert",
                       "segIndex", "put", "file", "commit", "done", "failed"}]
    /\ pos \in [Txs -> Nat] /\ newLoc \in [Txs -> Nat]
    /\ incs \in [Txs -> [Contents -> Nat]]
    /\ ins \in [Txs -> [Contents -> Nat]]
    /\ refs \in [Txs -> [Contents -> Nat]]
    /\ spoiled \in [Txs -> Contents \cup {None}] /\ drift \in [Contents -> Nat]

\* ref_count is the number of package_files that refer to the blob, and one
\* more for each committed ZIP that had counted it when writing its index entry
\* failed: no order of inserts, increments, aborts, deadlocks and restarts adds
\* or loses a reference (StoreOrRef, InsertBlobOrIncrement).
RefCountAccounted == \A c \in Contents : refCount[c] = fileRows[c] + drift[c]

\* A committed blob can be read: its location holds a record of its content.
\* It can be rebuilt: unless such a failure was committed for it, the segment
\* index has exactly that location.
BlobsRecoverable ==
    \A c \in Contents :
        /\ fileRows[c] > 0 => blobLoc[c] # 0
        /\ blobLoc[c] # 0 => blobLoc[c] <= Len(log) /\ log[blobLoc[c]] = c
        /\ blobLoc[c] # 0 /\ drift[c] = 0 => <<c, blobLoc[c]>> \in idx

\* A committed blob never moves and never loses references, whoever stores the
\* same content again.
BlobsStable ==
    [][\A c \in Contents : blobLoc[c] # 0 =>
           blobLoc'[c] = blobLoc[c] /\ refCount'[c] >= refCount[c]]_vars

\* Requests run on and Postgres breaks deadlocks.
Fairness == \A t \in Txs : WF_vars(Step(t))

FairSpec == Spec /\ Fairness

\* Every ingest transaction ends: two requests that store the same contents in
\* opposite orders do not wait for each other for ever.
EveryRequestEnds == \A t \in Txs : Active(t) ~> ~Active(t)
=============================================================================
