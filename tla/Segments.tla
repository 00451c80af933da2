------------------------------ MODULE Segments ------------------------------
(***************************************************************************)
(* The append-only segment store of a shard: SegmentManager                *)
(* (internal/storage/segment.go) with the WriteBuffer in front of it       *)
(* (internal/storage/write_buffer.go).                                     *)
(*                                                                         *)
(* Requests hand one record each to the buffer.  A flush swaps the pending *)
(* records out and appends them under the segment mutex, one after the     *)
(* other, rotating to a new segment file when the active one is full; one  *)
(* fsync ends the batch and only then are the requests answered.  The      *)
(* process may crash between any two steps, may be closed cleanly, and is  *)
(* opened again by scanning the newest segment and cutting its tail.       *)
(*                                                                         *)
(* A segment file is a set of items, each with the offset it starts at.    *)
(* An item is a complete record, a segment footer, or "torn": bytes that   *)
(* scanValidTail rejects (a short write, a bad CRC, the remains of a       *)
(* longer record under a shorter one).  The record count stored in the     *)
(* footer is never read back and is left out.                              *)
(***************************************************************************)
EXTENDS Naturals, Sequences, FiniteSets

CONSTANTS
    Writes,          \* append requests; each brings one record, named after it
    RecordSize,      \* RecordSize[w]: bytes of w's encoded record
    FooterSize,      \* bytes of a segment footer
    MaxSegmentSize,  \* SEGMENT_MAX_SIZE
    BufferMax,       \* WRITE_BUFFER_MAX_BYTES: the threshold of shouldFlush
    MaxSegments,     \* bound: segment ids are 0..MaxSegments
    Loop,            \* the flush loop's goroutine
    Closer,          \* the goroutine that runs Close
    None             \* no record

ASSUME SegmentsAssumption ==
    /\ IsFiniteSet(Writes)
    /\ RecordSize \in [Writes -> Nat \ {0}]
    /\ FooterSize \in Nat \ {0}
    /\ MaxSegmentSize \in Nat
    /\ BufferMax \in Nat
    /\ MaxSegments \in Nat
    /\ Loop \notin Writes
    /\ Closer \notin Writes
    /\ Loop # Closer
    /\ None \notin Writes

Segs == 0 .. MaxSegments

\* Everyone who may call Flush: a request that filled the buffer, the flush
\* loop, and Close.
Flushers == Writes \cup {Loop, Closer}

Item == [kind : {"rec", "foot", "torn"}, rec : Writes \cup {None},
         off : Nat, size : Nat]

Rec(w, off)  == [kind |-> "rec", rec |-> w, off |-> off, size |-> RecordSize[w]]
Foot(off)    == [kind |-> "foot", rec |-> None, off |-> off, size |-> FooterSize]
Torn(off)    == [kind |-> "torn", rec |-> None, off |-> off, size |-> 1]

VARIABLES
    proc,          \* "up", Close in progress ("stopping", "flushed"), or "down"
    pending,       \* WriteBuffer.pending
    bufSize,       \* WriteBuffer.bufSize
    due,           \* requests that saw shouldFlush and have not called Flush yet
    batch,         \* batch[f]: the batch flusher f swapped out
    stage,         \* stage[f]: where f is in Flush
    next,          \* next[f]: index in batch[f] of the record to append next
    outcome,       \* outcome[w]: pw.err of w ("none" before batchAppend sets it)
    loc,           \* loc[w]: pw.loc of w
    status,        \* status[w]: what the caller of Append(w) knows
    disk,          \* disk[s]: items in file s as the operating system shows it
    synced,        \* synced[s]: the items of disk[s] that are on stable storage
    files,         \* ids of the segment files that exist
    activeID, activeOffset,
    handle,        \* whether activeFile is "open" or a "closed" file
    buffered       \* whether the process was started with a WriteBuffer

queueVars  == <<pending, bufSize, due, batch>>
bufferVars == <<queueVars, stage, next>>
writeVars  == <<outcome, loc, status>>
fileVars   == <<disk, synced, files>>
activeVars == <<activeID, activeOffset, handle, buffered>>
vars == <<proc, bufferVars, writeVars, fileVars, activeVars>>

Running == proc # "down"

-----------------------------------------------------------------------------
(* Files.                                                                  *)

\* What a write at off leaves intact.
Below(file, off) == {it \in file : it.off + it.size <= off}

\* WriteAt: the new item replaces what was there.  If bytes of a failed write
\* lie beyond, the part it does not cover is left behind as garbage.
WrittenAt(file, off, item) ==
    {Below(file, off) \cup {item}}
      \cup (IF Below(file, off) = file THEN {}
            ELSE {Below(file, off) \cup {item, Torn(off + item.size)}})

\* A WriteAt that reports an error: nothing reached the file, or a part did.
FailedAt(file, off) == {file, Below(file, off) \cup {Torn(off)}}

\* scanValidTail: records up to the first item that is not one, and that item
\* too when it is a footer.  What lies behind is cut off.
Stops(file) == {it \in file : it.kind # "rec"}

\* Mutant: the scan goes on behind a footer.
ScanPastFooters(file) ==
    {it \in file : \A st \in Stops(file) : st.kind = "torn" => it.off < st.off}

ValidTail(file) ==
    {it \in file : \/ \A st \in Stops(file) : it.off < st.off
                   \/ /\ it.kind = "foot"
                      /\ \A st \in Stops(file) : it.off <= st.off}

\* The file size after the cut is where the next record goes.
Ends(file) == {0} \cup {it.off + it.size : it \in file}

\* Mutant: the write offset is not set from the scan.
OffsetNotRestored(file, e) == e = 0

IsEnd(file, e) == e \in Ends(file) /\ \A x \in Ends(file) : x <= e

-----------------------------------------------------------------------------
(* WriteBuffer.                                                            *)

\* WriteBuffer.Append up to its select: enqueue, and note whether the buffer
\* is full.  A request may still come in while Close runs: the HTTP server's
\* shutdown gives up on handlers after its timeout.
BufferAppend(w) ==
    /\ buffered /\ Running
    /\ status[w] = "idle"
    /\ status' = [status EXCEPT ![w] = "waiting"]
    /\ pending' = Append(pending, w)
    /\ bufSize' = bufSize + RecordSize[w]
    /\ due' = IF bufSize' >= BufferMax THEN due \cup {w} ELSE due
    /\ UNCHANGED <<proc, batch, stage, next, outcome, loc, fileVars, activeVars>>

\* The caller's context ends while it waits in the select.
Cancel(w) ==
    /\ buffered
    /\ status[w] = "waiting" /\ w \notin due /\ stage[w] = "idle"
    /\ status' = [status EXCEPT ![w] = "failed"]
    /\ UNCHANGED <<proc, bufferVars, outcome, loc, fileVars, activeVars>>

\* The first part of Flush: swap the pending records out, if there are any.
TakeBatch(f) ==
    IF pending = << >>
    THEN UNCHANGED <<pending, bufSize, batch, stage>>
    ELSE /\ batch' = [batch EXCEPT ![f] = pending]
         /\ stage' = [stage EXCEPT ![f] = "wait"]
         /\ pending' = << >>
         /\ bufSize' = 0

ThresholdFlush(w) ==
    /\ w \in due
    /\ due' = due \ {w}
    /\ TakeBatch(w)
    /\ UNCHANGED <<proc, next, writeVars, fileVars, activeVars>>

\* flushLoop: the ticker fires.
TickFlush ==
    /\ proc = "up" /\ buffered
    /\ stage[Loop] = "idle" /\ pending # << >>
    /\ TakeBatch(Loop)
    /\ UNCHANGED <<proc, due, next, writeVars, fileVars, activeVars>>

InBatch(f) == {batch[f][i] : i \in DOMAIN batch[f]}

\* The last part of Flush: answer every request of the batch.
Deliver(f) ==
    /\ stage[f] = "deliver"
    /\ status' = [w \in Writes |->
                    IF w \in InBatch(f) /\ status[w] = "waiting"
                    THEN IF outcome[w] = "ok" THEN "acked" ELSE "failed"
                    ELSE status[w]]
    /\ outcome' = [w \in Writes |-> IF w \in InBatch(f) THEN "none" ELSE outcome[w]]
    /\ stage' = [stage EXCEPT ![f] = "idle"]
    /\ batch' = [batch EXCEPT ![f] = << >>]
    /\ next' = [next EXCEPT ![f] = 1]
    /\ UNCHANGED <<proc, pending, bufSize, due, loc, fileVars, activeVars>>

-----------------------------------------------------------------------------
(* SegmentManager, holding sm.mu.                                          *)

HoldsMutex(f) == stage[f] \in {"append", "open", "sync"}
MutexFree == \A f \in Flushers : ~HoldsMutex(f)

\* The write mode without a buffer: Append calls appendDirect itself.
DirectAppend(w) ==
    /\ ~buffered /\ Running
    /\ status[w] = "idle"
    /\ status' = [status EXCEPT ![w] = "waiting"]
    /\ batch' = [batch EXCEPT ![w] = <<w>>]
    /\ stage' = [stage EXCEPT ![w] = "wait"]
    /\ UNCHANGED <<proc, pending, bufSize, due, next, outcome, loc, fileVars, activeVars>>

Lock(f) ==
    /\ stage[f] = "wait" /\ MutexFree
    /\ stage' = [stage EXCEPT ![f] = "append"]
    /\ next' = [next EXCEPT ![f] = 1]
    /\ UNCHANGED <<proc, queueVars, writeVars, fileVars, activeVars>>

\* w is the record f is working on.
Current(f, w) == next[f] \in DOMAIN batch[f] /\ w = batch[f][next[f]]

NeedsRotation(w) ==
    /\ activeOffset > 0
    /\ activeOffset + RecordSize[w] + FooterSize > MaxSegmentSize

\* appendLocked returns an error for w; batchAppend goes on with the next one.
Fail(f, w) ==
    /\ outcome' = [outcome EXCEPT ![w] = "err"]
    /\ loc' = [loc EXCEPT ![w] = <<0, 0>>]
    /\ next' = [next EXCEPT ![f] = @ + 1]
    /\ stage' = [stage EXCEPT ![f] = "append"]

\* Until the next fsync only what lies before the write offset is certain.
SyncedBeforeWrite == [synced EXCEPT ![activeID] = Below(@, activeOffset)]

\* Mutant: rotation does not sync the segment it leaves.
FinalizeWithoutSync ==
    /\ \E file \in WrittenAt(disk[activeID], activeOffset, Foot(activeOffset)) :
           disk' = [disk EXCEPT ![activeID] = file]
    /\ synced' = SyncedBeforeWrite

\* finalizeLocked: the footer goes behind the last record, then fsync.  The
\* write or the fsync may fail; the write offset does not move.
FinalizeOK ==
    /\ \E file \in WrittenAt(disk[activeID], activeOffset, Foot(activeOffset)) :
           disk' = [disk EXCEPT ![activeID] = file]
    /\ synced' = [synced EXCEPT ![activeID] = disk'[activeID]]

FinalizeFails ==
    /\ \E file \in FailedAt(disk[activeID], activeOffset)
                     \cup WrittenAt(disk[activeID], activeOffset, Foot(activeOffset)) :
           disk' = [disk EXCEPT ![activeID] = file]
    /\ synced' = SyncedBeforeWrite

\* appendLocked finds the segment full and finalizes it.
Rotate(f, w) ==
    /\ stage[f] = "append" /\ Current(f, w) /\ handle = "open" /\ NeedsRotation(w)
    /\ \/ /\ FinalizeOK
          /\ stage' = [stage EXCEPT ![f] = "open"]
          /\ UNCHANGED <<next, outcome, loc>>
       \/ /\ FinalizeFails
          /\ Fail(f, w)
    /\ UNCHANGED <<proc, queueVars, status, files, activeVars>>

\* openSegment(activeID + 1).  The id and offset are set before the old file is
\* closed and the new one opened, so an error leaves a closed activeFile.
OpenNext(f, w) ==
    /\ stage[f] = "open" /\ Current(f, w)
    /\ activeID + 1 \in Segs
    /\ activeID' = activeID + 1
    /\ activeOffset' = 0
    /\ \/ /\ files' = files \cup {activeID + 1}
          /\ handle' = "open"
          /\ stage' = [stage EXCEPT ![f] = "append"]
          /\ UNCHANGED <<next, outcome, loc>>
       \/ /\ files' \in {files, files \cup {activeID + 1}}
          /\ handle' = "closed"
          /\ Fail(f, w)
    /\ UNCHANGED <<proc, queueVars, status, disk, synced, buffered>>

\* The WriteAt of appendLocked.  In a batch the offset advances at once and the
\* fsync comes at the end; a direct append syncs first.
WriteRecord(f, w) ==
    /\ stage[f] = "append" /\ Current(f, w) /\ handle = "open" /\ ~NeedsRotation(w)
    /\ \/ /\ \E file \in WrittenAt(disk[activeID], activeOffset, Rec(w, activeOffset)) :
                 disk' = [disk EXCEPT ![activeID] = file]
          /\ loc' = [loc EXCEPT ![w] = <<activeID, activeOffset>>]
          /\ IF buffered
             THEN /\ activeOffset' = activeOffset + RecordSize[w]
                  /\ outcome' = [outcome EXCEPT ![w] = "ok"]
                  /\ next' = [next EXCEPT ![f] = @ + 1]
                  /\ UNCHANGED stage
             ELSE /\ stage' = [stage EXCEPT ![f] = "sync"]
                  /\ UNCHANGED <<activeOffset, outcome, next>>
       \/ /\ \E file \in FailedAt(disk[activeID], activeOffset) :
                 disk' = [disk EXCEPT ![activeID] = file]
          /\ Fail(f, w)
          /\ UNCHANGED activeOffset
    /\ synced' = SyncedBeforeWrite
    /\ UNCHANGED <<proc, queueVars, status, files, activeID, handle, buffered>>

\* The fsync of a direct append; an error leaves the offset where it was.
DirectSync(f, w) ==
    /\ stage[f] = "sync" /\ Current(f, w)
    /\ \/ /\ synced' = [synced EXCEPT ![activeID] = disk[activeID]]
          /\ activeOffset' = activeOffset + RecordSize[w]
          /\ outcome' = [outcome EXCEPT ![w] = "ok"]
          /\ next' = [next EXCEPT ![f] = @ + 1]
          /\ stage' = [stage EXCEPT ![f] = "append"]
          /\ UNCHANGED loc
       \/ /\ Fail(f, w)
          /\ UNCHANGED <<synced, activeOffset>>
    /\ UNCHANGED <<proc, queueVars, status, disk, files, activeID, handle, buffered>>

\* Every write to a file that openSegment left closed is an error.
WriteToClosed(f, w) ==
    /\ stage[f] = "append" /\ Current(f, w) /\ handle = "closed"
    /\ Fail(f, w)
    /\ UNCHANGED <<proc, queueVars, status, fileVars, activeVars>>

\* Every record of f's batch that has no error yet gets one.
FailRest(f) ==
    outcome' = [w \in Writes |-> IF w \in InBatch(f) THEN "err" ELSE outcome[w]]

\* The end of batchAppend: one fsync of the file that is active now, if any
\* record was written.  Its failure fails the whole batch.
SyncBatch(f) ==
    /\ stage[f] = "append" /\ next[f] > Len(batch[f])
    /\ stage' = [stage EXCEPT ![f] = "deliver"]
    /\ IF ~buffered \/ \A w \in InBatch(f) : outcome[w] = "err"
       THEN UNCHANGED <<synced, outcome>>
       ELSE \/ /\ handle = "open"
               /\ synced' = [synced EXCEPT ![activeID] = disk[activeID]]
               /\ UNCHANGED outcome
            \/ /\ FailRest(f)
               /\ UNCHANGED synced
    /\ UNCHANGED <<proc, queueVars, next, loc, status, disk, files, activeVars>>

\* Mutant: the deferred recover answers nobody.
PanicWithoutAnswer(f) ==
    /\ buffered /\ stage[f] = "append"
    /\ FailRest(f)
    /\ stage' = [stage EXCEPT ![f] = "idle"]
    /\ batch' = [batch EXCEPT ![f] = << >>]
    /\ UNCHANGED <<proc, pending, bufSize, due, next, loc, status, fileVars, activeVars>>

\* A panic in batchAppend: the mutex is released, the deferred recover of
\* Flush fails every record that has no error yet.
FlushPanic(f) ==
    /\ buffered /\ stage[f] = "append"
    /\ FailRest(f)
    /\ stage' = [stage EXCEPT ![f] = "deliver"]
    /\ UNCHANGED <<proc, queueVars, next, loc, status, fileVars, activeVars>>

-----------------------------------------------------------------------------
(* Close, crash, open.                                                     *)

\* What is lost with the process.  Requests that were waiting see it fail.
ProcessEnds ==
    /\ proc' = "down"
    /\ pending' = << >> /\ bufSize' = 0 /\ due' = {}
    /\ batch' = [f \in Flushers |-> << >>]
    /\ stage' = [f \in Flushers |-> "idle"]
    /\ next' = [f \in Flushers |-> 1]
    /\ status' = [w \in Writes |-> IF status[w] = "waiting" THEN "failed" ELSE status[w]]
    /\ outcome' = [w \in Writes |-> "none"]
    /\ loc' = [w \in Writes |-> IF status[w] = "acked" THEN loc[w] ELSE <<0, 0>>]
    /\ activeID' = 0 /\ activeOffset' = 0 /\ handle' = "closed" /\ buffered' = FALSE

\* Close begins: WriteBuffer.Close closes the stop channel.
CloseBegin ==
    /\ proc = "up"
    /\ proc' = "stopping"
    /\ UNCHANGED <<bufferVars, writeVars, fileVars, activeVars>>

\* The flush loop has ended; WriteBuffer.Close flushes what is pending.
CloseFlush ==
    /\ proc = "stopping" /\ stage[Loop] = "idle"
    /\ proc' = "flushed"
    /\ TakeBatch(Closer)
    /\ UNCHANGED <<due, next, writeVars, fileVars, activeVars>>

\* SegmentManager.Close finalizes the active segment; the process exits.
CloseFinish ==
    /\ proc = "flushed" /\ stage[Closer] = "idle" /\ MutexFree
    /\ IF activeOffset = 0
       THEN UNCHANGED <<disk, synced>>
       ELSE FinalizeOK \/ FinalizeFails
    /\ ProcessEnds
    /\ UNCHANGED <<files>>

\* A crash or power loss: of what was never synced any part may be lost or
\* damaged, and a file nothing was synced in may be gone.
Unsynced == UNION {{s} \X (disk[s] \ synced[s]) : s \in Segs}

AfterCrash(s, lost) ==
    {it \in disk[s] : <<s, it>> \notin lost}
      \cup {Torn(it.off) : it \in {i \in disk[s] : <<s, i>> \in lost}}

Crash ==
    /\ Running
    /\ \E lost \in SUBSET Unsynced, gone \in SUBSET {s \in files : synced[s] = {}} :
           /\ files' = files \ gone
           /\ disk' = [s \in Segs |-> IF s \in gone THEN {} ELSE AfterCrash(s, lost)]
    /\ ProcessEnds
    /\ UNCHANGED <<synced>>

\* NewSegmentManager: recover opens the newest segment file, or creates the
\* first, cuts it behind its valid part and appends there.  A process may be
\* started with a write buffer or without one, as it is configured then.
Newest(s) == s \in files /\ \A t \in files : t <= s

Open ==
    /\ proc = "down"
    /\ proc' = "up" /\ handle' = "open" /\ buffered' \in BOOLEAN
    /\ \E s \in Segs :
           /\ IF files = {} THEN s = 0 ELSE Newest(s)
           /\ activeID' = s
           /\ files' = files \cup {s}
           /\ disk' = [disk EXCEPT ![s] = ValidTail(@)]
           /\ synced' = [synced EXCEPT ![s] = @ \cap disk'[s]]
           /\ \E e \in Ends(disk'[s]) : IsEnd(disk'[s], e) /\ activeOffset' = e
    /\ UNCHANGED <<bufferVars, writeVars>>

Init ==
    /\ proc = "down"
    /\ pending = << >> /\ bufSize = 0 /\ due = {}
    /\ batch = [f \in Flushers |-> << >>]
    /\ stage = [f \in Flushers |-> "idle"]
    /\ next = [f \in Flushers |-> 1]
    /\ outcome = [w \in Writes |-> "none"]
    /\ loc = [w \in Writes |-> <<0, 0>>]
    /\ status = [w \in Writes |-> "idle"]
    /\ disk = [s \in Segs |-> {}]
    /\ synced = [s \in Segs |-> {}]
    /\ files = {}
    /\ activeID = 0 /\ activeOffset = 0 /\ handle = "closed" /\ buffered = FALSE

Step(f) ==
    \/ Lock(f) \/ SyncBatch(f) \/ Deliver(f) \/ FlushPanic(f)
    \/ \E w \in Writes :
           \/ Rotate(f, w) \/ OpenNext(f, w) \/ WriteRecord(f, w)
           \/ DirectSync(f, w) \/ WriteToClosed(f, w)

Next ==
    \/ \E w \in Writes : BufferAppend(w) \/ DirectAppend(w) \/ Cancel(w) \/ ThresholdFlush(w)
    \/ TickFlush
    \/ \E f \in Flushers : Step(f)
    \/ CloseBegin \/ CloseFlush \/ CloseFinish \/ Crash \/ Open

Spec == Init /\ [][Next]_vars

-----------------------------------------------------------------------------
(* Properties.                                                             *)

QueueTypes == pending \in Seq(Writes) /\ batch \in [Flushers -> Seq(Writes)]

\* Every variable has its type.
TypeOK ==
    /\ proc \in {"up", "stopping", "flushed", "down"}
    /\ QueueTypes /\ bufSize \in Nat /\ due \subseteq Writes
    /\ stage \in [Flushers -> {"idle", "wait", "append", "open", "sync", "deliver"}]
    /\ next \in [Flushers -> Nat \ {0}]
    /\ outcome \in [Writes -> {"none", "ok", "err"}]
    /\ loc \in [Writes -> Segs \X Nat]
    /\ status \in [Writes -> {"idle", "waiting", "acked", "failed"}]
    /\ disk \in [Segs -> SUBSET Item] /\ synced \in [Segs -> SUBSET Item]
    /\ files \subseteq Segs
    /\ activeID \in Segs /\ activeOffset \in Nat /\ handle \in {"open", "closed"}
    /\ buffered \in BOOLEAN

Stored(w) == Rec(w, loc[w][2]) \in disk[loc[w][1]]

BehindFooter(w) == \E it \in disk[loc[w][1]] : it.kind = "foot" /\ it.off < loc[w][2]

\* A record whose Append returned success stays in its segment file at the
\* location it was given, through crashes, failed writes, lost fsyncs and
\* restarts, unless it lies behind a footer of its own segment.
AckedSurvives ==
    \A w \in Writes : status[w] = "acked" => Stored(w) \/ BehindFooter(w)

\* Append-only across restarts: two records are acknowledged with one location
\* only if a footer lies before it.
NoSharedLocation ==
    \A w, v \in Writes :
        /\ w # v /\ loc[w] = loc[v]
        /\ status[w] = "acked" /\ status[v] = "acked"
        => BehindFooter(w)

\* The records and footers of a segment never outgrow its limit by more than
\* one footer, however often the store is closed and opened again, unless the
\* first record alone does.
FilesBounded ==
    Running => \A s \in Segs : \A it \in disk[s] :
        \/ it.kind = "torn" \/ it.off + it.size <= MaxSegmentSize + FooterSize
        \/ \E r \in disk[s] : r.off = 0 /\ it.off + it.size <= r.size + 2 * FooterSize

\* Once a newer segment file exists, no append, crash or recovery changes an
\* older one.
OlderSegmentsFrozen == [][\A s, t \in files : s < t => disk'[s] = disk[s]]_vars

\* WriteBuffer.Append "blocks until it is durably written": every record whose
\* Append returned success is in its segment file at its location.
AckedReadable == \A w \in Writes : status[w] = "acked" => Stored(w)

-----------------------------------------------------------------------------
(* Progress.                                                               *)

\* The flush loop's ticker fires again and again, the goroutines inside Flush
\* and Close keep running and a started Close ends.  Nothing is assumed of
\* clients, crashes or restarts.
Fairness ==
    /\ WF_vars(TickFlush) /\ WF_vars(CloseFlush) /\ WF_vars(CloseFinish)
    /\ \A w \in Writes : WF_vars(ThresholdFlush(w))
    /\ \A f \in Flushers : WF_vars(Step(f))

FairSpec == Spec /\ Fairness

\* Every Append returns: a batch that fails, panics, rotates or meets a closed
\* file still answers each of its requests.
EveryAppendReturns == \A w \in Writes : status[w] = "waiting" ~> status[w] # "waiting"
=============================================================================
