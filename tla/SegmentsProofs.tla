--------------------------- MODULE SegmentsProofs ---------------------------
(***************************************************************************)
(* Proofs that an acknowledged record survives (AckedSurvives), that no     *)
(* two records share a location (NoSharedLocation), that a segment is not   *)
(* touched once there is a newer one (OlderSegmentsFrozen) and that no      *)
(* segment outgrows its limit (FilesBounded), for every set of requests,    *)
(* record sizes and limits.                                                *)
(***************************************************************************)
EXTENDS SegmentsLemmas

\* A leaf that names no prover is left to Zenon; the others, most of them about
\* numbers, sequences or EXCEPT, name the SMT solver.
USE ZenonT(30)

-----------------------------------------------------------------------------
(* Durability: the other steps.                                            *)

\* The fsync at the end of a batch.
LEMMA SyncBatchStep ==
    ASSUME TypeOK, QInv, Durable, NEW f \in Flushers, SyncBatch(f)
    PROVE  Durable'
  <1>1. /\ stage[f] = "append" /\ HoldsMutex(f) /\ stage' = [stage EXCEPT ![f] = "deliver"]
        /\ UNCHANGED <<proc, batch, next, loc, status, disk, files, activeID, activeOffset, handle, buffered>>
    BY DEF SyncBatch, HoldsMutex, queueVars, activeVars
  <1>2. stage'[f] = "deliver" /\ \A g \in Flushers \ {f} : stage'[g] = stage[g]
    BY <1>1, FileFacts
  <1>3. \A g \in Flushers : InBatch(g)' = InBatch(g) /\ \A w \in Writes : Current(g, w)' = Current(g, w)
    BY <1>1, BatchUnchanged DEF Current
  <1>4. Running' = Running
    BY <1>1 DEF Running
  <1>5. CASE UNCHANGED synced /\ (FailRest(f) \/ (UNCHANGED outcome /\ (~buffered \/ \A w \in InBatch(f) : outcome[w] = "err")))
    <2>1. ASSUME NEW g \in Flushers, NEW w \in InBatch(g), outcome'[w] = "ok"
          PROVE  outcome[w] = "ok" /\ (g = f => ~buffered)
      <3>1. w \in Writes
        BY Members DEF TypeOK
      <3> QED BY <1>5, <2>1, <3>1 DEF FailRest
    <2>2. UNCHANGED <<fileVars, activeVars>>
      BY <1>1, <1>5 DEF fileVars, activeVars
    <2>3. \A w \in Writes : status'[w] = "acked" => loc'[w] = loc[w] /\ status[w] = "acked"
      BY <1>1
    <2>4. \A g \in Flushers : \A w \in InBatch(g)' : stage'[g] # "idle" /\ outcome'[w] = "ok" =>
              /\ w \in InBatch(g) /\ outcome[w] = "ok" /\ loc'[w] = loc[w] /\ stage[g] # "idle"
              /\ \/ stage'[g] = stage[g] /\ (Current(g, w) => Current(g, w)')
                 \/ stage[g] = "append" /\ ~buffered
      <3> SUFFICES ASSUME NEW g \in Flushers, NEW w \in InBatch(g), stage'[g] # "idle",
                          outcome'[w] = "ok"
                   PROVE  /\ outcome[w] = "ok" /\ loc'[w] = loc[w] /\ stage[g] # "idle"
                          /\ \/ stage'[g] = stage[g] /\ (Current(g, w) => Current(g, w)')
                             \/ stage[g] = "append" /\ ~buffered
        BY <1>3
      <3>1. w \in Writes
        BY Members DEF TypeOK
      <3> QED BY <1>1, <1>2, <1>3, <2>1, <3>1
    <2>5. \A g \in Flushers, w \in Writes : stage'[g] = "sync" /\ Current(g, w)' =>
              stage[g] = "sync" /\ Current(g, w) /\ loc'[w] = loc[w]
      BY <1>1, <1>2, <1>3
    <2>6. AckedKept
      BY <2>3 DEF AckedKept
    <2>7. BatchKept
      BY <2>4 DEF BatchKept
    <2>8. DirectKept
      BY <2>5 DEF DirectKept
    <2> QED BY <1>4, <2>2, <2>6, <2>7, <2>8, QueueFrame
  <1>6. CASE /\ handle = "open" /\ synced' = [synced EXCEPT ![activeID] = disk[activeID]]
             /\ UNCHANGED outcome
    <2>1. /\ synced'[activeID] = disk[activeID] /\ activeID \in Segs /\ activeOffset \in Nat
          /\ \A s \in Segs \ {activeID} : synced'[s] = synced[s]
      BY <1>6, FileFacts
    <2>2. Shape(disk[activeID], synced[activeID]) /\ Tidy(disk[activeID], activeOffset)
      BY <1>6, <2>1 DEF Durable, Files
    <2>3. Shape(disk[activeID], disk[activeID])
      BY <2>2, SyncShape
    <2>4. Below(synced[activeID], activeOffset) \subseteq synced'[activeID]
          /\ Below(disk[activeID], activeOffset) \subseteq synced'[activeID]
      BY <2>1, <2>2 DEF Below, Shape
    <2>5. activeOffset' \in Nat /\ activeOffset <= activeOffset'
      <3>1. activeOffset' = activeOffset
        BY <1>1
      <3>2. activeOffset \in Nat
        BY <2>1
      <3> QED BY <3>1, <3>2, SMTT(30)
    <2>6. ASSUME NEW w \in Writes
          PROVE  (Safe(w) => Safe(w)') /\ (Written(w) => Safe(w)')
      <3>1. loc'[w] = loc[w]
        BY <1>1
      <3>2. Safe(w) => Safe(w)'
        BY <1>1, <1>6, <2>1, <2>4, <2>5, <3>1, SafeKept
      <3>3. Written(w) => Safe(w)'
        BY <1>1, <2>4, <2>5, <3>1, WrittenSafe
      <3> QED BY <3>2, <3>3
    <2>7. Active'
      BY <1>1, <1>4 DEF Durable, Active
    <2>8. \A s \in Segs : Shape(disk'[s], synced'[s])
      BY <1>1, <2>1, <2>3 DEF Durable, Files
    <2>9. Files'
      BY <1>1, <2>2, <2>8 DEF Files
    <2>10. AckedSafe'
      BY <1>1, <2>6 DEF Durable, AckedSafe
    <2>11. BatchSafe'
      <3> SUFFICES ASSUME NEW g \in Flushers, NEW w \in InBatch(g), stage'[g] # "idle",
                          outcome[w] = "ok"
                   PROVE  Safe(w)' \/ (stage'[g] = "sync" /\ Current(g, w)')
        BY <1>3, <1>6 DEF BatchSafe
      <3>1. w \in Writes
        BY Members DEF TypeOK
      <3>2. stage[g] # "idle"
        BY <1>1, <1>2
      <3> QED BY <1>1, <1>2, <1>3, <2>6, <3>1, <3>2 DEF Durable, BatchSafe
    <2>12. DirectWritten'
      <3> SUFFICES ASSUME NEW g \in Flushers, NEW w \in Writes, stage'[g] = "sync"
                   PROVE  FALSE
        BY DEF DirectWritten
      <3>1. g # f /\ stage[g] = "sync"
        BY <1>2
      <3> QED BY <1>1, <3>1 DEF QInv, Mutex, HoldsMutex
    <2> QED BY <2>7, <2>9, <2>10, <2>11, <2>12 DEF Durable
  <1> QED BY <1>5, <1>6 DEF SyncBatch

\* A new segment is opened, or fails to open, after the old one was finalized.
LEMMA OpenNextStep ==
    ASSUME TypeOK, QInv, Durable, NEW f \in Flushers, NEW w \in Writes, OpenNext(f, w)
    PROVE  Durable'
  <1>1. /\ stage[f] = "open" /\ HoldsMutex(f) /\ Current(f, w) /\ activeID + 1 \in Segs
        /\ activeID' = activeID + 1 /\ activeOffset' = 0 /\ handle' \in {"open", "closed"}
        /\ files' \in {files, files \cup {activeID + 1}}
        /\ handle' = "open" => activeID' \in files'
        /\ UNCHANGED <<proc, batch, status, disk, synced>>
    BY DEF OpenNext, HoldsMutex, queueVars
  <1>2. /\ stage'[f] = "append" /\ \A g \in Flushers \ {f} : stage'[g] = stage[g]
        /\ \A v \in Writes \ {w} : loc'[v] = loc[v] /\ outcome'[v] = outcome[v]
        /\ outcome'[w] = "ok" => outcome[w] = "ok" /\ loc'[w] = loc[w]
    BY FileFacts DEF OpenNext, Fail
  <1>3. /\ Running /\ activeID \in Nat /\ files \subseteq Segs /\ Segs \subseteq Nat
        /\ \A s \in files : s <= activeID
    BY <1>1, Constants DEF QInv, Holding, Durable, Active, TypeOK
  <1>4. activeID + 1 \notin files
    BY <1>3, SMTT(30)
  <1>5. disk[activeID + 1] = {} /\ synced[activeID + 1] = {}
    BY <1>1, <1>4 DEF Durable, Active, Files, Shape
  <1>6. Active'
    <2>1. \A s \in Segs \ files' : disk'[s] = {}
      BY <1>1 DEF Durable, Active
    <2>2. \A s \in files' : s <= activeID'
      BY <1>1, <1>3, SMTT(30)
    <2> QED BY <1>1, <2>1, <2>2, <1>3 DEF Active, Running
  <1>7. Files'
    <2>1. \A s \in Segs : Shape(disk[s], synced[s])
      BY DEF Durable, Files
    <2>2. Tidy({}, 0)
      BY DEF Tidy
    <2>3. disk'[activeID'] = {}
      BY <1>1, <1>5
    <2> QED BY <1>1, <2>1, <2>2, <2>3 DEF Files
  <1>8. ASSUME NEW v \in Writes, loc'[v] = loc[v], Safe(v) PROVE Safe(v)'
    <2>1. PICK it \in synced[loc[v][1]] :
              it = Rec(v, loc[v][2]) \/ (it.kind = "foot" /\ it.off < loc[v][2])
      BY <1>8 DEF Safe
    <2>2. loc[v][1] # activeID'
      BY <1>1, <1>5, <2>1
    <2>3. Settled(loc[v][1], it)'
      BY <1>8, <2>2 DEF Settled
    <2> QED BY <1>1, <1>8, <2>1, <2>3 DEF Safe
  <1>9. \A v \in Writes, g \in Flushers : v \in InBatch(g)' <=> v \in InBatch(g)
    BY <1>1, BatchUnchanged
  <1>10. w \in InBatch(f) /\ status[w] # "acked"
    BY <1>1, CurrentInBatch DEF QInv, Queued
  <1>11. AckedSafe'
    BY <1>1, <1>2, <1>8, <1>10 DEF Durable, AckedSafe
  <1>12. \A g \in Flushers : stage[g] \notin {"append", "sync"}
    BY <1>1 DEF QInv, Mutex, HoldsMutex
  <1>13. BatchSafe'
    <2> SUFFICES ASSUME NEW g \in Flushers, NEW v \in InBatch(g)', stage'[g] # "idle",
                        outcome'[v] = "ok"
                 PROVE  Safe(v)'
      BY DEF BatchSafe
    <2>1. v \in InBatch(g) /\ v \in Writes
      BY <1>1, BatchUnchanged, Members DEF TypeOK
    <2>2. outcome[v] = "ok" /\ loc'[v] = loc[v] /\ stage[g] # "idle"
      BY <1>1, <1>2, <2>1
    <2>3. Safe(v)
      BY <1>12, <2>1, <2>2 DEF Durable, BatchSafe
    <2> QED BY <1>8, <2>1, <2>2, <2>3
  <1>14. DirectWritten'
    BY <1>2, <1>12 DEF DirectWritten
  <1> QED BY <1>6, <1>7, <1>11, <1>13, <1>14 DEF Durable

\* What ends with the process leaves only what acknowledged records need.
LEMMA EndStep ==
    ASSUME TypeOK, Durable, ProcessEnds, files' \subseteq files,
           \A s \in Segs : Shape(disk'[s], synced'[s]),
           \A s \in Segs \ files' : disk'[s] = {},
           \A w \in Writes : status[w] = "acked" => \A it \in synced[loc[w][1]] :
               Settled(loc[w][1], it) => it \in synced'[loc[w][1]]
    PROVE  Durable'
  <1>1. /\ proc' = "down" /\ handle' = "closed" /\ activeOffset' = 0
        /\ \A f \in Flushers : stage'[f] = "idle"
        /\ \A w \in Writes : status'[w] = "acked" => status[w] = "acked" /\ loc'[w] = loc[w]
    BY DEF ProcessEnds, TypeOK
  <1>2. Active'
    BY <1>1 DEF Active, Running
  <1>3. Files'
    BY <1>1 DEF Files
  <1>4. AckedSafe'
    <2> SUFFICES ASSUME NEW w \in Writes, status'[w] = "acked" PROVE Safe(w)'
      BY DEF AckedSafe
    <2>1. Safe(w) /\ status[w] = "acked" /\ loc'[w] = loc[w]
      BY <1>1 DEF Durable, AckedSafe
    <2>2. PICK it \in synced[loc[w][1]] :
              /\ it = Rec(w, loc[w][2]) \/ (it.kind = "foot" /\ it.off < loc[w][2])
              /\ Settled(loc[w][1], it)
      BY <2>1 DEF Safe
    <2>3. it \in synced'[loc[w][1]]
      BY <2>1, <2>2
    <2>4. Settled(loc[w][1], it)'
      BY <1>1 DEF Settled
    <2> QED BY <2>1, <2>2, <2>3, <2>4 DEF Safe
  <1>5. BatchSafe' /\ DirectWritten'
    BY <1>1 DEF BatchSafe, DirectWritten
  <1> QED BY <1>2, <1>3, <1>4, <1>5 DEF Durable

\* SegmentManager.Close keeps acknowledged records safe.
LEMMA CloseFinishStep ==
    ASSUME TypeOK, QInv, Durable, CloseFinish
    PROVE  Durable'
  <1>1. ProcessEnds /\ files' = files
    BY DEF CloseFinish
  <1>2. \A s \in Segs : Shape(disk[s], synced[s])
    BY DEF Durable, Files
  <1>3. \A s \in Segs \ files : disk[s] = {}
    BY DEF Durable, Active
  <1>4. CASE UNCHANGED <<disk, synced>>
    BY <1>1, <1>2, <1>3, <1>4, EndStep
  <1>5. CASE activeOffset # 0 /\ (FinalizeOK \/ FinalizeFails)
    <2>1. handle = "open" /\ activeID \in files
      BY <1>5 DEF Durable, Active, TypeOK
    <2>2. /\ \A s \in Segs \ {activeID} : disk'[s] = disk[s] /\ synced'[s] = synced[s]
          /\ Below(synced[activeID], activeOffset) \subseteq synced'[activeID]
          /\ Shape(disk'[activeID], synced'[activeID])
      BY <1>5, <2>1, FinalizeShape DEF Durable
    <2>3. \A s \in Segs : Shape(disk'[s], synced'[s])
      BY <1>2, <2>2
    <2>4. \A s \in Segs \ files' : disk'[s] = {}
      BY <1>1, <1>3, <2>1, <2>2
    <2>5. ASSUME NEW w \in Writes, NEW it \in synced[loc[w][1]], Settled(loc[w][1], it)
          PROVE  it \in synced'[loc[w][1]]
      BY <2>1, <2>2, <2>5, FileFacts DEF Settled, Below
    <2> QED BY <1>1, <2>3, <2>4, <2>5, EndStep
  <1> QED BY <1>4, <1>5 DEF CloseFinish

\* A crash keeps acknowledged records safe.
LEMMA CrashStep ==
    ASSUME TypeOK, QInv, Durable, Crash
    PROVE  Durable'
  <1>1. PICK lost \in SUBSET Unsynced, gone \in SUBSET {s \in files : synced[s] = {}} :
           /\ files' = files \ gone
           /\ disk' = [s \in Segs |-> IF s \in gone THEN {} ELSE AfterCrash(s, lost)]
    BY DEF Crash
  <1>2. ProcessEnds /\ synced' = synced
    BY DEF Crash
  <1>3. \A s \in Segs : disk[s] \in SUBSET Item /\ Shape(disk[s], synced[s])
    BY FileFacts DEF Durable, Files
  <1>4. ASSUME NEW s \in Segs PROVE Shape(disk'[s], synced'[s])
    <2>1. CASE s \in gone
      <3>1. disk'[s] = {} /\ synced'[s] = {}
        BY <1>1, <1>2, <2>1
      <3> QED BY <3>1, OrderedEmpty DEF Shape
    <2>2. CASE s \notin gone
      <3> DEFINE L == {i \in disk[s] : <<s, i>> \in lost}
      <3>1. L \in SUBSET (disk[s] \ synced[s])
        <4> SUFFICES ASSUME NEW i \in L PROVE i \in disk[s] \ synced[s]
          OBVIOUS
        <4>1. <<s, i>> \in Unsynced
          BY <1>1
        <4>2. PICK t \in Segs : <<s, i>> \in {t} \X (disk[t] \ synced[t])
          BY <4>1 DEF Unsynced
        <4> QED BY <4>2
      <3>2. disk'[s] = (disk[s] \ L) \cup {Torn(it.off) : it \in L}
        BY <1>1, <2>2 DEF AfterCrash
      <3> HIDE DEF L
      <3>3. Shape(disk'[s], synced[s])
        BY <1>3, <3>1, <3>2, CrashShape
      <3> QED BY <1>2, <3>3
    <2> QED BY <2>1, <2>2
  <1>5. ASSUME NEW s \in Segs \ files' PROVE disk'[s] = {}
    <2>1. CASE s \in gone
      BY <1>1, <2>1
    <2>2. CASE s \notin gone
      <3>1. disk[s] = {}
        BY <1>1, <2>2 DEF Durable, Active
      <3> QED BY <1>1, <2>2, <3>1 DEF AfterCrash
    <2> QED BY <2>1, <2>2
  <1>6. files' \subseteq files
    BY <1>1
  <1> QED BY <1>2, <1>4, <1>5, <1>6, EndStep

\* Recovery of the newest segment keeps acknowledged records safe.
LEMMA OpenStep ==
    ASSUME TypeOK, QInv, Durable, Open
    PROVE  Durable'
  <1>1. PICK s \in Segs :
           /\ IF files = {} THEN s = 0 ELSE Newest(s)
           /\ activeID' = s
           /\ files' = files \cup {s}
           /\ disk' = [disk EXCEPT ![s] = ValidTail(@)]
           /\ synced' = [synced EXCEPT ![s] = @ \cap disk'[s]]
           /\ \E e \in Ends(disk'[s]) : IsEnd(disk'[s], e) /\ activeOffset' = e
    BY DEF Open
  <1>2. /\ proc = "down" /\ proc' = "up" /\ handle' = "open"
        /\ UNCHANGED <<batch, stage, next, outcome, loc, status>>
    BY DEF Open, bufferVars, queueVars, writeVars
  <1>3. disk \in [Segs -> SUBSET Item] /\ synced \in [Segs -> SUBSET Item]
    BY FileFacts
  <1>4. /\ disk'[s] = ValidTail(disk[s]) /\ synced'[s] = synced[s] \cap ValidTail(disk[s])
        /\ \A r \in Segs \ {s} : disk'[r] = disk[r] /\ synced'[r] = synced[r]
    BY <1>1, <1>3
  <1>5. ValidTail(disk[s]) \subseteq Item /\ disk[s] \in SUBSET Item
    BY <1>3 DEF ValidTail
  <1>6. activeOffset' \in Nat /\ \A it \in ValidTail(disk[s]) : it.off + it.size <= activeOffset'
    <2>1. PICK e \in Ends(ValidTail(disk[s])) : IsEnd(ValidTail(disk[s]), e) /\ activeOffset' = e
      BY <1>1, <1>4
    <2>2. e \in Nat
      <3>1. \A it \in ValidTail(disk[s]) : it.off + it.size \in Nat
        BY <1>5, ItemFields, SMTT(30)
      <3>2. e = 0 \/ \E it \in ValidTail(disk[s]) : e = it.off + it.size
        BY <2>1 DEF Ends
      <3> QED BY <3>1, <3>2, SMTT(30)
    <2> QED BY <2>1, <2>2 DEF IsEnd, Ends
  <1>7. \A r \in Segs : Shape(disk[r], synced[r])
    BY DEF Durable, Files
  <1>8. Shape(disk'[s], synced'[s]) /\ Tidy(disk'[s], activeOffset')
    BY <1>4, <1>5, <1>6, <1>7, CutShape
  <1>9. Active'
    <2>1. \A r \in Segs \ files' : disk'[r] = {}
      BY <1>1, <1>4 DEF Durable, Active
    <2>2. \A r \in files' : r <= s
      BY <1>1, Constants, SMTT(30) DEF Newest
    <2> QED BY <1>1, <1>2, <2>1, <2>2 DEF Active, Running
  <1>10. Files'
    <2>1. \A r \in Segs : Shape(disk'[r], synced'[r])
      BY <1>4, <1>7, <1>8
    <2>2. Tidy(disk'[activeID'], activeOffset')
      BY <1>1, <1>8
    <2> QED BY <2>1, <2>2 DEF Files
  <1>11. AckedSafe'
    <2> SUFFICES ASSUME NEW w \in Writes, status'[w] = "acked" PROVE Safe(w)'
      BY DEF AckedSafe
    <2>1. Safe(w) /\ loc'[w] = loc[w] /\ loc[w][1] \in Segs /\ loc[w][2] \in Nat
      BY <1>2, FileFacts DEF Durable, AckedSafe
    <2>2. PICK it \in synced[loc[w][1]] :
              it = Rec(w, loc[w][2]) \/ (it.kind = "foot" /\ it.off < loc[w][2])
      BY <2>1 DEF Safe
    <2>3. CASE loc[w][1] # s
      BY <1>1, <1>4, <2>1, <2>2, <2>3, SMTT(30) DEF Safe, Settled
    <2>4. CASE loc[w][1] = s
      <3>1. it.kind # "torn" /\ it \in synced[s] /\ (it = Rec(w, loc[w][2]) => it.off = loc[w][2])
        <4>1. Rec(w, loc[w][2]).kind = "rec" /\ Rec(w, loc[w][2]).off = loc[w][2]
          BY <2>1, RecFields, SMTT(30)
        <4>2. it.kind # "torn"
          BY <2>2, <4>1
        <4>3. it \in synced[s]
          BY <2>2, <2>4
        <4> QED BY <4>1, <4>2, <4>3
      <3>2. PICK m \in synced[s] \cap ValidTail(disk[s]) :
                m = it \/ (m.kind = "foot" /\ m.off < it.off)
        BY <1>5, <1>7, <3>1, CutKeeps
      <3>3. m.off \in Nat /\ it.off \in Nat
        BY <1>3, <3>1, <3>2, ItemFields
      <3>4. m = Rec(w, loc[w][2]) \/ (m.kind = "foot" /\ m.off < loc[w][2])
        <4>1. PICK n \in Nat : n = loc[w][2]
          BY <2>1
        <4>2. CASE it = Rec(w, n)
          <5>1. it.off = n
            BY <3>1, <4>1, <4>2
          <5> QED BY <3>2, <4>1, <4>2, <5>1
        <4>3. CASE it.kind = "foot" /\ it.off < n
          <5>1. m.off < it.off => m.off < n
            BY <3>3, <4>3, SMTT(30)
          <5> QED BY <3>2, <4>1, <4>3, <5>1
        <4> QED BY <2>2, <4>1, <4>2, <4>3
      <3>5. m \in synced'[loc'[w][1]]
        BY <1>4, <2>1, <2>4, <3>2
      <3>6. Settled(loc[w][1], m)'
        BY <1>6, <3>2 DEF Settled
      <3> QED BY <2>1, <3>4, <3>5, <3>6 DEF Safe
    <2> QED BY <2>3, <2>4
  <1>12. \A f \in Flushers : stage'[f] = "idle"
    BY <1>2 DEF QInv, Holding, Running
  <1>13. BatchSafe' /\ DirectWritten'
    BY <1>12 DEF BatchSafe, DirectWritten
  <1> QED BY <1>9, <1>10, <1>11, <1>13 DEF Durable

\* Swapping the pending requests out leaves the files alone.
LEMMA TakeStep ==
    ASSUME TypeOK, QInv, Durable, NEW f \in Flushers, TakeBatch(f),
           UNCHANGED <<next, writeVars, fileVars, activeVars>>, Running' = Running
    PROVE  Durable'
  <1>1. \A w \in Writes : status'[w] = status[w] /\ loc'[w] = loc[w] /\ outcome'[w] = outcome[w]
    BY DEF writeVars
  <1>2. CASE UNCHANGED <<pending, batch, stage>>
    <2>1. \A g \in Flushers : InBatch(g)' = InBatch(g) /\ \A w \in Writes : Current(g, w)' = Current(g, w)
      BY <1>2, BatchUnchanged DEF Current
    <2>2. \A g \in Flushers : InBatch(g) \subseteq Writes
      BY Members DEF TypeOK
    <2>3. AckedKept
      BY <1>1 DEF AckedKept
    <2>4. BatchKept
      BY <1>1, <1>2, <2>1, <2>2 DEF BatchKept
    <2>5. DirectKept
      BY <1>1, <1>2, <2>1 DEF DirectKept
    <2> QED BY <2>3, <2>4, <2>5, QueueFrame
  <1>3. CASE /\ InBatch(f)' = InPending
             /\ \A g \in Flushers \ {f} : InBatch(g)' = InBatch(g)
             /\ stage' = [stage EXCEPT ![f] = "wait"]
    <2>1. stage'[f] = "wait" /\ \A g \in Flushers \ {f} : stage'[g] = stage[g]
      BY <1>3, FileFacts
    <2>2. \A g \in Flushers \ {f} : batch'[g] = batch[g]
      BY DEF TakeBatch, TypeOK, QueueTypes
    <2>3. \A g \in Flushers \ {f} : \A w \in Writes : Current(g, w)' = Current(g, w)
      BY <2>2 DEF Current
    <2>4. \A w \in InPending : w \in Writes /\ outcome[w] = "none"
      BY Members DEF QInv, Queued, TypeOK
    <2>5. \A g \in Flushers : InBatch(g) \subseteq Writes
      BY Members DEF TypeOK
    <2>6. AckedKept
      BY <1>1 DEF AckedKept
    <2>7. BatchKept
      <3> SUFFICES ASSUME NEW g \in Flushers, NEW w \in InBatch(g)', outcome'[w] = "ok"
                   PROVE  /\ w \in InBatch(g) /\ outcome[w] = "ok" /\ loc'[w] = loc[w]
                          /\ stage'[g] = stage[g] /\ Current(g, w)' = Current(g, w)
        BY DEF BatchKept
      <3>1. g # f
        BY <1>1, <1>3, <2>4
      <3>2. w \in InBatch(g) /\ w \in Writes
        BY <1>3, <2>5, <3>1
      <3> QED BY <1>1, <2>1, <2>3, <3>1, <3>2
    <2>8. DirectKept
      <3> SUFFICES ASSUME NEW g \in Flushers, NEW w \in Writes, stage'[g] = "sync", Current(g, w)'
                   PROVE  stage[g] = "sync" /\ Current(g, w) /\ loc'[w] = loc[w]
        BY DEF DirectKept
      <3>1. g # f
        BY <2>1
      <3> QED BY <1>1, <2>1, <2>3, <3>1
    <2> QED BY <2>6, <2>7, <2>8, QueueFrame
  <1> QED BY <1>2, <1>3, BatchTaken DEF TypeOK

\* The steps that change neither a file nor the write position,
QueueMove ==
    \/ \E w \in Writes : BufferAppend(w) \/ DirectAppend(w) \/ Cancel(w)
    \/ \E f \in Flushers : Lock(f) \/ Deliver(f) \/ FlushPanic(f)
    \/ \E f \in Flushers, w \in Writes : WriteToClosed(f, w)
    \/ CloseBegin \/ UNCHANGED vars

\* keep acknowledged records safe.
LEMMA QueueStep ==
    ASSUME TypeOK, QInv, Durable, QueueMove
    PROVE  Durable'
  <1>1. /\ \A f \in Flushers : InBatch(f) \subseteq Writes
        /\ QueueTypes
    BY Members DEF TypeOK
  <1>2. UNCHANGED <<fileVars, activeVars>>
    BY DEF QueueMove, BufferAppend, DirectAppend, Cancel, Lock, Deliver, FlushPanic,
           WriteToClosed, CloseBegin, vars
  <1>3. Running' = Running
    BY DEF QueueMove, BufferAppend, DirectAppend, Cancel, Lock, Deliver, FlushPanic,
           WriteToClosed, CloseBegin, vars, Running
  <1>4. ASSUME \/ \E w \in Writes : BufferAppend(w) \/ Cancel(w)
               \/ CloseBegin \/ UNCHANGED vars
        PROVE  Durable'
    <2>1. /\ UNCHANGED <<batch, stage, next, outcome, loc>>
          /\ \A v \in Writes : status'[v] = "acked" => status[v] = "acked"
      BY <1>4, FileFacts DEF BufferAppend, Cancel, CloseBegin, vars, bufferVars, queueVars, writeVars
    <2>2. \A g \in Flushers : InBatch(g)' = InBatch(g) /\ \A v \in Writes : Current(g, v)' = Current(g, v)
      BY <2>1, BatchUnchanged DEF Current
    <2>3. AckedKept
      BY <2>1 DEF AckedKept
    <2>4. BatchKept
      BY <1>1, <2>1, <2>2 DEF BatchKept
    <2>5. DirectKept
      BY <2>1, <2>2 DEF DirectKept
    <2> QED BY <1>2, <1>3, <2>3, <2>4, <2>5, QueueFrame
  <1>5. ASSUME NEW w \in Writes, DirectAppend(w)
        PROVE  Durable'
    <2>1. /\ UNCHANGED <<next, outcome, loc>> /\ stage' = [stage EXCEPT ![w] = "wait"]
          /\ batch' = [batch EXCEPT ![w] = <<w>>]
          /\ status[w] = "idle" /\ status' = [status EXCEPT ![w] = "waiting"]
      BY <1>5 DEF DirectAppend
    <2>2. w \in Flushers /\ outcome[w] = "none"
      BY <2>1, Constants DEF QInv, Queued
    <2>3. stage'[w] = "wait" /\ \A g \in Flushers \ {w} : stage'[g] = stage[g]
      BY <2>1, <2>2, FileFacts
    <2>4. \A g \in Flushers \ {w} : batch'[g] = batch[g]
      BY <1>1, <2>1 DEF QueueTypes
    <2>5. \A g \in Flushers \ {w} :
              InBatch(g)' = InBatch(g) /\ \A v \in Writes : Current(g, v)' = Current(g, v)
      BY <2>1, <2>4 DEF Current, InBatch
    <2>6. InBatch(w)' = {w}
      BY <1>1, <2>1, <2>2, SMTT(30) DEF InBatch, QueueTypes
    <2>7. \A v \in Writes : status'[v] = "acked" => status[v] = "acked"
      BY <2>1, FileFacts
    <2>8. AckedKept
      BY <2>1, <2>7 DEF AckedKept
    <2>9. BatchKept
      <3> SUFFICES ASSUME NEW g \in Flushers, NEW v \in InBatch(g)', outcome'[v] = "ok"
                   PROVE  /\ v \in InBatch(g) /\ outcome[v] = "ok" /\ loc'[v] = loc[v]
                          /\ stage'[g] = stage[g] /\ Current(g, v)' = Current(g, v)
        BY DEF BatchKept
      <3>1. g # w
        BY <2>1, <2>2, <2>6, SMTT(30)
      <3>2. v \in InBatch(g) /\ v \in Writes
        BY <1>1, <2>5, <3>1
      <3> QED BY <2>1, <2>3, <2>5, <3>1, <3>2
    <2>10. DirectKept
      <3> SUFFICES ASSUME NEW g \in Flushers, NEW v \in Writes, stage'[g] = "sync", Current(g, v)'
                   PROVE  stage[g] = "sync" /\ Current(g, v) /\ loc'[v] = loc[v]
        BY DEF DirectKept
      <3>1. g # w
        BY <2>3
      <3> QED BY <2>1, <2>3, <2>5, <3>1
    <2> QED BY <1>2, <1>3, <2>8, <2>9, <2>10, QueueFrame
  <1>6. ASSUME NEW f \in Flushers, Lock(f) \/ FlushPanic(f)
        PROVE  Durable'
    <2>1. /\ UNCHANGED <<batch, loc, status>>
          /\ \A g \in Flushers \ {f} : stage'[g] = stage[g] /\ next'[g] = next[g]
          /\ stage[f] # "idle" /\ stage'[f] \in {"append", "deliver"}
          /\ \A v \in Writes : outcome'[v] = "ok" => outcome[v] = "ok"
          /\ \A v \in InBatch(f) : v \in Writes /\ outcome'[v] = "ok" => stage[f] = "wait"
      BY <1>6, FileFacts, SMTT(30) DEF Lock, FlushPanic, FailRest, queueVars, writeVars, TypeOK
    <2>2. \A g \in Flushers : InBatch(g)' = InBatch(g)
      BY <2>1, BatchUnchanged
    <2>3. \A g \in Flushers \ {f} : \A v \in Writes : Current(g, v)' = Current(g, v)
      BY <2>1 DEF Current
    <2>4. AckedKept
      BY <2>1 DEF AckedKept
    <2>5. BatchKept
      <3> SUFFICES ASSUME NEW g \in Flushers, NEW v \in InBatch(g)', stage'[g] # "idle",
                          outcome'[v] = "ok"
                   PROVE  /\ v \in InBatch(g) /\ outcome[v] = "ok" /\ loc'[v] = loc[v]
                          /\ stage[g] # "idle"
                          /\ \/ stage'[g] = stage[g] /\ Current(g, v)' = Current(g, v)
                             \/ stage[g] = "wait"
        BY DEF BatchKept
      <3>1. v \in InBatch(g) /\ v \in Writes
        BY <1>1, <2>2
      <3>2. outcome[v] = "ok" /\ loc'[v] = loc[v]
        BY <2>1, <3>1
      <3>3. CASE g = f
        BY <2>1, <3>1, <3>2, <3>3
      <3>4. CASE g # f
        BY <2>1, <2>3, <3>1, <3>2, <3>4
      <3> QED BY <3>3, <3>4
    <2>6. DirectKept
      <3> SUFFICES ASSUME NEW g \in Flushers, NEW v \in Writes, stage'[g] = "sync", Current(g, v)'
                   PROVE  stage[g] = "sync" /\ Current(g, v) /\ loc'[v] = loc[v]
        BY DEF DirectKept
      <3>1. g # f
        BY <2>1
      <3> QED BY <2>1, <2>3, <3>1
    <2> QED BY <1>2, <1>3, <2>4, <2>5, <2>6, QueueFrame
  <1>7. ASSUME NEW f \in Flushers, Deliver(f)
        PROVE  Durable'
    <2>1. /\ UNCHANGED loc /\ stage[f] = "deliver"
          /\ stage' = [stage EXCEPT ![f] = "idle"]
          /\ batch' = [batch EXCEPT ![f] = << >>]
          /\ next' = [next EXCEPT ![f] = 1]
      BY <1>7 DEF Deliver
    <2>2. \A v \in Writes : outcome'[v] = "ok" => outcome[v] = "ok"
      BY <1>7 DEF Deliver
    <2>3. \A v \in Writes : status'[v] = "acked" =>
              status[v] = "acked" \/ (v \in InBatch(f) /\ outcome[v] = "ok" /\ stage[f] = "deliver")
      BY <1>7 DEF Deliver
    <2>4. stage'[f] = "idle" /\ \A g \in Flushers \ {f} : stage'[g] = stage[g]
      BY <2>1, FileFacts
    <2>5. \A g \in Flushers \ {f} : batch'[g] = batch[g] /\ next'[g] = next[g]
      BY <1>1, <2>1 DEF QueueTypes, TypeOK
    <2>6. \A g \in Flushers \ {f} :
              InBatch(g)' = InBatch(g) /\ \A v \in Writes : Current(g, v)' = Current(g, v)
      BY <2>5 DEF Current, InBatch
    <2>7. AckedKept
      BY <2>1, <2>3 DEF AckedKept
    <2>8. BatchKept
      <3> SUFFICES ASSUME NEW g \in Flushers, NEW v \in InBatch(g)', stage'[g] # "idle",
                          outcome'[v] = "ok"
                   PROVE  /\ v \in InBatch(g) /\ outcome[v] = "ok" /\ loc'[v] = loc[v]
                          /\ stage'[g] = stage[g] /\ Current(g, v)' = Current(g, v)
        BY DEF BatchKept
      <3>1. g # f
        BY <2>4
      <3>2. v \in InBatch(g) /\ v \in Writes
        BY <1>1, <2>6, <3>1
      <3>3. outcome[v] = "ok" /\ loc'[v] = loc[v]
        BY <2>1, <2>2, <3>2
      <3> QED BY <2>4, <2>6, <3>1, <3>2, <3>3
    <2>9. DirectKept
      <3> SUFFICES ASSUME NEW g \in Flushers, NEW v \in Writes, stage'[g] = "sync", Current(g, v)'
                   PROVE  stage[g] = "sync" /\ Current(g, v) /\ loc'[v] = loc[v]
        BY DEF DirectKept
      <3>1. g # f
        BY <2>4
      <3>2. loc'[v] = loc[v]
        BY <2>1
      <3> QED BY <2>4, <2>6, <3>1, <3>2
    <2> QED BY <1>2, <1>3, <2>7, <2>8, <2>9, QueueFrame
  <1>8. ASSUME NEW f \in Flushers, NEW w \in Writes, WriteToClosed(f, w)
        PROVE  Durable'
    <2>1. /\ UNCHANGED <<batch, status>> /\ stage[f] = "append" /\ handle = "closed"
          /\ w \in InBatch(f) /\ Fail(f, w)
      BY <1>8, CurrentInBatch DEF WriteToClosed, queueVars
    <2>2. stage'[f] = "append" /\ \A g \in Flushers \ {f} : stage'[g] = stage[g] /\ next'[g] = next[g]
      BY <2>1, FileFacts DEF Fail, TypeOK
    <2>3. /\ outcome'[w] = "err"
          /\ \A v \in Writes \ {w} : loc'[v] = loc[v] /\ outcome'[v] = outcome[v]
      BY <2>1, FileFacts DEF Fail
    <2>4. \A g \in Flushers : InBatch(g)' = InBatch(g)
      BY <2>1, BatchUnchanged
    <2>5. \A g \in Flushers \ {f} : \A v \in Writes : Current(g, v)' = Current(g, v)
      BY <2>1, <2>2 DEF Current
    <2>6. status[w] # "acked" /\ \A g \in Flushers \ {f} : w \notin InBatch(g)
      BY <2>1 DEF QInv, Queued
    <2>7. \A g \in Flushers : stage'[g] # "sync"
      BY <2>1, <2>2 DEF QInv, Mutex, HoldsMutex
    <2>8. AckedKept
      BY <2>1, <2>3, <2>6 DEF AckedKept
    <2>9. BatchKept
      <3> SUFFICES ASSUME NEW g \in Flushers, NEW v \in InBatch(g)', stage'[g] # "idle",
                          outcome'[v] = "ok"
                   PROVE  /\ v \in InBatch(g) /\ outcome[v] = "ok" /\ loc'[v] = loc[v]
                          /\ stage[g] # "idle" /\ stage'[g] = stage[g]
                          /\ stage[g] = "append" \/ Current(g, v)' = Current(g, v)
        BY DEF BatchKept
      <3>1. v \in InBatch(g) /\ v \in Writes
        BY <1>1, <2>4
      <3>2. outcome[v] = "ok" /\ loc'[v] = loc[v]
        BY <2>3, <3>1
      <3>3. CASE g = f
        BY <2>1, <2>2, <3>1, <3>2, <3>3
      <3>4. CASE g # f
        BY <2>2, <2>5, <3>1, <3>2, <3>4
      <3> QED BY <3>3, <3>4
    <2>10. DirectKept
      BY <2>7 DEF DirectKept
    <2> QED BY <1>2, <1>3, <2>8, <2>9, <2>10, QueueFrame
  <1> QED BY <1>4, <1>5, <1>6, <1>7, <1>8 DEF QueueMove

\* Every step keeps the invariant on files and acknowledgements.
LEMMA DurableStep == TypeOK /\ QInv /\ Durable /\ [Next]_vars => Durable'
  <1> SUFFICES ASSUME TypeOK, QInv, Durable, [Next]_vars PROVE Durable'
    OBVIOUS
  <1>1. ASSUME NEW w \in Writes, BufferAppend(w) \/ DirectAppend(w) \/ Cancel(w) PROVE Durable'
    BY <1>1, QueueStep DEF QueueMove
  <1>2. ASSUME NEW w \in Writes, ThresholdFlush(w) PROVE Durable'
    <2>1. /\ w \in Flushers /\ TakeBatch(w) /\ Running' = Running
          /\ UNCHANGED <<next, writeVars, fileVars, activeVars>>
      BY <1>2, Constants DEF ThresholdFlush, Running
    <2> QED BY <2>1, TakeStep
  <1>3. CASE TickFlush
    <2>1. /\ Loop \in Flushers /\ TakeBatch(Loop) /\ Running' = Running
          /\ UNCHANGED <<next, writeVars, fileVars, activeVars>>
      BY <1>3, Constants DEF TickFlush, Running
    <2> QED BY <2>1, TakeStep
  <1>4. ASSUME NEW f \in Flushers, Step(f) PROVE Durable'
    <2>1. CASE Lock(f) \/ Deliver(f) \/ FlushPanic(f)
      BY <2>1, QueueStep DEF QueueMove
    <2>2. CASE SyncBatch(f)
      BY <2>2, SyncBatchStep
    <2>3. ASSUME NEW w \in Writes,
                 \/ Rotate(f, w) \/ OpenNext(f, w) \/ WriteRecord(f, w)
                 \/ DirectSync(f, w) \/ WriteToClosed(f, w)
          PROVE  Durable'
      BY <2>3, RotateStep, OpenNextStep, WriteStep, DirectSyncStep, QueueStep DEF QueueMove
    <2> QED BY <1>4, <2>1, <2>2, <2>3 DEF Step
  <1>5. CASE CloseFlush
    <2>1. /\ Closer \in Flushers /\ TakeBatch(Closer) /\ Running' = Running
          /\ UNCHANGED <<next, writeVars, fileVars, activeVars>>
      BY <1>5, Constants DEF CloseFlush, Running
    <2> QED BY <2>1, TakeStep
  <1>6. CASE CloseBegin \/ UNCHANGED vars
    BY <1>6, QueueStep DEF QueueMove
  <1>7. CASE CloseFinish \/ Crash \/ Open
    BY <1>7, CloseFinishStep, CrashStep, OpenStep
  <1> QED BY <1>1, <1>2, <1>3, <1>4, <1>5, <1>6, <1>7 DEF Next

-----------------------------------------------------------------------------
(* Theorems.                                                               *)

\* The invariant holds of a store that was never opened.
LEMMA InitIInv == Init => IInv
  <1> SUFFICES ASSUME Init PROVE IInv
    OBVIOUS
  <1>1. /\ disk = [s \in Segs |-> {}] /\ synced = [s \in Segs |-> {}]
        /\ stage = [f \in Flushers |-> "idle"] /\ status = [w \in Writes |-> "idle"]
        /\ outcome = [w \in Writes |-> "none"] /\ due = {}
        /\ handle = "closed" /\ activeOffset = 0 /\ proc = "down"
        /\ pending = << >> /\ batch = [f \in Flushers |-> << >>]
    BY DEF Init
  <1>2. TypeOK
    <2>1. QueueTypes
      BY <1>1, SMTT(30) DEF QueueTypes
    <2>2. loc \in [Writes -> Segs \X Nat]
      BY Constants DEF Init
    <2>3. next = [f \in Flushers |-> 1] /\ bufSize = 0 /\ files = {} /\ activeID = 0
      BY DEF Init
    <2>4. disk \in [Segs -> SUBSET Item] /\ synced \in [Segs -> SUBSET Item]
      BY <1>1
    <2>5. /\ stage \in [Flushers -> {"idle", "wait", "append", "open", "sync", "deliver"}]
          /\ next \in [Flushers -> Nat \ {0}]
      BY <1>1, <2>3, SMTT(30)
    <2>6. /\ outcome \in [Writes -> {"none", "ok", "err"}]
          /\ status \in [Writes -> {"idle", "waiting", "acked", "failed"}]
      BY <1>1
    <2>7. /\ due = {} /\ handle = "closed" /\ activeOffset = 0 /\ proc = "down"
      BY <1>1
    <2>8. buffered \in BOOLEAN
      BY DEF Init
    <2> QED BY <2>1, <2>2, <2>3, <2>4, <2>5, <2>6, <2>7, <2>8, Constants DEF TypeOK
  <1>3. InPending = {} /\ \A f \in Flushers : InBatch(f) = {}
    BY <1>1, SMTT(30) DEF InPending, InBatch
  <1>4. QInv
    BY <1>1, <1>3 DEF QInv, Queued, Mutex, Holding, HoldsMutex
  <1>5. Durable
    <2>1. \A s \in Segs : disk[s] = {} /\ synced[s] = {}
      BY <1>1
    <2>2. Shape({}, {})
      BY OrderedEmpty DEF Shape
    <2>3. Files
      BY <1>1, <2>1, <2>2 DEF Files
    <2>4. AckedSafe /\ BatchSafe /\ DirectWritten
      BY <1>1 DEF AckedSafe, BatchSafe, DirectWritten
    <2>5. Active
      BY <1>1, <2>1 DEF Active, Running
    <2> QED BY <2>3, <2>4, <2>5 DEF Durable
  <1> QED BY <1>2, <1>4, <1>5 DEF IInv

\* Every step keeps the invariant.
LEMMA IInvStep == IInv /\ [Next]_vars => IInv'
  BY TypeStep, QueuedStep, MutexStep, DurableStep DEF IInv, QInv

\* The invariant holds of every behaviour.
LEMMA Invariance == Spec => []IInv
  BY InitIInv, IInvStep, PTL DEF Spec

\* Type correctness of the segment store for every set of requests, record
\* sizes, buffer and segment limits.
THEOREM TypeCorrect == Spec => []TypeOK
  <1>1. IInv => TypeOK
    BY DEF IInv
  <1> QED BY <1>1, Invariance, PTL

\* Durability of acknowledged records: whatever the number of requests, their
\* sizes and the limits, an Append that returned success left its record in its
\* segment file, unless the record lies behind a footer of its own segment.
THEOREM Durability == Spec => []AckedSurvives
  <1>1. IInv => AckedSurvives
    <2> SUFFICES ASSUME IInv, NEW w \in Writes, status[w] = "acked"
                 PROVE  Stored(w) \/ BehindFooter(w)
      BY DEF AckedSurvives
    <2>1. Safe(w) /\ loc[w][1] \in Segs /\ synced[loc[w][1]] \subseteq disk[loc[w][1]]
      BY FileFacts DEF IInv, Durable, AckedSafe, Files, Shape
    <2> QED BY <2>1 DEF Safe, Stored, BehindFooter
  <1> QED BY <1>1, Invariance, PTL

\* Append-only locations: two acknowledged records share a location only behind
\* a footer, for every value of the constants.
THEOREM Locations == Spec => []NoSharedLocation
  <1>1. IInv => NoSharedLocation
    <2> SUFFICES ASSUME IInv, NEW w \in Writes, NEW v \in Writes, w # v, loc[w] = loc[v],
                        status[w] = "acked", status[v] = "acked", ~BehindFooter(w)
                 PROVE  FALSE
      BY DEF NoSharedLocation
    <2>1. /\ Safe(w) /\ Safe(v) /\ loc[w][1] \in Segs /\ loc[w][2] \in Nat
          /\ Shape(disk[loc[w][1]], synced[loc[w][1]])
      BY FileFacts DEF IInv, Durable, AckedSafe, Files
    <2>2. synced[loc[w][1]] \subseteq disk[loc[w][1]]
      BY <2>1 DEF Shape
    <2>3. Rec(w, loc[w][2]) \in disk[loc[w][1]] /\ Rec(v, loc[w][2]) \in disk[loc[w][1]]
      BY <2>1, <2>2 DEF Safe, BehindFooter
    <2>4. Rec(w, loc[w][2]) = Rec(v, loc[w][2])
      <3>1. PICK n \in Nat : n = loc[w][2]
        BY <2>1
      <3>2. /\ Rec(w, n).off = n /\ Rec(w, n).kind # "torn"
            /\ Rec(v, n).off = n /\ Rec(v, n).kind # "torn"
        BY RecFields
      <3>3. \A a, b \in disk[loc[w][1]] :
                a.off = b.off /\ a.kind # "torn" /\ b.kind # "torn" => a = b
        BY <2>1 DEF Shape
      <3> QED BY <2>3, <3>1, <3>2, <3>3
    <2> QED BY <2>4 DEF Rec
  <1> QED BY <1>1, Invariance, PTL

-----------------------------------------------------------------------------
(* Older segments.                                                         *)

\* A file that holds something and is on stable storage as it is.
Frozen(s) == disk[s] # {} /\ synced[s] = disk[s]

\* Every file but the newest is frozen, and so is the one that a rotation is
\* about to leave.
Older ==
    /\ \A s, t \in files : s < t => Frozen(s)
    /\ Running => \A s \in files : s < activeID => Frozen(s)
    /\ \A f \in Flushers : stage[f] = "open" => Frozen(activeID)

\* No file that has a newer one is changed by this step.
KeepsOlder == \A s, t \in files : s < t => disk'[s] = disk[s]

\* A step that leaves the files alone.
LEMMA OlderSame ==
    ASSUME Older, UNCHANGED <<fileVars, activeID>>, Running' = Running,
           \A f \in Flushers : stage'[f] = "open" => stage[f] = "open"
    PROVE  Older' /\ KeepsOlder
  BY DEF Older, KeepsOlder, Frozen, fileVars

\* A step that works on file a, which is the newest then.
LEMMA OlderMoves ==
    ASSUME TypeOK, files' \subseteq Segs, activeID' \in Segs, NEW a \in Segs,
           \A s \in files' : s <= a,
           \A s \in files : s <= a,
           \A s \in files' : s < a => s \in files /\ Frozen(s),
           \A s \in Segs \ {a} : disk'[s] = disk[s] /\ synced'[s] = synced[s],
           activeID' = a,
           \A f \in Flushers : stage'[f] = "open" => Frozen(activeID)'
    PROVE  Older' /\ KeepsOlder
  <1>1. a \in Nat /\ files \subseteq Nat /\ files' \subseteq Nat /\ files \subseteq Segs
    BY Constants DEF TypeOK
  <1>2. ASSUME NEW s \in files', s < a PROVE Frozen(s)'
    <2>1. s # a /\ s \in Segs
      BY <1>1, <1>2, SMTT(30)
    <2> QED BY <1>2, <2>1 DEF Frozen
  <1>3. ASSUME NEW s \in Nat, NEW t \in Nat, s < t, t <= a PROVE s < a /\ s # a
    BY <1>1, <1>3, SMTT(30)
  <1>4. \A s, t \in files' : s < t => Frozen(s)'
    BY <1>1, <1>2, <1>3
  <1>5. \A s, t \in files : s < t => disk'[s] = disk[s]
    BY <1>1, <1>3
  <1> QED BY <1>2, <1>4, <1>5 DEF Older, KeepsOlder

\* While f has the mutex, no other flusher is in a rotation or at its fsync.
LEMMA Alone ==
    ASSUME TypeOK, Mutex, NEW f \in Flushers, HoldsMutex(f),
           NEW st, stage' = [stage EXCEPT ![f] = st]
    PROVE  \A g \in Flushers : stage'[g] \in {"open", "sync"} => g = f /\ stage'[g] = st
  BY FileFacts DEF Mutex, HoldsMutex

\* The segment mutex is held and the active file is written.
LEMMA OlderWrite ==
    ASSUME TypeOK, TypeOK', Active, Older, Running, handle = "open",
           UNCHANGED <<files, activeID>>,
           \A s \in Segs \ {activeID} : disk'[s] = disk[s] /\ synced'[s] = synced[s],
           \A f \in Flushers : stage'[f] = "open" => Frozen(activeID)'
    PROVE  Older' /\ KeepsOlder
  <1>1. \A s \in files : s <= activeID
    BY DEF Active
  <1>2. \A s \in files : s < activeID => Frozen(s)
    BY DEF Older
  <1>3. activeID \in Segs /\ files' \subseteq Segs /\ activeID' \in Segs
    BY DEF TypeOK
  <1> QED BY <1>1, <1>2, <1>3, OlderMoves

\* Every step keeps this, and leaves older files alone.
LEMMA OlderStep ==
    IInv /\ Older /\ [Next]_vars => Older' /\ KeepsOlder
  <1> SUFFICES ASSUME IInv, Older, [Next]_vars PROVE Older' /\ KeepsOlder
    OBVIOUS
  <1> USE DEF fileVars
  <1>1. TypeOK /\ TypeOK' /\ Active /\ Mutex /\ Holding
    BY TypeStep DEF IInv, QInv, Durable
  <1>2. /\ stage \in [Flushers -> {"idle", "wait", "append", "open", "sync", "deliver"}]
        /\ disk \in [Segs -> SUBSET Item] /\ synced \in [Segs -> SUBSET Item]
        /\ activeID \in Segs /\ files \subseteq Segs /\ Segs \subseteq Nat
    BY <1>1, Constants, FileFacts DEF TypeOK
  <1>3. ASSUME NEW f \in Flushers, Lock(f) \/ Deliver(f) \/ FlushPanic(f)
        PROVE  Older' /\ KeepsOlder
    <2>1. UNCHANGED <<fileVars, activeID, proc>>
      BY <1>3 DEF Lock, Deliver, FlushPanic, activeVars
    <2>2. PICK st \in {"append", "idle", "deliver"} : stage' = [stage EXCEPT ![f] = st]
      BY <1>3 DEF Lock, Deliver, FlushPanic
    <2>3. \A g \in Flushers : stage'[g] = "open" => stage[g] = "open"
      BY <1>2, <2>2
    <2> QED BY <2>1, <2>3, OlderSame DEF Running
  <1>4. ASSUME NEW f \in Flushers, NEW w \in Writes, WriteToClosed(f, w)
        PROVE  Older' /\ KeepsOlder
    <2>1. UNCHANGED <<fileVars, activeID, proc>> /\ stage' = [stage EXCEPT ![f] = "append"]
      BY <1>4 DEF WriteToClosed, Fail, activeVars
    <2>2. \A g \in Flushers : stage'[g] = "open" => stage[g] = "open"
      BY <1>2, <2>1
    <2> QED BY <2>1, <2>2, OlderSame DEF Running
  <1>5. ASSUME NEW f \in Flushers, TakeBatch(f), UNCHANGED <<fileVars, activeID>>, Running' = Running
        PROVE  Older' /\ KeepsOlder
    <2>1. stage' = stage \/ stage' = [stage EXCEPT ![f] = "wait"]
      BY <1>5 DEF TakeBatch
    <2>2. \A g \in Flushers : stage'[g] = "open" => stage[g] = "open"
      BY <1>2, <2>1
    <2> QED BY <1>5, <2>2, OlderSame
  <1>6. ASSUME NEW f \in Flushers, SyncBatch(f) PROVE Older' /\ KeepsOlder
    <2>1. /\ HoldsMutex(f) /\ stage' = [stage EXCEPT ![f] = "deliver"]
          /\ UNCHANGED <<disk, files, activeID, proc, handle>>
          /\ \/ synced' = synced
             \/ handle = "open" /\ synced' = [synced EXCEPT ![activeID] = disk[activeID]]
      BY <1>6 DEF SyncBatch, HoldsMutex, activeVars
    <2>2. \A g \in Flushers : stage'[g] # "open"
      BY <1>1, <1>2, <2>1, Alone
    <2>3. CASE synced' = synced
      BY <2>1, <2>2, <2>3, OlderSame DEF Running
    <2>4. CASE handle = "open" /\ synced' = [synced EXCEPT ![activeID] = disk[activeID]]
      <3>1. Running
        BY <1>1, <2>4 DEF Active
      <3>2. \A s \in Segs \ {activeID} : disk'[s] = disk[s] /\ synced'[s] = synced[s]
        BY <1>2, <2>1, <2>4
      <3> QED BY <1>1, <2>1, <2>2, <2>4, <3>1, <3>2, OlderWrite
    <2> QED BY <2>1, <2>3, <2>4
  <1>7. ASSUME NEW f \in Flushers, NEW w \in Writes, DirectSync(f, w) PROVE Older' /\ KeepsOlder
    <2>1. /\ HoldsMutex(f) /\ stage[f] = "sync" /\ stage' = [stage EXCEPT ![f] = "append"]
          /\ UNCHANGED <<disk, files, activeID, handle>>
          /\ \/ synced' = synced
             \/ synced' = [synced EXCEPT ![activeID] = disk[activeID]]
      BY <1>7 DEF DirectSync, Fail, HoldsMutex
    <2>2. \A g \in Flushers : stage'[g] # "open"
      BY <1>1, <1>2, <2>1, Alone
    <2>3. handle = "open" /\ Running
      BY <1>1, <2>1 DEF Holding
    <2>4. \A s \in Segs \ {activeID} : disk'[s] = disk[s] /\ synced'[s] = synced[s]
      BY <1>2, <2>1
    <2> QED BY <1>1, <2>1, <2>2, <2>3, <2>4, OlderWrite
  <1>8. ASSUME NEW f \in Flushers, NEW w \in Writes, WriteRecord(f, w) PROVE Older' /\ KeepsOlder
    <2>1. /\ HoldsMutex(f) /\ handle = "open" /\ UNCHANGED <<files, activeID>>
          /\ synced' = SyncedBeforeWrite
          /\ \E file : disk' = [disk EXCEPT ![activeID] = file]
      BY <1>8 DEF WriteRecord, HoldsMutex
    <2>2. PICK st \in {"append", "sync"} : stage' = [stage EXCEPT ![f] = st]
      <3>1. stage[f] = "append"
        BY <1>8 DEF WriteRecord
      <3>2. stage' = stage \/ stage' = [stage EXCEPT ![f] = "sync"]
                           \/ stage' = [stage EXCEPT ![f] = "append"]
        BY <1>8 DEF WriteRecord, Fail
      <3>3. stage = [stage EXCEPT ![f] = "append"]
        BY <1>2, <3>1
      <3> QED BY <3>2, <3>3
    <2>3. \A g \in Flushers : stage'[g] # "open"
      BY <1>1, <1>2, <2>1, <2>2, Alone
    <2>4. Running
      BY <1>1, <2>1 DEF Active
    <2>5. \A s \in Segs \ {activeID} : disk'[s] = disk[s] /\ synced'[s] = synced[s]
      BY <1>2, <2>1 DEF SyncedBeforeWrite
    <2> QED BY <1>1, <2>1, <2>3, <2>4, <2>5, OlderWrite
  <1>9. ASSUME NEW f \in Flushers, NEW w \in Writes, Rotate(f, w) PROVE Older' /\ KeepsOlder
    <2>1. HoldsMutex(f) /\ handle = "open" /\ UNCHANGED <<files, activeID>>
      BY <1>9 DEF Rotate, HoldsMutex, activeVars
    <2>2. Running
      BY <1>1, <2>1 DEF Active
    <2>3. CASE FinalizeOK
      <3>1. /\ \E file : disk' = [disk EXCEPT ![activeID] = file]
            /\ synced' = [synced EXCEPT ![activeID] = disk'[activeID]]
        BY <2>3 DEF FinalizeOK
      <3>2. \A s \in Segs \ {activeID} : disk'[s] = disk[s] /\ synced'[s] = synced[s]
        BY <1>2, <3>1
      <3>3. Frozen(activeID)'
        <4>1. PICK file \in WrittenAt(disk[activeID], activeOffset, Foot(activeOffset)) :
                 disk' = [disk EXCEPT ![activeID] = file]
          BY <2>3 DEF FinalizeOK
        <4>2. Foot(activeOffset) \in file
          BY DEF WrittenAt
        <4>3. disk'[activeID] = file /\ synced'[activeID] = disk'[activeID]
          BY <1>2, <3>1, <4>1
        <4> QED BY <2>1, <4>2, <4>3 DEF Frozen
      <3> QED BY <1>1, <2>1, <2>2, <3>2, <3>3, OlderWrite
    <2>4. CASE FinalizeFails /\ Fail(f, w)
      <3>1. /\ \E file : disk' = [disk EXCEPT ![activeID] = file]
            /\ synced' = SyncedBeforeWrite /\ stage' = [stage EXCEPT ![f] = "append"]
        BY <2>4 DEF FinalizeFails, Fail
      <3>2. \A s \in Segs \ {activeID} : disk'[s] = disk[s] /\ synced'[s] = synced[s]
        BY <1>2, <3>1 DEF SyncedBeforeWrite
      <3>3. \A g \in Flushers : stage'[g] # "open"
        BY <1>1, <1>2, <2>1, <3>1, Alone
      <3> QED BY <1>1, <2>1, <2>2, <3>2, <3>3, OlderWrite
    <2> QED BY <1>9, <2>3, <2>4 DEF Rotate
  <1>10. ASSUME NEW f \in Flushers, NEW w \in Writes, OpenNext(f, w) PROVE Older' /\ KeepsOlder
    <2>1. /\ HoldsMutex(f) /\ stage[f] = "open" /\ activeID + 1 \in Segs
          /\ activeID' = activeID + 1 /\ UNCHANGED <<disk, synced>>
          /\ files' \subseteq files \cup {activeID + 1}
          /\ stage' = [stage EXCEPT ![f] = "append"]
      BY <1>10 DEF OpenNext, HoldsMutex, Fail
    <2>2. \A g \in Flushers : stage'[g] # "open"
      BY <1>1, <1>2, <2>1, Alone
    <2>3. Running /\ Frozen(activeID) /\ \A s \in files : s < activeID => Frozen(s)
      BY <1>1, <2>1 DEF Holding, Older
    <2>4. \A s \in files : s <= activeID
      BY <1>1, <2>3 DEF Active
    <2>5. PICK a \in Segs : a = activeID + 1
      BY <2>1
    <2>6. \A s \in files : s <= a /\ Frozen(s)
      BY <1>2, <2>3, <2>4, <2>5, SMTT(30)
    <2>7. \A s \in files' : s <= a /\ (s < a => s \in files /\ Frozen(s))
      BY <1>2, <2>1, <2>5, <2>6, SMTT(30)
    <2>8. files' \subseteq Segs /\ activeID' \in Segs
      BY <1>1 DEF TypeOK
    <2> QED BY <1>1, <2>1, <2>2, <2>5, <2>6, <2>7, <2>8, OlderMoves
  <1>11. ASSUME NEW f \in Flushers, Step(f) PROVE Older' /\ KeepsOlder
    BY <1>3, <1>4, <1>6, <1>7, <1>8, <1>9, <1>10, <1>11 DEF Step
  <1>12. ASSUME NEW w \in Writes, BufferAppend(w) \/ Cancel(w) PROVE Older' /\ KeepsOlder
    <2>1. UNCHANGED <<fileVars, activeID, proc, stage>>
      BY <1>12 DEF BufferAppend, Cancel, activeVars, bufferVars
    <2> QED BY <2>1, OlderSame DEF Running
  <1>13. ASSUME NEW w \in Writes, DirectAppend(w) PROVE Older' /\ KeepsOlder
    <2>1. UNCHANGED <<fileVars, activeID, proc>> /\ stage' = [stage EXCEPT ![w] = "wait"]
      BY <1>13 DEF DirectAppend, activeVars
    <2>2. \A g \in Flushers : stage'[g] = "open" => stage[g] = "open"
      BY <1>2, <2>1, Constants
    <2> QED BY <2>1, <2>2, OlderSame DEF Running
  <1>14. ASSUME NEW w \in Writes, ThresholdFlush(w) PROVE Older' /\ KeepsOlder
    BY <1>5, <1>14, Constants DEF ThresholdFlush, activeVars, Running
  <1>15. CASE TickFlush
    BY <1>5, <1>15, Constants DEF TickFlush, activeVars, Running
  <1>16. CASE CloseBegin
    <2>1. UNCHANGED <<fileVars, activeID, stage>> /\ Running' = Running
      BY <1>16 DEF CloseBegin, activeVars, bufferVars, Running
    <2> QED BY <2>1, OlderSame
  <1>17. CASE CloseFlush
    BY <1>5, <1>17, Constants DEF CloseFlush, activeVars, Running
  <1>18. CASE CloseFinish
    <2>1. ~Running' /\ files' = files /\ \A g \in Flushers : stage'[g] # "open"
      BY <1>18 DEF CloseFinish, ProcessEnds, Running
    <2>2. Running
      BY <1>18 DEF CloseFinish, Running
    <2>3. \A s \in files : s <= activeID
      BY <1>1, <2>2 DEF Active
    <2>4. \A s \in Segs \ {activeID} : disk'[s] = disk[s] /\ synced'[s] = synced[s]
      <3>1. CASE activeOffset = 0
        BY <1>18, <3>1 DEF CloseFinish
      <3>2. CASE FinalizeOK
        BY <1>2, <3>2 DEF FinalizeOK
      <3>3. CASE FinalizeFails
        BY <1>2, <3>3 DEF FinalizeFails, SyncedBeforeWrite
      <3> QED BY <1>18, <3>1, <3>2, <3>3 DEF CloseFinish
    <2>5. \A s, t \in files : s < t => Frozen(s) /\ s # activeID
      BY <1>2, <2>3, SMTT(30) DEF Older
    <2>6. \A s, t \in files : s < t => Frozen(s)' /\ disk'[s] = disk[s]
      BY <1>2, <2>4, <2>5 DEF Frozen
    <2> QED BY <2>1, <2>6 DEF Older, KeepsOlder
  <1>19. CASE Crash
    <2>1. ~Running' /\ synced' = synced /\ \A g \in Flushers : stage'[g] # "open"
      BY <1>19 DEF Crash, ProcessEnds, Running
    <2>2. PICK lost \in SUBSET Unsynced, gone \in SUBSET {s \in files : synced[s] = {}} :
             /\ files' = files \ gone
             /\ disk' = [s \in Segs |-> IF s \in gone THEN {} ELSE AfterCrash(s, lost)]
      BY <1>19 DEF Crash
    <2>3. ASSUME NEW s \in files, Frozen(s) PROVE disk'[s] = disk[s]
      <3>1. s \in Segs /\ s \notin gone
        BY <1>2, <2>3 DEF Frozen
      <3>2. \A it : <<s, it>> \notin Unsynced
        BY <2>3, SMTT(30) DEF Unsynced, Frozen
      <3>3. AfterCrash(s, lost) = disk[s]
        BY <3>2 DEF AfterCrash
      <3> QED BY <2>2, <3>1, <3>3
    <2>4. \A s, t \in files : s < t => disk'[s] = disk[s] /\ Frozen(s)
      BY <2>3 DEF Older
    <2>5. \A s, t \in files' : s < t => Frozen(s)'
      BY <2>1, <2>2, <2>4 DEF Frozen
    <2> QED BY <2>1, <2>4, <2>5 DEF Older, KeepsOlder
  <1>20. CASE Open
    <2>1. PICK a \in Segs :
             /\ IF files = {} THEN a = 0 ELSE Newest(a)
             /\ activeID' = a /\ files' = files \cup {a}
             /\ disk' = [disk EXCEPT ![a] = ValidTail(@)]
             /\ synced' = [synced EXCEPT ![a] = @ \cap disk'[a]]
      BY <1>20 DEF Open
    <2>2. ~Running /\ stage' = stage
      BY <1>20 DEF Open, Running, bufferVars
    <2>3. \A g \in Flushers : stage'[g] # "open"
      BY <1>1, <2>2 DEF Holding
    <2>4. \A s \in files : s <= a /\ (s < a => Frozen(s))
      BY <1>2, <2>1 DEF Newest, Older
    <2>5. \A s \in files' : s <= a /\ (s < a => s \in files /\ Frozen(s))
      BY <1>2, <2>1, <2>4, SMTT(30)
    <2>6. \A s \in Segs \ {a} : disk'[s] = disk[s] /\ synced'[s] = synced[s]
      BY <1>2, <2>1
    <2>7. files' \subseteq Segs /\ activeID' \in Segs
      BY <1>1 DEF TypeOK
    <2> QED BY <1>1, <2>1, <2>3, <2>4, <2>5, <2>6, <2>7, OlderMoves
  <1>21. CASE UNCHANGED vars
    <2>1. UNCHANGED <<fileVars, activeID, proc, stage>>
      BY <1>21 DEF vars, activeVars, bufferVars
    <2> QED BY <2>1, OlderSame DEF Running
  <1> QED
    BY <1>11, <1>12, <1>13, <1>14, <1>15, <1>16, <1>17, <1>18, <1>19, <1>20, <1>21 DEF Next

\* Nothing is frozen at first, and nothing has to be.
LEMMA InitOlder == Init => Older
  BY DEF Init, Older, Running

\* Older files never change: whatever the number of requests and segments, no
\* append, rotation, failure, crash or recovery touches a segment file that has
\* a newer one.
THEOREM Untouched == Spec => OlderSegmentsFrozen
  <1>1. Spec => [](IInv /\ Older)
    BY InitIInv, InitOlder, IInvStep, OlderStep, PTL DEF Spec
  <1>2. IInv /\ Older /\ [Next]_vars => [\A s, t \in files : s < t => disk'[s] = disk[s]]_vars
    BY OlderStep DEF KeepsOlder
  <1> QED BY <1>1, <1>2, PTL DEF Spec, OlderSegmentsFrozen

-----------------------------------------------------------------------------
(* The size of a segment file.                                             *)

\* Every file is within its limits, the write position is where a footer may go,
\* and a record that waits for its fsync has been found to fit.
Sized ==
    /\ \A s \in Segs : Placed(disk[s])
    /\ handle = "open" => Reach(disk[activeID], activeOffset)
    /\ Running /\ handle = "closed" => disk[activeID] = {}
    /\ \A f \in Flushers, w \in Writes :
           stage[f] = "sync" /\ Current(f, w) => ~NeedsRotation(w)

\* Nobody comes to the fsync of a direct append with this step.
SyncKept ==
    \A f \in Flushers : stage'[f] = "sync" =>
        stage[f] = "sync" /\ batch'[f] = batch[f] /\ next'[f] = next[f]

\* Steps that touch neither the contents nor the write position.
LEMMA SizedSame ==
    ASSUME Sized, SyncKept, UNCHANGED <<disk, activeID, activeOffset, handle>>, Running' = Running
    PROVE  Sized'
  <1>1. ASSUME NEW f \in Flushers, NEW w \in Writes, stage'[f] = "sync", Current(f, w)'
        PROVE  ~NeedsRotation(w)'
    <2>1. stage[f] = "sync" /\ Current(f, w)
      BY <1>1 DEF SyncKept, Current
    <2> QED BY <2>1 DEF Sized, NeedsRotation
  <1>2. (\A s \in Segs : Placed(disk[s]))'
    BY DEF Sized
  <1>3. (handle = "open" => Reach(disk[activeID], activeOffset))'
    BY DEF Sized
  <1>4. (Running /\ handle = "closed" => disk[activeID] = {})'
    BY DEF Sized
  <1> QED BY <1>1, <1>2, <1>3, <1>4 DEF Sized

\* Steps after which nobody is at the fsync of a direct append.
LEMMA SizedMoves ==
    ASSUME \A f \in Flushers : stage'[f] # "sync",
           \A s \in Segs : Placed(disk'[s]),
           handle' = "open" => Reach(disk'[activeID'], activeOffset'),
           Running' /\ handle' = "closed" => disk'[activeID'] = {}
    PROVE  Sized'
  BY DEF Sized

\* The footer of a rotation or of Close, written or not.
LEMMA FinalizePlaced ==
    ASSUME TypeOK, Files, Sized, handle = "open", activeOffset # 0, FinalizeOK \/ FinalizeFails
    PROVE  /\ \A s \in Segs : Placed(disk'[s])
           /\ Reach(disk'[activeID], activeOffset)
  <1> DEFINE file == disk[activeID]
             off == activeOffset
  <1>1. /\ file \in SUBSET Item /\ off \in Nat /\ off > 0 /\ activeID \in Segs
        /\ disk \in [Segs -> SUBSET Item]
    BY FileFacts, SMTT(30)
  <1>2. Shape(file, synced[activeID]) /\ Tidy(file, off) /\ Placed(file) /\ Reach(file, off)
    BY <1>1 DEF Files, Sized
  <1>3. /\ Foot(off) \in Item /\ Foot(off).off = off /\ Foot(off).kind = "foot"
        /\ Foot(off).size = FooterSize /\ Foot(off).size > 0
    BY <1>1, ItemTypes, Constants DEF Foot
  <1>4. PICK result \in FailedAt(file, off) \cup WrittenAt(file, off, Foot(off)) :
            disk' = [disk EXCEPT ![activeID] = result]
    BY DEF FinalizeOK, FinalizeFails
  <1>5. disk'[activeID] = result /\ \A s \in Segs \ {activeID} : disk'[s] = disk[s]
    BY <1>1, <1>4
  <1>6. Placed(result) /\ Reach(result, off)
    <2> HIDE DEF file, off
    <2>1. CASE result \in FailedAt(file, off)
      BY <1>1, <1>2, <2>1, FailedPlaced
    <2>2. CASE result \in WrittenAt(file, off, Foot(off))
      BY <1>1, <1>2, <1>3, <2>2, WrittenPlaced
    <2> QED BY <1>4, <2>1, <2>2
  <1> QED BY <1>1, <1>5, <1>6 DEF Sized

\* The record at the write position.
LEMMA WriteSized ==
    ASSUME IInv, Sized, NEW f \in Flushers, NEW w \in Writes, WriteRecord(f, w)
    PROVE  Sized'
  <1> DEFINE file == disk[activeID]
             off == activeOffset
  <1>1. /\ file \in SUBSET Item /\ off \in Nat /\ activeID \in Segs /\ TypeOK
        /\ disk \in [Segs -> SUBSET Item] /\ batch \in [Flushers -> Seq(Writes)]
        /\ next \in [Flushers -> Nat \ {0}]
        /\ stage \in [Flushers -> {"idle", "wait", "append", "open", "sync", "deliver"}]
    BY FileFacts DEF IInv, TypeOK, QueueTypes
  <1>2. /\ stage[f] = "append" /\ Current(f, w) /\ handle = "open" /\ ~NeedsRotation(w)
        /\ UNCHANGED <<batch, activeID, handle>>
    BY DEF WriteRecord, queueVars
  <1>3. Shape(file, synced[activeID]) /\ Tidy(file, off) /\ Placed(file) /\ Reach(file, off)
    BY <1>1, <1>2 DEF IInv, Durable, Files, Sized
  <1>4. HoldsMutex(f) /\ Mutex
    BY <1>2 DEF HoldsMutex, IInv, QInv
  <1>5. RecordSize[w] \in Nat /\ RecordSize[w] > 0 /\ FooterSize \in Nat /\ MaxSegmentSize \in Nat
    BY Constants, SegmentsAssumption
  <1>6. off = 0 \/ off + RecordSize[w] + FooterSize <= MaxSegmentSize
    BY <1>1, <1>2, <1>5, SMTT(30) DEF NeedsRotation
  <1>7. /\ Rec(w, off) \in Item /\ Rec(w, off).off = off /\ Rec(w, off).kind = "rec"
        /\ Rec(w, off).size = RecordSize[w]
    BY <1>1, RecFields, SMTT(30)
  <1>8. ASSUME NEW result, disk' = [disk EXCEPT ![activeID] = result]
        PROVE  disk'[activeID] = result /\ \A s \in Segs \ {activeID} : disk'[s] = disk[s]
    BY <1>1, <1>8
  <1>9. ASSUME NEW result \in WrittenAt(file, off, Rec(w, off)),
               disk' = [disk EXCEPT ![activeID] = result]
        PROVE  /\ \A s \in Segs : Placed(disk'[s])
               /\ Reach(disk'[activeID], off) /\ Reach(disk'[activeID], off + RecordSize[w])
    <2> HIDE DEF file, off
    <2>1. Placed(result) /\ Reach(result, off) /\ Reach(result, off + RecordSize[w])
      BY <1>1, <1>3, <1>5, <1>6, <1>7, <1>9, WrittenPlaced
    <2> QED BY <1>1, <1>8, <1>9, <2>1 DEF Sized
  <1>10. CASE /\ \E result \in FailedAt(file, off) : disk' = [disk EXCEPT ![activeID] = result]
              /\ Fail(f, w) /\ activeOffset' = activeOffset
    <2>1. PICK result \in FailedAt(file, off) : disk' = [disk EXCEPT ![activeID] = result]
      BY <1>10
    <2>2. Placed(result) /\ Reach(result, off)
      <3> HIDE DEF file, off
      <3> QED BY <1>1, <1>3, <2>1, FailedPlaced
    <2>3. (\A s \in Segs : Placed(disk'[s])) /\ Reach(disk'[activeID], off)
      BY <1>1, <1>8, <2>1, <2>2 DEF Sized
    <2>4. stage' = [stage EXCEPT ![f] = "append"]
      BY <1>10 DEF Fail
    <2>5. \A g \in Flushers : stage'[g] # "sync"
      BY <1>1, <1>4, <2>4, Alone
    <2> QED BY <1>2, <1>10, <2>3, <2>5, SizedMoves
  <1>11. CASE /\ \E result \in WrittenAt(file, off, Rec(w, off)) :
                    disk' = [disk EXCEPT ![activeID] = result]
              /\ buffered /\ activeOffset' = activeOffset + RecordSize[w] /\ stage' = stage
    <2>1. \A s \in Segs : Placed(disk'[s])
      BY <1>9, <1>11
    <2>2. Reach(disk'[activeID'], activeOffset')
      BY <1>2, <1>9, <1>11
    <2>3. stage' = [stage EXCEPT ![f] = "append"]
      BY <1>1, <1>2, <1>11
    <2>4. \A g \in Flushers : stage'[g] # "sync"
      BY <1>1, <1>4, <2>3, Alone
    <2> QED BY <1>2, <2>1, <2>2, <2>4, SizedMoves
  <1>12. CASE /\ \E result \in WrittenAt(file, off, Rec(w, off)) :
                    disk' = [disk EXCEPT ![activeID] = result]
              /\ ~buffered /\ stage' = [stage EXCEPT ![f] = "sync"]
              /\ UNCHANGED <<activeOffset, next>>
    <2>1. \A s \in Segs : Placed(disk'[s])
      BY <1>9, <1>12
    <2>2. Reach(disk'[activeID'], activeOffset')
      BY <1>2, <1>9, <1>12
    <2>3. ASSUME NEW g \in Flushers, NEW v \in Writes, stage'[g] = "sync", Current(g, v)'
          PROVE  ~NeedsRotation(v)'
      <3>1. g = f
        BY <1>1, <1>4, <1>12, <2>3, Alone
      <3>2. v = w
        BY <1>2, <1>12, <2>3, <3>1 DEF Current
      <3> QED BY <1>2, <1>12, <3>2 DEF NeedsRotation
    <2>4. handle' # "closed"
      BY <1>2
    <2> QED BY <2>1, <2>2, <2>3, <2>4 DEF Sized
  <1> QED BY <1>10, <1>11, <1>12 DEF WriteRecord

\* Every step keeps the files within their limits.
LEMMA SizedStep == IInv /\ Sized /\ [Next]_vars => Sized'
  <1> SUFFICES ASSUME IInv, Sized, [Next]_vars PROVE Sized'
    OBVIOUS
  <1> USE DEF activeVars
  <1>1. TypeOK /\ Active /\ Files /\ DirectWritten /\ Mutex /\ Holding
    BY DEF IInv, QInv, Durable
  <1>2. /\ stage \in [Flushers -> {"idle", "wait", "append", "open", "sync", "deliver"}]
        /\ batch \in [Flushers -> Seq(Writes)] /\ next \in [Flushers -> Nat \ {0}]
        /\ disk \in [Segs -> SUBSET Item] /\ activeOffset \in Nat
        /\ activeID \in Segs /\ files \subseteq Segs /\ Segs \subseteq Nat
    BY <1>1, Constants, FileFacts DEF TypeOK, QueueTypes
  <1>3. ASSUME NEW f \in Flushers, Lock(f) \/ Deliver(f) \/ FlushPanic(f) PROVE Sized'
    <2>1. UNCHANGED <<disk, activeID, activeOffset, handle, proc>>
      BY <1>3 DEF Lock, Deliver, FlushPanic, fileVars
    <2>2. PICK st \in {"append", "idle", "deliver"} : stage' = [stage EXCEPT ![f] = st]
      BY <1>3 DEF Lock, Deliver, FlushPanic
    <2>3. \A g \in Flushers \ {f} : batch'[g] = batch[g] /\ next'[g] = next[g]
      BY <1>2, <1>3 DEF Lock, Deliver, FlushPanic, queueVars
    <2>4. SyncKept
      BY <1>2, <2>2, <2>3 DEF SyncKept
    <2> QED BY <2>1, <2>4, SizedSame DEF Running
  <1>4. ASSUME NEW f \in Flushers, NEW w \in Writes, WriteToClosed(f, w) PROVE Sized'
    <2>1. /\ UNCHANGED <<disk, activeID, activeOffset, handle, proc, batch>>
          /\ stage' = [stage EXCEPT ![f] = "append"] /\ next' = [next EXCEPT ![f] = @ + 1]
      BY <1>4 DEF WriteToClosed, Fail, queueVars, fileVars
    <2>2. SyncKept
      BY <1>2, <2>1 DEF SyncKept
    <2> QED BY <2>1, <2>2, SizedSame DEF Running
  <1>5. ASSUME NEW f \in Flushers, TakeBatch(f), UNCHANGED <<next, fileVars, activeVars>>,
               Running' = Running
        PROVE  Sized'
    <2>1. \/ UNCHANGED <<batch, stage>>
          \/ batch' = [batch EXCEPT ![f] = pending] /\ stage' = [stage EXCEPT ![f] = "wait"]
      BY <1>5 DEF TakeBatch
    <2>2. SyncKept
      BY <1>2, <1>5, <2>1 DEF SyncKept
    <2> QED BY <1>5, <2>2, SizedSame DEF fileVars
  <1>6. ASSUME NEW f \in Flushers, SyncBatch(f) PROVE Sized'
    <2>1. /\ UNCHANGED <<disk, activeID, activeOffset, handle, proc, batch, next>>
          /\ stage' = [stage EXCEPT ![f] = "deliver"]
      BY <1>6 DEF SyncBatch, queueVars
    <2>2. SyncKept
      BY <1>2, <2>1 DEF SyncKept
    <2> QED BY <2>1, <2>2, SizedSame DEF Running
  <1>7. ASSUME NEW f \in Flushers, NEW w \in Writes, DirectSync(f, w) PROVE Sized'
    <2>1. /\ HoldsMutex(f) /\ stage[f] = "sync" /\ stage' = [stage EXCEPT ![f] = "append"]
          /\ UNCHANGED <<disk, activeID, handle>> /\ Current(f, w)
          /\ activeOffset' = activeOffset \/ activeOffset' = activeOffset + RecordSize[w]
      BY <1>7 DEF DirectSync, Fail, HoldsMutex
    <2>2. \A g \in Flushers : stage'[g] # "sync"
      <3>1. \A g \in Flushers : stage'[g] \in {"open", "sync"} => g = f /\ stage'[g] = "append"
        BY <1>1, <2>1, Alone
      <3> QED BY <3>1
    <2>3. handle = "open"
      BY <1>1, <2>1 DEF Holding
    <2>4. ~NeedsRotation(w) /\ Rec(w, activeOffset) \in disk[activeID]
      BY <1>1, <2>1 DEF Sized, DirectWritten
    <2>5. RecordSize[w] \in Nat /\ FooterSize \in Nat /\ MaxSegmentSize \in Nat
      BY Constants, SegmentsAssumption
    <2>6. Reach(disk[activeID], activeOffset + RecordSize[w])
      <3>1. Rec(w, activeOffset).off = activeOffset /\ Rec(w, activeOffset).size = RecordSize[w]
        BY <1>2, RecFields
      <3>2. CASE activeOffset = 0
        <4>1. PICK r \in disk[activeID] : r.off = activeOffset /\ r.size = RecordSize[w]
          BY <2>4, <3>1
        <4>2. r.off = 0 /\ activeOffset + RecordSize[w] <= r.size
          BY <2>5, <3>2, <4>1, SMTT(30)
        <4>3. FirstFooter(disk[activeID], activeOffset + RecordSize[w])
          BY <4>2 DEF FirstFooter
        <4> QED BY <4>3 DEF Reach
      <3>3. CASE activeOffset # 0
        <4>1. activeOffset + RecordSize[w] + FooterSize <= MaxSegmentSize
          BY <1>2, <2>4, <2>5, <3>3, SMTT(30) DEF NeedsRotation
        <4> QED BY <4>1 DEF Reach, FirstFooter
      <3> QED BY <3>2, <3>3
    <2>7. Reach(disk[activeID], activeOffset)
      BY <2>3 DEF Sized
    <2>8. Reach(disk'[activeID'], activeOffset')
      BY <2>1, <2>6, <2>7
    <2>9. \A s \in Segs : Placed(disk'[s])
      BY <2>1 DEF Sized
    <2> QED BY <2>1, <2>2, <2>3, <2>8, <2>9, SizedMoves
  <1>8. ASSUME NEW f \in Flushers, NEW w \in Writes, Rotate(f, w) PROVE Sized'
    <2>1. /\ stage[f] = "append" /\ HoldsMutex(f) /\ handle = "open" /\ NeedsRotation(w)
          /\ FinalizeOK \/ FinalizeFails
          /\ UNCHANGED <<activeID, activeOffset, handle>>
      BY <1>8 DEF Rotate, HoldsMutex
    <2>2. PICK st \in {"append", "open"} : stage' = [stage EXCEPT ![f] = st]
      BY <1>8 DEF Rotate, Fail
    <2>3. \A g \in Flushers : stage'[g] # "sync"
      BY <1>1, <2>1, <2>2, Alone
    <2>4. activeOffset # 0
      BY <1>2, <2>1, SMTT(30) DEF NeedsRotation
    <2>5. (\A s \in Segs : Placed(disk'[s])) /\ Reach(disk'[activeID], activeOffset)
      BY <1>1, <2>1, <2>4, FinalizePlaced
    <2> QED BY <2>1, <2>3, <2>5, SizedMoves
  <1>9. ASSUME NEW f \in Flushers, NEW w \in Writes, OpenNext(f, w) PROVE Sized'
    <2>1. /\ HoldsMutex(f) /\ stage[f] = "open" /\ activeID + 1 \in Segs /\ disk' = disk
          /\ activeID' = activeID + 1 /\ activeOffset' = 0
          /\ stage' = [stage EXCEPT ![f] = "append"]
      BY <1>9 DEF OpenNext, HoldsMutex, Fail
    <2>2. \A g \in Flushers : stage'[g] # "sync"
      BY <1>1, <2>1, Alone
    <2>3. Running
      BY <1>1, <2>1 DEF Holding
    <2>4. \A s \in files : s <= activeID
      BY <1>1, <2>3 DEF Active
    <2>5. activeID + 1 \notin files
      BY <1>2, <2>4, SMTT(30)
    <2>6. disk[activeID + 1] = {}
      BY <1>1, <2>1, <2>5 DEF Active
    <2>7. Reach(disk'[activeID'], activeOffset')
      BY <2>1 DEF Reach
    <2>8. \A s \in Segs : Placed(disk'[s])
      BY <2>1 DEF Sized
    <2> QED BY <2>1, <2>2, <2>6, <2>7, <2>8, SizedMoves
  <1>10. ASSUME NEW f \in Flushers, Step(f) PROVE Sized'
    BY <1>3, <1>4, <1>6, <1>7, <1>8, <1>9, <1>10, WriteSized DEF Step
  <1>11. ASSUME NEW w \in Writes, BufferAppend(w) \/ Cancel(w) PROVE Sized'
    <2>1. UNCHANGED <<disk, activeID, activeOffset, handle, proc, stage, batch, next>>
      BY <1>11 DEF BufferAppend, Cancel, fileVars, bufferVars, queueVars
    <2>2. SyncKept
      BY <2>1 DEF SyncKept
    <2> QED BY <2>1, <2>2, SizedSame DEF Running
  <1>12. ASSUME NEW w \in Writes, DirectAppend(w) PROVE Sized'
    <2>1. /\ UNCHANGED <<disk, activeID, activeOffset, handle, proc, next>>
          /\ stage' = [stage EXCEPT ![w] = "wait"] /\ batch' = [batch EXCEPT ![w] = <<w>>]
      BY <1>12 DEF DirectAppend, fileVars
    <2>2. SyncKept
      BY <1>2, <2>1, Constants DEF SyncKept
    <2> QED BY <2>1, <2>2, SizedSame DEF Running
  <1>13. ASSUME NEW w \in Writes, ThresholdFlush(w) PROVE Sized'
    BY <1>5, <1>13, Constants DEF ThresholdFlush, Running
  <1>14. CASE TickFlush
    BY <1>5, <1>14, Constants DEF TickFlush, Running
  <1>15. CASE CloseBegin
    <2>1. /\ UNCHANGED <<disk, activeID, activeOffset, handle, stage, batch, next>>
          /\ Running' = Running
      BY <1>15 DEF CloseBegin, fileVars, bufferVars, queueVars, Running
    <2>2. SyncKept
      BY <2>1 DEF SyncKept
    <2> QED BY <2>1, <2>2, SizedSame
  <1>16. CASE CloseFlush
    BY <1>5, <1>16, Constants DEF CloseFlush, Running
  <1>17. CASE CloseFinish
    <2>1. ~Running' /\ handle' = "closed" /\ \A g \in Flushers : stage'[g] # "sync"
      BY <1>17 DEF CloseFinish, ProcessEnds, Running
    <2>2. CASE activeOffset = 0
      <3>1. disk' = disk
        BY <1>17, <2>2 DEF CloseFinish
      <3>2. \A s \in Segs : Placed(disk'[s])
        BY <3>1 DEF Sized
      <3> QED BY <2>1, <3>2, SizedMoves
    <2>3. CASE activeOffset # 0
      <3>1. FinalizeOK \/ FinalizeFails
        BY <1>17, <2>3 DEF CloseFinish
      <3>2. handle = "open"
        BY <1>1, <2>3 DEF Active, TypeOK
      <3>3. \A s \in Segs : Placed(disk'[s])
        BY <1>1, <2>3, <3>1, <3>2, FinalizePlaced
      <3> QED BY <2>1, <3>3, SizedMoves
    <2> QED BY <2>2, <2>3
  <1>18. CASE Crash
    <2>1. ~Running' /\ handle' = "closed" /\ \A g \in Flushers : stage'[g] # "sync"
      BY <1>18 DEF Crash, ProcessEnds, Running
    <2>2. PICK lost \in SUBSET Unsynced, gone \in SUBSET {s \in files : synced[s] = {}} :
             disk' = [s \in Segs |-> IF s \in gone THEN {} ELSE AfterCrash(s, lost)]
      BY <1>18 DEF Crash
    <2>3. ASSUME NEW s \in Segs PROVE Placed(disk'[s])
      <3>1. CASE s \in gone
        <4>1. disk'[s] = {}
          BY <2>2, <3>1
        <4> QED BY <4>1 DEF Placed
      <3>2. CASE s \notin gone
        <4> DEFINE away == {it \in disk[s] : <<s, it>> \in lost}
        <4>1. disk'[s] = (disk[s] \ away) \cup {Torn(it.off) : it \in away}
          BY <2>2, <3>2 DEF AfterCrash
        <4>2. away \in SUBSET disk[s] /\ disk[s] \in SUBSET Item /\ Placed(disk[s])
          BY <1>2 DEF Sized
        <4> HIDE DEF away
        <4> QED BY <4>1, <4>2, CrashPlaced
      <3> QED BY <3>1, <3>2
    <2> QED BY <2>1, <2>3, SizedMoves
  <1>19. CASE Open
    <2>1. PICK a \in Segs :
             /\ activeID' = a /\ disk' = [disk EXCEPT ![a] = ValidTail(@)]
             /\ \E e \in Ends(disk'[a]) : activeOffset' = e
      BY <1>19 DEF Open
    <2>2. ~Running /\ stage' = stage /\ handle' = "open"
      BY <1>19 DEF Open, Running, bufferVars
    <2>3. \A g \in Flushers : stage'[g] # "sync"
      BY <1>1, <2>2 DEF Holding
    <2>4. disk'[a] = ValidTail(disk[a]) /\ \A s \in Segs \ {a} : disk'[s] = disk[s]
      BY <1>2, <2>1
    <2>5. Placed(ValidTail(disk[a])) /\ Reach(ValidTail(disk[a]), activeOffset')
      BY <1>2, <2>1, <2>4, CutPlaced DEF Sized
    <2>6. \A s \in Segs : Placed(disk'[s])
      BY <2>4, <2>5 DEF Sized
    <2>7. Reach(disk'[activeID'], activeOffset')
      BY <2>1, <2>4, <2>5
    <2> QED BY <2>2, <2>3, <2>6, <2>7, SizedMoves
  <1>20. CASE UNCHANGED vars
    <2>1. UNCHANGED <<disk, activeID, activeOffset, handle, proc, stage, batch, next>>
      BY <1>20 DEF vars, fileVars, bufferVars, queueVars
    <2>2. SyncKept
      BY <2>1 DEF SyncKept
    <2> QED BY <2>1, <2>2, SizedSame DEF Running
  <1> QED
    BY <1>10, <1>11, <1>12, <1>13, <1>14, <1>15, <1>16, <1>17, <1>18, <1>19, <1>20 DEF Next

\* The files are empty at first.
LEMMA InitSized == Init => Sized
  BY DEF Init, Sized, Placed, Running

\* No segment file grows without limit: behind MaxSegmentSize there is room for
\* one footer, and behind a record that is longer than a segment for two,
\* whatever is appended, fails, crashes, is closed and opened again.
THEOREM Bounded == Spec => []FilesBounded
  <1>1. Spec => [](IInv /\ Older /\ Sized)
    BY InitIInv, InitOlder, InitSized, IInvStep, OlderStep, SizedStep, PTL DEF Spec
  <1>2. IInv /\ Older /\ Sized => FilesBounded
    <2> SUFFICES ASSUME IInv, Older, Sized, Running, NEW s \in Segs, NEW it \in disk[s],
                        it.kind # "torn"
                 PROVE  \/ it.off + it.size <= MaxSegmentSize + FooterSize
                        \/ \E r \in disk[s] :
                              r.off = 0 /\ it.off + it.size <= r.size + 2 * FooterSize
      BY DEF FilesBounded
    <2>1. /\ disk[s] \in SUBSET Item /\ activeID \in Segs /\ Segs \subseteq Nat
          /\ handle \in {"open", "closed"}
          /\ FooterSize \in Nat /\ MaxSegmentSize \in Nat
      BY FileFacts, Constants, SegmentsAssumption DEF IInv, TypeOK
    <2>2. \A a \in disk[s] : a.off \in Nat /\ a.size \in Nat
      BY <2>1, ItemFields
    <2>3. it.kind \in {"rec", "foot"}
      BY <2>1 DEF Item
    <2>4. \A r \in disk[s] : r.off = 0 => r.kind # "torn"
      <3>1. s \in files /\ s <= activeID
        BY DEF IInv, Durable, Active
      <3>2. CASE s < activeID
        <4>1. synced[s] = disk[s]
          BY <3>1, <3>2 DEF Older, Frozen
        <4>2. \A b \in disk[s] : b.kind = "torn" => it.off < b.off
          BY <4>1 DEF IInv, Durable, Files, Shape
        <4> QED BY <2>2, <4>2, SMTT(30)
      <3>3. CASE s = activeID
        <4>1. handle = "open"
          BY <2>1, <3>3 DEF Sized
        <4>2. Tidy(disk[s], activeOffset)
          BY <3>3, <4>1 DEF IInv, Durable, Files
        <4>3. \A b \in disk[s] : b.kind = "torn" => it.off < b.off
          BY <4>2 DEF Tidy
        <4> QED BY <2>2, <4>3, SMTT(30)
      <3> QED BY <2>1, <3>1, <3>2, <3>3, SMTT(30)
    <2>5. Placed(disk[s])
      BY DEF Sized
    <2>6. CASE it.kind = "rec"
      <3>1. it.off = 0 \/ it.off + it.size + FooterSize <= MaxSegmentSize
        BY <2>5, <2>6 DEF Placed
      <3>2. it.off \in Nat /\ it.size \in Nat
        BY <2>2
      <3>3. it.off + it.size + FooterSize <= MaxSegmentSize
            => it.off + it.size <= MaxSegmentSize + FooterSize
        BY <2>1, <3>2, SMTT(30)
      <3>4. it.off = 0 => it.off + it.size <= it.size + 2 * FooterSize
        BY <2>1, <3>2, SMTT(30)
      <3> QED BY <3>1, <3>3, <3>4
    <2>7. CASE it.kind = "foot"
      <3>1. it.size = FooterSize /\ (FirstFooter(disk[s], it.off) \/ LaterFooter(disk[s], it.off))
        BY <2>5, <2>7 DEF Placed
      <3>2. \/ it.off <= MaxSegmentSize
            \/ \E r \in disk[s] : r.off = 0 /\ it.off <= r.size + FooterSize
        BY <2>1, <2>2, <2>4, <3>1, SMTT(30) DEF FirstFooter, LaterFooter
      <3>3. CASE it.off <= MaxSegmentSize
        BY <2>1, <2>2, <3>1, <3>3, SMTT(30)
      <3>4. ASSUME NEW r \in disk[s], r.off = 0, it.off <= r.size + FooterSize
            PROVE  it.off + it.size <= r.size + 2 * FooterSize
        BY <2>1, <2>2, <3>1, <3>4, SMTT(30)
      <3> QED BY <3>2, <3>3, <3>4
    <2> QED BY <2>3, <2>6, <2>7
  <1> QED BY <1>1, <1>2, PTL
=============================================================================
