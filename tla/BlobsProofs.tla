---------------------------- MODULE BlobsProofs -----------------------------
(***************************************************************************)
(* The invariants of Blobs for any number of transactions and contents and *)
(* every ZIP.                                                              *)
(***************************************************************************)
EXTENDS Blobs, TLAPS

\* A leaf that names no prover is left to Zenon; the others, most of them about
\* numbers, sequences or EXCEPT, name the SMT solver.
USE ZenonT(30)

-----------------------------------------------------------------------------
(* The inductive invariant.                                                *)

\* t has counted its item and not written the package_files row.
Counted(t) == pc[t] \in {"segIndex", "put", "file"}

\* What t has added to ref_count it owes to a row it wrote, to the item it is
\* at, or to a member that was spoiled.
Balanced(t) ==
    \A c \in Contents :
        incs[t][c] = refs[t][c] + (IF Counted(t) /\ Item(t) = c THEN 1 ELSE 0)
                                + (IF spoiled[t] = c THEN 1 ELSE 0)

\* A member is spoiled once at most: t goes on with the error message.
Late(t) == spoiled[t] # None => pos[t] > Len(Members[t])

\* t refers to rows that it sees, and increments one that it has seen.
Sees(t) ==
    /\ \A c \in Contents : refs[t][c] # 0 => Visible(t, c)
    /\ Counted(t) \/ pc[t] = "inc" => Visible(t, Item(t))

\* A row that t has inserted is locked, has its record, and has its index entry
\* or is about to get it.
Owns(t) ==
    \A c \in Contents : ins[t][c] # 0 =>
        /\ lock[c] = t /\ blobLoc[c] = 0
        /\ ins[t][c] <= Len(log) /\ log[ins[t][c]] = c
        /\ \/ <<c, ins[t][c]>> \in idx
           \/ spoiled[t] = c
           \/ pc[t] = "segIndex" /\ Item(t) = c

\* The record that t has appended.
Points(t) ==
    /\ pc[t] \in {"insert", "segIndex"} =>
           newLoc[t] # 0 /\ newLoc[t] <= Len(log) /\ log[newLoc[t]] = Item(t)
    /\ pc[t] = "segIndex" => ins[t][Item(t)] = newLoc[t]

TxInv(t) == Balanced(t) /\ Late(t) /\ Sees(t) /\ Owns(t) /\ Points(t)

Tables == RefCountAccounted /\ BlobsRecoverable

IInv == TypeOK /\ Tables /\ \A t \in Txs : TxInv(t)

-----------------------------------------------------------------------------
(* The frame: what a step of t leaves to the other transactions.           *)

Grows ==
    /\ Len(log) <= Len(log') /\ \A i \in 1 .. Len(log) : log'[i] = log[i]
    /\ idx \subseteq idx'

Same(u) ==
    /\ pc'[u] = pc[u] /\ pos'[u] = pos[u] /\ newLoc'[u] = newLoc[u]
    /\ incs'[u] = incs[u] /\ ins'[u] = ins[u] /\ refs'[u] = refs[u]
    /\ spoiled'[u] = spoiled[u]

Frame(t) ==
    /\ Grows
    /\ \A u \in Txs : u # t => Same(u)
    /\ \A c \in Contents : lock[c] \notin {None, t} => lock'[c] = lock[c]
    /\ \A c \in Contents : blobLoc'[c] # blobLoc[c] => lock[c] = t /\ blobLoc[c] = 0

\* Positions, lengths and locations are numbers.
LEMMA Sizes ==
    ASSUME TypeOK, NEW t \in Txs
    PROVE  /\ Len(log) \in Nat /\ Len(Members[t]) \in Nat
           /\ pos[t] \in Nat /\ newLoc[t] \in Nat
<1>1. log \in Seq(Contents) /\ pos[t] \in Nat /\ newLoc[t] \in Nat
  BY DEF TypeOK
<1>2. Members[t] \in Seq(Contents)
  BY BlobsAssumption
<1>3. Len(log) \in Nat
  BY <1>1, SMTT(30)
<1>4. Len(Members[t]) \in Nat
  BY <1>2, SMTT(30)
<1> QED
  BY <1>1, <1>3, <1>4

\* So is what a transaction has added, inserted and written.
LEMMA Cells ==
    ASSUME TypeOK, NEW t \in Txs, NEW c \in Contents
    PROVE  incs[t][c] \in Nat /\ ins[t][c] \in Nat /\ refs[t][c] \in Nat
<1>1. /\ incs[t] \in [Contents -> Nat] /\ ins[t] \in [Contents -> Nat]
      /\ refs[t] \in [Contents -> Nat]
  BY DEF TypeOK
<1> QED
  BY <1>1

\* Balanced, content by content.
LEMMA Balance ==
    ASSUME TypeOK, NEW t \in Txs, NEW c \in Contents, Balanced(t)
    PROVE  /\ ~Counted(t) \/ Item(t) # c =>
                  incs[t][c] = refs[t][c] + (IF spoiled[t] = c THEN 1 ELSE 0)
           /\ Counted(t) /\ Item(t) = c =>
                  incs[t][c] = refs[t][c] + 1 + (IF spoiled[t] = c THEN 1 ELSE 0)
<1> PICK n \in Nat, k \in Nat : n = incs[t][c] /\ k = refs[t][c]
  BY Cells
<1>1. n = k + (IF Counted(t) /\ Item(t) = c THEN 1 ELSE 0) + (IF spoiled[t] = c THEN 1 ELSE 0)
  BY DEF Balanced
<1> QED
  BY <1>1, SMTT(30)

\* A step that writes no record.
LEMMA GrowsNot ==
    ASSUME TypeOK, log' = log, idx \subseteq idx'
    PROVE  Grows
<1> PICK n \in Nat : n = Len(log)
  <2>1. log \in Seq(Contents)
    BY DEF TypeOK
  <2> QED
    BY <2>1, SMTT(30)
<1>1. Len(log) = n /\ Len(log') = n /\ n <= n
  BY SMTT(30)
<1> QED
  BY <1>1 DEF Grows

\* segments.Append adds a record behind the others.
LEMMA Appended ==
    ASSUME NEW s \in Seq(Contents), NEW i \in Contents
    PROVE  /\ Len(s) \in Nat /\ Len(Append(s, i)) = Len(s) + 1
           /\ Len(s) <= Len(Append(s, i))
           /\ Append(s, i)[Len(s) + 1] = i
           /\ \A k \in 1 .. Len(s) : Append(s, i)[k] = s[k]
  BY SMTT(30)

\* The content that StoreOrRef is called with is one of the contents.
LEMMA ItemType ==
    ASSUME TypeOK, NEW t \in Txs
    PROVE  Item(t) \in Contents
<1>1. Original[t] \in Contents /\ Members[t] \in Seq(Contents) /\ ErrText \in Contents
  BY BlobsAssumption
<1>2. pos[t] \in Nat
  BY DEF TypeOK
<1>3. pos[t] # 0 /\ pos[t] <= Len(Members[t]) => Members[t][pos[t]] \in Contents
  BY <1>1, <1>2, SMTT(30)
<1> QED
  BY <1>1, <1>3 DEF Item

\* It is the same as long as the request is at the same position.
LEMMA ItemKept ==
    ASSUME NEW t \in Txs, pos'[t] = pos[t]
    PROVE  Item(t)' = Item(t)
  BY DEF Item

\* The transactions that did not take the step keep their invariant.
LEMMA OthersKeep ==
    ASSUME TypeOK, TypeOK', NEW t \in Txs, NEW u \in Txs, u # t, TxInv(u), Frame(t)
    PROVE  TxInv(u)'
<1> PICK i : i = Item(u)
  OBVIOUS
<1>0. Same(u)
  BY DEF Frame
<1>1. Item(u) = i /\ Item(u)' = i
  BY <1>0, ItemKept DEF Same
<1>2. i \in Contents
  BY <1>1, ItemType
<1>3. Counted(u)' = Counted(u)
  BY <1>0 DEF Same, Counted
<1>4. \A c \in Contents : Visible(u, c) => Visible(u, c)'
  <2> SUFFICES ASSUME NEW c \in Contents, Visible(u, c)
               PROVE  Visible(u, c)'
    OBVIOUS
  <2>1. ins'[u][c] = ins[u][c]
    BY <1>0 DEF Same
  <2>2. blobLoc[c] # 0 => blobLoc'[c] # 0
    BY DEF Frame
  <2> QED
    BY <2>1, <2>2 DEF Visible
<1>5. Balanced(u)'
  BY <1>0, <1>1, <1>3, SMTT(30) DEF TxInv, Balanced, Same
<1>6. Late(u)'
  BY <1>0 DEF TxInv, Late, Same
<1>7. Sees(u)'
  BY <1>0, <1>1, <1>2, <1>3, <1>4 DEF TxInv, Sees, Same
<1>8. Owns(u)'
  <2> SUFFICES ASSUME NEW c \in Contents, ins'[u][c] # 0
               PROVE  /\ lock'[c] = u /\ blobLoc'[c] = 0
                      /\ ins'[u][c] <= Len(log') /\ log'[ins'[u][c]] = c
                      /\ \/ <<c, ins'[u][c]>> \in idx'
                         \/ spoiled'[u] = c
                         \/ pc'[u] = "segIndex" /\ Item(u)' = c
    BY DEF Owns
  <2>1. ins'[u][c] = ins[u][c]
    BY <1>0 DEF Same
  <2>2. /\ lock[c] = u /\ blobLoc[c] = 0
        /\ ins[u][c] <= Len(log) /\ log[ins[u][c]] = c
        /\ <<c, ins[u][c]>> \in idx \/ spoiled[u] = c \/ (pc[u] = "segIndex" /\ i = c)
    BY <2>1, <1>1 DEF TxInv, Owns
  <2>3. lock'[c] = u /\ blobLoc'[c] = 0
    BY <2>2, BlobsAssumption DEF Frame
  <2>4. ins[u][c] \in Nat /\ Len(log) \in Nat /\ Len(log') \in Nat
    <3>1. ins[u] \in [Contents -> Nat] /\ log \in Seq(Contents) /\ log' \in Seq(Contents)
      BY DEF TypeOK
    <3> QED
      BY <3>1, SMTT(30)
  <2>5. ins[u][c] <= Len(log') /\ log'[ins[u][c]] = c
    BY <2>1, <2>2, <2>4, SMTT(30) DEF Frame, Grows
  <2>6. <<c, ins[u][c]>> \in idx' \/ spoiled'[u] = c \/ (pc'[u] = "segIndex" /\ i = c)
    BY <1>0, <2>2 DEF Same, Frame, Grows
  <2> QED
    BY <2>1, <2>3, <2>5, <2>6, <1>1
<1>9. Points(u)'
  <2>1. newLoc[u] \in Nat /\ Len(log) \in Nat /\ Len(log') \in Nat
    BY SMTT(30) DEF TypeOK
  <2>2. newLoc'[u] = newLoc[u] /\ pc'[u] = pc[u] /\ ins'[u] = ins[u]
    BY <1>0 DEF Same
  <2> QED
    BY <2>1, <2>2, <1>1, SMTT(30) DEF TxInv, Points, Frame, Grows
<1> QED
  BY <1>5, <1>6, <1>7, <1>8, <1>9 DEF TxInv

\* The committed tables stay sound while they stay as they are.
LEMMA TablesKept ==
    ASSUME TypeOK, TypeOK', Tables, UNCHANGED tables, UNCHANGED drift, Grows
    PROVE  Tables'
<1>1. RefCountAccounted'
  BY DEF Tables, RefCountAccounted, tables
<1>2. BlobsRecoverable'
  <2> SUFFICES ASSUME NEW c \in Contents
               PROVE  /\ fileRows'[c] > 0 => blobLoc'[c] # 0
                      /\ blobLoc'[c] # 0 => blobLoc'[c] <= Len(log') /\ log'[blobLoc'[c]] = c
                      /\ blobLoc'[c] # 0 /\ drift'[c] = 0 => <<c, blobLoc'[c]>> \in idx'
    BY DEF BlobsRecoverable
  <2>1. blobLoc[c] \in Nat /\ Len(log) \in Nat /\ Len(log') \in Nat
    BY SMTT(30) DEF TypeOK
  <2>2. blobLoc'[c] = blobLoc[c] /\ fileRows'[c] = fileRows[c] /\ drift'[c] = drift[c]
    BY DEF tables
  <2> QED
    BY <2>1, <2>2, SMTT(30) DEF Tables, BlobsRecoverable, Grows
<1> QED
  BY <1>1, <1>2 DEF Tables

\* What has to be shown of a step of t.
LEMMA StepKeeps ==
    ASSUME IInv, TypeOK', NEW t \in Txs, Frame(t), TxInv(t)', Tables'
    PROVE  IInv'
  BY OthersKeep DEF IInv

\* Most steps leave the segments, the tables and the locks to the others.
LEMMA Lone ==
    ASSUME TypeOK, NEW t \in Txs, \A u \in Txs : u # t => Same(u),
           UNCHANGED <<log, idx, lock, blobLoc>>
    PROVE  Frame(t) /\ Grows
<1>1. Grows
  BY GrowsNot
<1> QED
  BY <1>1 DEF Frame

-----------------------------------------------------------------------------
(* Type correctness.                                                       *)

\* A rollback keeps the types.
LEMMA RollbackTypes ==
    ASSUME TypeOK, NEW t \in Txs, Rollback(t)
    PROVE  TypeOK'
<1>1. Nothing \in [Contents -> Nat]
  BY DEF Nothing
<1> QED
  BY <1>1 DEF TypeOK, Rollback, Goto, tables, hot

\* A failed StoreOrRef keeps the types.
LEMMA StoreFailsTypes ==
    ASSUME TypeOK, NEW t \in Txs, NEW c \in Contents \cup {None}, StoreFails(t, c)
    PROVE  TypeOK'
<1>1. Len(Members[t]) \in Nat
  BY BlobsAssumption, SMTT(30)
<1>2. CASE IsMember(t)
  <2> PICK n \in Nat : n = Len(Members[t]) + 1
    BY <1>1, SMTT(30)
  <2>1. pos' \in [Txs -> Nat]
    BY <1>2 DEF TypeOK, StoreFails
  <2>2. spoiled' \in [Txs -> Contents \cup {None}]
    BY <1>2 DEF TypeOK, StoreFails
  <2> QED
    BY <1>2, <2>1, <2>2 DEF TypeOK, StoreFails, Goto, tables, hot
<1>3. CASE ~IsMember(t)
  BY <1>3, RollbackTypes DEF StoreFails
<1> QED
  BY <1>2, <1>3

\* An increment keeps the types.
LEMMA AddRefTypes ==
    ASSUME TypeOK, NEW t \in Txs, AddRef(t)
    PROVE  /\ lock' \in [Contents -> Txs \cup {None}]
           /\ incs' \in [Txs -> [Contents -> Nat]]
<1> PICK i \in Contents : i = Item(t)
  BY ItemType
<1>1. incs[t] \in [Contents -> Nat]
  BY DEF TypeOK
<1>2. [incs[t] EXCEPT ![i] = @ + 1] \in [Contents -> Nat]
  BY <1>1, SMTT(30)
<1>3. incs' = [incs EXCEPT ![t] = [incs[t] EXCEPT ![i] = @ + 1]]
  BY DEF AddRef, TypeOK
<1> QED
  BY <1>2, <1>3, SMTT(30) DEF AddRef, TypeOK

\* A commit keeps the types.
LEMMA CommitTypes ==
    ASSUME TypeOK, NEW t \in Txs, Commit(t)
    PROVE  TypeOK'
<1>1. Nothing \in [Contents -> Nat]
  BY DEF Nothing
<1>2. /\ incs[t] \in [Contents -> Nat] /\ ins[t] \in [Contents -> Nat]
      /\ refs[t] \in [Contents -> Nat]
  BY DEF TypeOK
<1>3. /\ refCount' \in [Contents -> Nat] /\ blobLoc' \in [Contents -> Nat]
      /\ fileRows' \in [Contents -> Nat] /\ drift' \in [Contents -> Nat]
  <2>1. refCount' \in [Contents -> Nat] /\ fileRows' \in [Contents -> Nat]
    <3>1. refCount \in [Contents -> Nat] /\ fileRows \in [Contents -> Nat]
      BY DEF TypeOK
    <3>2. /\ refCount' = [c \in Contents |-> refCount[c] + incs[t][c]]
          /\ fileRows' = [c \in Contents |-> fileRows[c] + refs[t][c]]
      BY DEF Commit
    <3>3. \A c \in Contents : /\ refCount[c] + incs[t][c] \in Nat
                              /\ fileRows[c] + refs[t][c] \in Nat
      BY <1>2, <3>1, SMTT(30)
    <3> QED
      BY <3>2, <3>3
  <2>2. blobLoc' \in [Contents -> Nat]
    BY <1>2 DEF TypeOK, Commit
  <2>3. drift' \in [Contents -> Nat]
    BY SMTT(30) DEF TypeOK, Commit
  <2> QED
    BY <2>1, <2>2, <2>3
<1>4. /\ incs' \in [Txs -> [Contents -> Nat]] /\ ins' \in [Txs -> [Contents -> Nat]]
      /\ refs' \in [Txs -> [Contents -> Nat]] /\ spoiled' \in [Txs -> Contents \cup {None}]
      /\ lock' \in [Contents -> Txs \cup {None}]
  BY <1>1 DEF TypeOK, Commit
<1> QED
  BY <1>3, <1>4 DEF TypeOK, Commit, Goto, hot

\* The statements of StoreOrRef keep the types.
LEMMA StoreTypes ==
    ASSUME TypeOK, NEW t \in Txs,
           \/ IncrementRefCountIfExists(t) \/ IncrementRefCount(t)
           \/ InsertBlobOrIncrement(t) \/ AppendSegment(t)
           \/ SegmentIndexAppend(t) \/ IndexPut(t)
    PROVE  TypeOK'
<1> PICK i \in Contents : i = Item(t)
  BY ItemType
<1>1. CASE IncrementRefCountIfExists(t)
  <2>1. CASE Visible(t, Item(t))
    BY <1>1, <2>1, AddRefTypes
       DEF IncrementRefCountIfExists, AddRef, Goto, TypeOK, tables, hot
  <2>2. CASE ~Visible(t, Item(t))
    BY <1>1, <2>2 DEF IncrementRefCountIfExists, Goto, TypeOK, tables, hot, work
  <2> QED
    BY <2>1, <2>2
<1>2. CASE IncrementRefCount(t)
  BY <1>2, AddRefTypes DEF IncrementRefCount, AddRef, Goto, TypeOK, tables, hot
<1>3. CASE InsertBlobOrIncrement(t)
  <2>1. CASE Visible(t, Item(t))
    BY <1>3, <2>1, AddRefTypes DEF InsertBlobOrIncrement, AddRef, Goto, TypeOK, tables, hot
  <2>2. CASE ~Visible(t, Item(t))
    <3>2. incs[t] \in [Contents -> Nat] /\ ins[t] \in [Contents -> Nat] /\ newLoc[t] \in Nat
      BY DEF TypeOK
    <3>3. /\ [incs[t] EXCEPT ![i] = @ + 1] \in [Contents -> Nat]
          /\ [ins[t] EXCEPT ![i] = newLoc[t]] \in [Contents -> Nat]
      BY <3>2, SMTT(30)
    <3>4. /\ incs' = [incs EXCEPT ![t] = [incs[t] EXCEPT ![i] = @ + 1]]
          /\ ins' = [ins EXCEPT ![t] = [ins[t] EXCEPT ![i] = newLoc[t]]]
      BY <1>3, <2>2 DEF InsertBlobOrIncrement, TypeOK
    <3>5. incs' \in [Txs -> [Contents -> Nat]] /\ ins' \in [Txs -> [Contents -> Nat]]
      BY <3>3, <3>4 DEF TypeOK
    <3> QED
      BY <1>3, <2>2, <3>5 DEF InsertBlobOrIncrement, Goto, TypeOK, tables, hot
  <2> QED
    BY <2>1, <2>2
<1>4. CASE AppendSegment(t)
  <2>1. CASE StoreFails(t, None)
    BY <2>1, StoreFailsTypes
  <2>2. CASE ~StoreFails(t, None)
    <3>1. log \in Seq(Contents)
      BY DEF TypeOK
    <3>2. log' \in Seq(Contents) /\ Len(log) + 1 \in Nat
      BY <1>4, <2>2, <3>1, SMTT(30) DEF AppendSegment
    <3>3. newLoc' \in [Txs -> Nat]
      BY <1>4, <2>2, <3>2 DEF AppendSegment, TypeOK
    <3> QED
      BY <1>4, <2>2, <3>2, <3>3 DEF AppendSegment, Goto, TypeOK, tables, hot, work
  <2> QED
    BY <2>1, <2>2
<1>5. CASE SegmentIndexAppend(t)
  <2>1. CASE StoreFails(t, Item(t))
    BY <2>1, StoreFailsTypes
  <2>2. CASE ~StoreFails(t, Item(t))
    <3>1. newLoc[t] \in Nat
      BY DEF TypeOK
    <3>2. idx' \subseteq Contents \X Nat
      BY <1>5, <2>2, <3>1, SMTT(30) DEF SegmentIndexAppend, TypeOK
    <3> QED
      BY <1>5, <2>2, <3>2 DEF SegmentIndexAppend, Goto, TypeOK, tables, hot, work
  <2> QED
    BY <2>1, <2>2
<1>6. CASE IndexPut(t)
  <2>1. CASE StoreFails(t, Item(t))
    BY <2>1, StoreFailsTypes
  <2>2. CASE ~StoreFails(t, Item(t))
    <3>1. kv' \subseteq Contents /\ bloom' \subseteq Contents
      BY <1>6, <2>2 DEF IndexPut, TypeOK
    <3> QED
      BY <1>6, <2>2, <3>1 DEF IndexPut, Goto, TypeOK, tables, work
  <2> QED
    BY <2>1, <2>2
<1> QED
  BY <1>1, <1>2, <1>3, <1>4, <1>5, <1>6

\* Every step keeps the types.
LEMMA TypeStep ==
    ASSUME TypeOK, [Next]_vars
    PROVE  TypeOK'
<1>1. CASE Restart
  <2>1. Nothing \in [Contents -> Nat]
    BY DEF Nothing
  <2>2. kv' \subseteq Contents /\ bloom' \subseteq Contents /\ indexed' \in BOOLEAN
    BY <1>1 DEF Restart, TypeOK
  <2>3. pc' \in [Txs -> {"idle", "start", "incIfExists", "get", "inc", "append", "insert",
                       "segIndex", "put", "file", "commit", "done", "failed"}]
    BY <1>1 DEF Restart, TypeOK
  <2> QED
    BY <1>1, <2>1, <2>2, <2>3 DEF Restart, TypeOK, tables
<1>2. CASE UNCHANGED vars
  BY <1>2 DEF TypeOK, vars, tables, hot, work
<1>3. ASSUME NEW t \in Txs, Begin(t) \/ Step(t) \/ Abort(t)
      PROVE  TypeOK'
  <2>1. CASE Begin(t)
    BY <2>1 DEF Begin, Goto, TypeOK, tables, hot, work
  <2>2. CASE Consult(t)
    <3>1. pc' \in [Txs -> {"idle", "start", "incIfExists", "get", "inc", "append", "insert",
                         "segIndex", "put", "file", "commit", "done", "failed"}]
      BY <2>2 DEF Consult, Goto, TypeOK
    <3> QED
      BY <2>2, <3>1 DEF Consult, TypeOK, tables, hot, work
  <2>3. CASE GetBlob(t)
    BY <2>3 DEF GetBlob, Goto, TypeOK, tables, hot, work
  <2>4. CASE CreatePackageFile(t)
    <3> PICK i \in Contents : i = Item(t)
      BY ItemType
    <3>1. refs[t] \in [Contents -> Nat]
      BY DEF TypeOK
    <3>2. [refs[t] EXCEPT ![i] = @ + 1] \in [Contents -> Nat]
      BY <3>1, SMTT(30)
    <3>3. refs' = [refs EXCEPT ![t] = [refs[t] EXCEPT ![i] = @ + 1]]
      BY <2>4 DEF CreatePackageFile, TypeOK
    <3>4. refs' \in [Txs -> [Contents -> Nat]]
      BY <3>2, <3>3 DEF TypeOK
    <3>5. pos' \in [Txs -> Nat]
      <4>1. pos' = [pos EXCEPT ![t] = @ + 1] \/ pos' = pos
        BY <2>4 DEF CreatePackageFile
      <4>2. pos \in [Txs -> Nat]
        BY DEF TypeOK
      <4>3. pos[t] + 1 \in Nat
        BY <4>2, SMTT(30)
      <4> QED
        BY <4>1, <4>2, <4>3
    <3>6. pc' \in [Txs -> {"idle", "start", "incIfExists", "get", "inc", "append", "insert",
                         "segIndex", "put", "file", "commit", "done", "failed"}]
      BY <2>4 DEF CreatePackageFile, Goto, TypeOK
    <3> QED
      BY <2>4, <3>4, <3>5, <3>6 DEF CreatePackageFile, TypeOK, tables, hot
  <2>5. CASE MemberUnreadable(t)
    <3>1. Len(Members[t]) \in Nat
      BY BlobsAssumption, SMTT(30)
    <3>2. pos' \in [Txs -> Nat]
      BY <2>5, <3>1, SMTT(30) DEF MemberUnreadable, TypeOK
    <3> QED
      BY <2>5, <3>2 DEF MemberUnreadable, TypeOK, tables, hot, work
  <2>6. CASE Abort(t) \/ BreakDeadlock(t)
    BY <2>6, RollbackTypes DEF Abort, BreakDeadlock
  <2> QED
    BY <1>3, <2>1, <2>2, <2>3, <2>4, <2>5, <2>6, CommitTypes, StoreTypes DEF Step
<1> QED
  BY <1>1, <1>2, <1>3 DEF Next

-----------------------------------------------------------------------------
(* A step of a transaction keeps the invariant.                            *)

\* The steps that only move on: Begin, Consult, GetBlob, an increment that
\* finds no row, a member that cannot be read or appended.
LEMMA Moves ==
    ASSUME IInv, TypeOK', NEW t \in Txs, \A u \in Txs : u # t => Same(u),
           UNCHANGED <<log, idx, tables, lock, newLoc, incs, ins, refs, drift>>,
           spoiled'[t] = spoiled[t], pos'[t] >= pos[t],
           ~Counted(t), ~Counted(t)', pc'[t] # "insert",
           pc'[t] = "inc" => pos'[t] = pos[t] /\ Visible(t, Item(t))
    PROVE  IInv'
<1>0. TypeOK /\ TxInv(t) /\ Tables
  BY DEF IInv
<1>1. Frame(t) /\ Grows
  BY <1>0, Lone DEF tables
<1>2. Tables'
  BY <1>0, <1>1, TablesKept DEF tables
<1>3. \A c : Visible(t, c)' = Visible(t, c)
  BY DEF Visible, tables
<1>4. Balanced(t)'
  BY <1>0 DEF TxInv, Balanced
<1>5. Late(t)'
  <2>1. pos[t] \in Nat /\ pos'[t] \in Nat /\ Len(Members[t]) \in Nat
    <3>1. pos'[t] \in Nat
      BY DEF TypeOK
    <3> QED
      BY <1>0, <3>1, Sizes
  <2>2. spoiled[t] # None => pos[t] > Len(Members[t])
    BY <1>0 DEF TxInv, Late
  <2>3. pos[t] > Len(Members[t]) => pos'[t] > Len(Members[t])
    BY <2>1, SMTT(30)
  <2> QED
    BY <2>2, <2>3 DEF Late
<1>6. Sees(t)'
  <2>1. \A c \in Contents : refs'[t][c] # 0 => Visible(t, c)'
    BY <1>0, <1>3 DEF TxInv, Sees
  <2>2. ASSUME pc'[t] = "inc"
        PROVE  Visible(t, Item(t))'
    <3>1. Item(t)' = Item(t)
      BY <2>2, ItemKept
    <3> QED
      BY <2>2, <3>1 DEF Visible, tables
  <2> QED
    BY <2>1, <2>2 DEF Sees
<1>7. Owns(t)'
  <2>1. pc[t] # "segIndex"
    BY DEF Counted
  <2> QED
    BY <1>0, <2>1 DEF TxInv, Owns, tables
<1>8. Points(t)'
  BY DEF Points, Counted
<1>9. TxInv(t)'
  BY <1>4, <1>5, <1>6, <1>7, <1>8 DEF TxInv
<1> QED
  BY <1>1, <1>2, <1>9, StepKeeps

\* IncrementRefCountIfExists, IncrementRefCount and the conflict branch of
\* InsertBlobOrIncrement: t adds a reference to a row that it sees.
LEMMA Adds ==
    ASSUME IInv, TypeOK', NEW t \in Txs, AddRef(t), Visible(t, Item(t)), ~Counted(t),
           Goto(t, "file") \/ Goto(t, "put"),
           UNCHANGED <<log, idx, tables, hot, pos, newLoc>>
    PROVE  IInv'
<1>0. TypeOK /\ TxInv(t) /\ Tables
  BY DEF IInv
<1> PICK i \in Contents : i = Item(t)
  BY <1>0, ItemType
<1>1. Item(t)' = i
  BY ItemKept
<1>2. Counted(t)' /\ pc'[t] \notin {"inc", "insert", "segIndex"}
  BY <1>0 DEF Goto, TypeOK, Counted
<1>3. \A u \in Txs : u # t => Same(u)
  <2>1. DOMAIN pc = Txs /\ DOMAIN incs = Txs
    BY <1>0 DEF TypeOK
  <2>2. \A u \in Txs : u # t => pc'[u] = pc[u]
    BY <2>1 DEF Goto
  <2>3. \A u \in Txs : u # t => incs'[u] = incs[u]
    BY <2>1 DEF AddRef
  <2>4. UNCHANGED <<pos, newLoc, ins, refs, spoiled>>
    BY DEF AddRef, hot
  <2> QED
    BY <2>2, <2>3, <2>4 DEF Same
<1>4. Grows
  BY <1>0, GrowsNot
<1>5. lock'[i] = t /\ \A c \in Contents : c # i => lock'[c] = lock[c]
  BY <1>0 DEF AddRef, TypeOK
<1>6. Frame(t)
  BY <1>3, <1>4, <1>5 DEF Frame, AddRef, Free, tables
<1>7. Tables'
  BY <1>0, <1>4, TablesKept DEF tables, AddRef
<1>8. incs'[t][i] = incs[t][i] + 1 /\ \A c \in Contents : c # i => incs'[t][c] = incs[t][c]
  <2>1. incs[t] \in [Contents -> Nat]
    BY <1>0 DEF TypeOK
  <2>2. incs' = [incs EXCEPT ![t] = [incs[t] EXCEPT ![i] = @ + 1]]
    BY <1>0 DEF AddRef, TypeOK
  <2>3. incs'[t] = [incs[t] EXCEPT ![i] = @ + 1]
    BY <1>0, <2>2 DEF TypeOK
  <2> QED
    BY <2>1, <2>3
<1>9. Balanced(t)'
  <2> SUFFICES ASSUME NEW c \in Contents
               PROVE  incs'[t][c] = refs'[t][c]
                          + (IF Counted(t)' /\ Item(t)' = c THEN 1 ELSE 0)
                          + (IF spoiled'[t] = c THEN 1 ELSE 0)
    BY DEF Balanced
  <2>1. incs[t][c] = refs[t][c] + (IF spoiled[t] = c THEN 1 ELSE 0)
    BY <1>0, Balance DEF TxInv
  <2>2. refs[t] \in [Contents -> Nat]
    BY <1>0 DEF TypeOK
  <2>3. refs' = refs /\ spoiled' = spoiled
    BY DEF AddRef
  <2> QED
    BY <1>1, <1>2, <1>8, <2>1, <2>2, <2>3, SMTT(30)
<1>10. Late(t)'
  BY <1>0 DEF TxInv, Late, AddRef
<1>11. Sees(t)'
  BY <1>0, <1>1 DEF TxInv, Sees, AddRef, Visible, tables
<1>12. Owns(t)'
  <2>1. pc[t] # "segIndex"
    BY DEF Counted
  <2>2. ins' = ins /\ spoiled' = spoiled /\ blobLoc' = blobLoc /\ log' = log /\ idx' = idx
    BY DEF AddRef, tables
  <2> QED
    BY <1>0, <1>5, <2>1, <2>2, SMTT(30) DEF TxInv, Owns
<1>13. Points(t)'
  BY <1>2 DEF Points
<1>14. TxInv(t)'
  BY <1>9, <1>10, <1>11, <1>12, <1>13 DEF TxInv
<1> QED
  BY <1>6, <1>7, <1>14, StepKeeps

\* InsertBlobOrIncrement inserts the row.
LEMMA Inserts ==
    ASSUME IInv, TypeOK', NEW t \in Txs, InsertBlobOrIncrement(t), ~Visible(t, Item(t))
    PROVE  IInv'
<1>0. TypeOK /\ TxInv(t) /\ Tables
  BY DEF IInv
<1> PICK i \in Contents : i = Item(t)
  BY <1>0, ItemType
<1> PICK n \in Nat : n = newLoc[t]
  BY <1>0 DEF TypeOK
<1>1. /\ pc[t] = "insert" /\ lock[i] \in {None, t}
      /\ lock' = [lock EXCEPT ![i] = t]
      /\ incs' = [incs EXCEPT ![t][i] = @ + 1]
      /\ ins' = [ins EXCEPT ![t][i] = n]
      /\ pc' = [pc EXCEPT ![t] = "segIndex"]
      /\ refs' = refs /\ spoiled' = spoiled /\ drift' = drift
      /\ log' = log /\ idx' = idx /\ pos' = pos /\ newLoc' = newLoc
      /\ refCount' = refCount /\ blobLoc' = blobLoc /\ fileRows' = fileRows
  BY DEF InsertBlobOrIncrement, Free, Goto, tables
<1>2. Item(t)' = i /\ pc'[t] = "segIndex" /\ blobLoc[i] = 0
  BY <1>0, <1>1, ItemKept DEF TypeOK, Visible
<1>3. lock'[i] = t /\ \A c \in Contents : c # i => lock'[c] = lock[c]
  BY <1>0, <1>1 DEF TypeOK
<1>4. incs'[t][i] = incs[t][i] + 1 /\ \A c \in Contents : c # i => incs'[t][c] = incs[t][c]
  <2>1. incs[t] \in [Contents -> Nat]
    BY <1>0 DEF TypeOK
  <2>2. incs'[t] = [incs[t] EXCEPT ![i] = @ + 1]
    BY <1>0, <1>1, SMTT(30) DEF TypeOK
  <2> QED
    BY <2>1, <2>2
<1>5. ins'[t][i] = n /\ \A c \in Contents : c # i => ins'[t][c] = ins[t][c]
  <2>1. ins[t] \in [Contents -> Nat]
    BY <1>0 DEF TypeOK
  <2>2. ins'[t] = [ins[t] EXCEPT ![i] = n]
    BY <1>0, <1>1, SMTT(30) DEF TypeOK
  <2> QED
    BY <2>1, <2>2
<1>6. n # 0 /\ n <= Len(log) /\ log[n] = i
  BY <1>0, <1>1 DEF TxInv, Points
<1>7. \A u \in Txs : u # t => Same(u)
  BY <1>0, <1>1, SMTT(30) DEF Same, TypeOK
<1>8. Grows
  BY <1>0, <1>1, GrowsNot
<1>9. Frame(t)
  BY <1>1, <1>3, <1>7, <1>8 DEF Frame
<1>10. Tables'
  BY <1>0, <1>1, <1>8, TablesKept DEF tables
<1>11. Balanced(t)'
  <2> SUFFICES ASSUME NEW c \in Contents
               PROVE  incs'[t][c] = refs'[t][c]
                          + (IF Counted(t)' /\ Item(t)' = c THEN 1 ELSE 0)
                          + (IF spoiled'[t] = c THEN 1 ELSE 0)
    BY DEF Balanced
  <2>1. refs[t] \in [Contents -> Nat]
    BY <1>0 DEF TypeOK
  <2>2. Counted(t)' /\ ~Counted(t)
    BY <1>1, <1>2 DEF Counted
  <2>3. incs[t][c] = refs[t][c] + (IF spoiled[t] = c THEN 1 ELSE 0)
    BY <1>0, <2>2, Balance DEF TxInv
  <2> QED
    BY <1>1, <1>2, <1>4, <2>1, <2>2, <2>3, SMTT(30)
<1>12. Late(t)'
  BY <1>0, <1>1 DEF TxInv, Late
<1>13. Sees(t)'
  <2>1. \A c \in Contents : refs'[t][c] # 0 => Visible(t, c)'
    BY <1>0, <1>1, <1>5, <1>6 DEF TxInv, Sees, Visible
  <2>2. Visible(t, Item(t))'
    BY <1>2, <1>5, <1>6 DEF Visible
  <2> QED
    BY <2>1, <2>2 DEF Sees
<1>14. Owns(t)'
  BY <1>0, <1>1, <1>2, <1>3, <1>5, <1>6, SMTT(30) DEF TxInv, Owns
<1>15. Points(t)'
  BY <1>1, <1>2, <1>5, <1>6 DEF Points
<1>16. TxInv(t)'
  BY <1>11, <1>12, <1>13, <1>14, <1>15 DEF TxInv
<1> QED
  BY <1>9, <1>10, <1>16, StepKeeps

\* segments.Append writes the record.
LEMMA Appends ==
    ASSUME IInv, TypeOK', NEW t \in Txs, AppendSegment(t), ~StoreFails(t, None)
    PROVE  IInv'
<1>0. TypeOK /\ TxInv(t) /\ Tables
  BY DEF IInv
<1> PICK i \in Contents : i = Item(t)
  BY <1>0, ItemType
<1>1. /\ pc[t] = "append" /\ log' = Append(log, i)
      /\ newLoc' = [newLoc EXCEPT ![t] = Len(log) + 1]
      /\ pc' = [pc EXCEPT ![t] = "insert"]
      /\ idx' = idx /\ lock' = lock /\ pos' = pos /\ incs' = incs /\ ins' = ins
      /\ refs' = refs /\ spoiled' = spoiled /\ drift' = drift
      /\ refCount' = refCount /\ blobLoc' = blobLoc /\ fileRows' = fileRows
  BY DEF AppendSegment, Goto, tables, work
<1>2. Item(t)' = i /\ pc'[t] = "insert" /\ newLoc'[t] = Len(log) + 1
  BY <1>0, <1>1, ItemKept DEF TypeOK
<1>3. /\ Len(log) \in Nat /\ Len(log') = Len(log) + 1 /\ Len(log) <= Len(log')
      /\ log'[Len(log) + 1] = i /\ \A k \in 1 .. Len(log) : log'[k] = log[k]
  <2>1. log \in Seq(Contents)
    BY <1>0 DEF TypeOK
  <2> QED
    BY <1>1, <2>1, Appended
<1>4. Grows
  BY <1>1, <1>3 DEF Grows
<1>5. Frame(t)
  <2>1. \A u \in Txs : u # t => Same(u)
    BY <1>0, <1>1 DEF Same, TypeOK
  <2> QED
    BY <1>1, <1>4, <2>1 DEF Frame
<1>6. Tables'
  BY <1>0, <1>1, <1>4, TablesKept DEF tables
<1>7. Balanced(t)'
  <2>1. ~Counted(t) /\ ~Counted(t)'
    BY <1>1, <1>2 DEF Counted
  <2> QED
    BY <1>0, <1>1, <2>1 DEF TxInv, Balanced
<1>8. Late(t)'
  BY <1>0, <1>1 DEF TxInv, Late
<1>9. Sees(t)'
  <2>1. ~Counted(t)'
    BY <1>2 DEF Counted
  <2> QED
    BY <1>0, <1>1, <1>2, <2>1 DEF TxInv, Sees, Visible
<1>10. Owns(t)'
  <2> SUFFICES ASSUME NEW c \in Contents, ins[t][c] # 0
               PROVE  /\ lock[c] = t /\ blobLoc[c] = 0
                      /\ ins[t][c] <= Len(log') /\ log'[ins[t][c]] = c
                      /\ <<c, ins[t][c]>> \in idx \/ spoiled[t] = c
    BY <1>1 DEF Owns
  <2>1. /\ lock[c] = t /\ blobLoc[c] = 0
        /\ ins[t][c] <= Len(log) /\ log[ins[t][c]] = c
        /\ <<c, ins[t][c]>> \in idx \/ spoiled[t] = c
    BY <1>0, <1>1 DEF TxInv, Owns
  <2> PICK k \in Nat, n \in Nat, m \in Nat : k = ins[t][c] /\ n = Len(log) /\ m = Len(log')
    BY <1>0, <1>3, Cells, SMTT(30)
  <2>2. m = n + 1 /\ k <= n /\ k # 0
    BY <1>3, <2>1
  <2>3. k \in 1 .. n /\ k <= m
    BY <2>2, SMTT(30)
  <2>4. log'[k] = c
    BY <1>3, <2>1, <2>3
  <2> QED
    BY <2>1, <2>3, <2>4
<1>11. Points(t)'
  <2> PICK n \in Nat : n = Len(log)
    BY <1>3
  <2>1. n + 1 # 0 /\ n + 1 <= n + 1
    BY SMTT(30)
  <2>2. newLoc'[t] = n + 1 /\ Len(log') = n + 1 /\ log'[n + 1] = i
    BY <1>2, <1>3
  <2> QED
    BY <1>2, <2>1, <2>2 DEF Points
<1>12. TxInv(t)'
  BY <1>7, <1>8, <1>9, <1>10, <1>11 DEF TxInv
<1> QED
  BY <1>5, <1>6, <1>12, StepKeeps

\* The steps after the row is counted: the segment index entry, then the HotIndex.
LEMMA Indexes ==
    ASSUME IInv, TypeOK', NEW t \in Txs,
           \/ SegmentIndexAppend(t) /\ ~StoreFails(t, Item(t))
           \/ IndexPut(t) /\ ~StoreFails(t, Item(t))
    PROVE  IInv'
<1>0. TypeOK /\ TxInv(t) /\ Tables
  BY DEF IInv
<1> PICK i \in Contents : i = Item(t)
  BY <1>0, ItemType
<1>1. /\ lock' = lock /\ pos' = pos /\ newLoc' = newLoc /\ incs' = incs /\ ins' = ins
      /\ refs' = refs /\ spoiled' = spoiled /\ drift' = drift /\ log' = log
      /\ refCount' = refCount /\ blobLoc' = blobLoc /\ fileRows' = fileRows
  BY DEF SegmentIndexAppend, IndexPut, tables, work
<1>2. \/ pc[t] = "segIndex" /\ pc' = [pc EXCEPT ![t] = "put"] /\ idx' = idx \cup {<<i, newLoc[t]>>}
      \/ pc[t] = "put" /\ pc' = [pc EXCEPT ![t] = "file"] /\ idx' = idx
  BY DEF SegmentIndexAppend, IndexPut, Goto
<1>3. Item(t)' = i
  BY <1>1, ItemKept
<1>4. Counted(t) /\ Counted(t)' /\ pc'[t] \notin {"inc", "insert", "segIndex"}
  BY <1>0, <1>2 DEF Counted, TypeOK
<1>5. Grows
  BY <1>0, <1>1, <1>2, GrowsNot
<1>6. Frame(t)
  <2>1. \A u \in Txs : u # t => Same(u)
    BY <1>0, <1>1, <1>2 DEF Same, TypeOK
  <2> QED
    BY <1>1, <1>5, <2>1 DEF Frame
<1>7. Tables'
  BY <1>0, <1>1, <1>5, TablesKept DEF tables
<1>8. Balanced(t)'
  BY <1>0, <1>1, <1>3, <1>4 DEF TxInv, Balanced
<1>9. Late(t)'
  BY <1>0, <1>1 DEF TxInv, Late
<1>10. Sees(t)'
  BY <1>0, <1>1, <1>3, <1>4 DEF TxInv, Sees, Visible
<1>11. Owns(t)'
  <2> SUFFICES ASSUME NEW c \in Contents, ins[t][c] # 0
               PROVE  /\ lock[c] = t /\ blobLoc[c] = 0
                      /\ ins[t][c] <= Len(log) /\ log[ins[t][c]] = c
                      /\ <<c, ins[t][c]>> \in idx' \/ spoiled[t] = c
    BY <1>1 DEF Owns
  <2>1. /\ lock[c] = t /\ blobLoc[c] = 0
        /\ ins[t][c] <= Len(log) /\ log[ins[t][c]] = c
        /\ \/ <<c, ins[t][c]>> \in idx
           \/ spoiled[t] = c
           \/ pc[t] = "segIndex" /\ i = c
    BY <1>0 DEF TxInv, Owns
  <2>2. pc[t] = "segIndex" => ins[t][i] = newLoc[t]
    BY <1>0 DEF TxInv, Points
  <2> QED
    BY <1>2, <2>1, <2>2
<1>12. Points(t)'
  BY <1>4 DEF Points
<1>13. TxInv(t)'
  BY <1>8, <1>9, <1>10, <1>11, <1>12 DEF TxInv
<1> QED
  BY <1>6, <1>7, <1>13, StepKeeps

\* A transaction that holds nothing keeps the invariant.
LEMMA Empty ==
    ASSUME TypeOK, NEW t \in Txs, pc[t] \in {"idle", "done", "failed"},
           incs[t] = Nothing, ins[t] = Nothing, refs[t] = Nothing, spoiled[t] = None
    PROVE  TxInv(t)
<1>1. ~Counted(t) /\ pc[t] \notin {"inc", "insert", "segIndex"}
  BY DEF Counted
<1>2. \A c \in Contents : incs[t][c] = 0 /\ ins[t][c] = 0 /\ refs[t][c] = 0 /\ spoiled[t] # c
  BY BlobsAssumption DEF Nothing
<1>3. Balanced(t)
  BY <1>1, <1>2, SMTT(30) DEF Balanced
<1>4. Late(t)
  BY DEF Late
<1>5. Sees(t)
  BY <1>1, <1>2 DEF Sees
<1>6. Owns(t)
  BY <1>2 DEF Owns
<1>7. Points(t)
  BY <1>1 DEF Points
<1> QED
  BY <1>3, <1>4, <1>5, <1>6, <1>7 DEF TxInv

\* A rollback leaves no trace.
LEMMA RollsBack ==
    ASSUME IInv, TypeOK', NEW t \in Txs, Rollback(t)
    PROVE  IInv'
<1>0. TypeOK /\ Tables
  BY DEF IInv
<1>1. Grows
  BY <1>0, GrowsNot DEF Rollback
<1>2. \A u \in Txs : u # t => Same(u)
  BY <1>0, SMTT(30) DEF Rollback, Goto, Same, TypeOK
<1>3. Frame(t)
  BY <1>1, <1>2 DEF Frame, Rollback, tables
<1>4. Tables'
  BY <1>0, <1>1, TablesKept DEF Rollback
<1>5. /\ pc'[t] = "failed" /\ incs'[t] = Nothing /\ ins'[t] = Nothing
      /\ refs'[t] = Nothing /\ spoiled'[t] = None
  BY <1>0, SMTT(30) DEF Rollback, Goto, TypeOK
<1>6. Nothing' = Nothing
  BY DEF Nothing
<1>7. TxInv(t)'
  <2>1. (/\ TypeOK /\ pc[t] \in {"idle", "done", "failed"} /\ incs[t] = Nothing
         /\ ins[t] = Nothing /\ refs[t] = Nothing /\ spoiled[t] = None)'
    BY <1>5, <1>6
  <2> QED
    BY <2>1, Empty, PTL
<1> QED
  BY <1>3, <1>4, <1>7, StepKeeps

\* persistZipMembers takes a member that was counted for an unpack error: its
\* reference is left over.
LEMMA Spoils ==
    ASSUME IInv, TypeOK', NEW t \in Txs, Counted(t), StoreFails(t, Item(t)), IsMember(t)
    PROVE  IInv'
<1>0. TypeOK /\ TxInv(t) /\ Tables
  BY DEF IInv
<1> PICK i \in Contents : i = Item(t)
  BY <1>0, ItemType
<1>1. /\ pos' = [pos EXCEPT ![t] = Len(Members[t]) + 1]
      /\ pc' = [pc EXCEPT ![t] = "start"] /\ spoiled' = [spoiled EXCEPT ![t] = i]
      /\ log' = log /\ idx' = idx /\ lock' = lock /\ newLoc' = newLoc /\ incs' = incs
      /\ ins' = ins /\ refs' = refs /\ drift' = drift
      /\ refCount' = refCount /\ blobLoc' = blobLoc /\ fileRows' = fileRows
  BY DEF StoreFails, Goto, tables
<1>2. pc'[t] = "start" /\ spoiled'[t] = i /\ pos'[t] = Len(Members[t]) + 1
  BY <1>0, <1>1 DEF TypeOK
<1>3. Len(Members[t]) \in Nat /\ pos[t] \in Nat
  BY <1>0, Sizes
<1>4. spoiled[t] = None
  <2>1. ~(pos[t] > Len(Members[t]))
    BY <1>3, SMTT(30) DEF IsMember
  <2> QED
    BY <1>0, <2>1 DEF TxInv, Late
<1>5. Frame(t) /\ Grows
  <2>1. \A u \in Txs : u # t => Same(u)
    BY <1>0, <1>1 DEF Same, TypeOK
  <2> QED
    BY <1>0, <1>1, <2>1, Lone
<1>6. Tables'
  BY <1>0, <1>1, <1>5, TablesKept DEF tables
<1>7. ~Counted(t)'
  BY <1>2 DEF Counted
<1>8. Balanced(t)'
  <2> SUFFICES ASSUME NEW c \in Contents
               PROVE  incs[t][c] = refs[t][c] + (IF i = c THEN 1 ELSE 0)
    <3>1. \A c \in Contents : refs[t][c] \in Nat
      BY <1>0, Cells
    <3>2. \A c \in Contents : refs[t][c] + 0 + (IF i = c THEN 1 ELSE 0)
                               = refs[t][c] + (IF i = c THEN 1 ELSE 0)
      BY <3>1, SMTT(30)
    <3>3. \A c \in Contents : incs[t][c] = refs[t][c] + 0 + (IF i = c THEN 1 ELSE 0)
      BY <3>2
    <3> QED
      BY <1>1, <1>2, <1>7, <3>3 DEF Balanced
  <2>1. refs[t][c] \in Nat
    BY <1>0, Cells
  <2>2. spoiled[t] # c
    BY <1>4, BlobsAssumption
  <2>3. IF i = c THEN incs[t][c] = refs[t][c] + 1 + 0 ELSE incs[t][c] = refs[t][c] + 0
    BY <1>0, <2>2, Balance DEF TxInv
  <2> QED
    BY <2>1, <2>3, SMTT(30)
<1>9. Late(t)'
  BY <1>2, <1>3, SMTT(30) DEF Late
<1>10. Sees(t)'
  BY <1>0, <1>1, <1>2, <1>7 DEF TxInv, Sees, Visible
<1>11. Owns(t)'
  <2> SUFFICES ASSUME NEW c \in Contents, ins[t][c] # 0
               PROVE  /\ lock[c] = t /\ blobLoc[c] = 0
                      /\ ins[t][c] <= Len(log) /\ log[ins[t][c]] = c
                      /\ <<c, ins[t][c]>> \in idx \/ i = c
    BY <1>1, <1>2 DEF Owns
  <2>1. spoiled[t] # c
    BY <1>4, BlobsAssumption
  <2> QED
    BY <1>0, <2>1 DEF TxInv, Owns
<1>12. Points(t)'
  BY <1>2 DEF Points
<1>13. TxInv(t)'
  BY <1>8, <1>9, <1>10, <1>11, <1>12 DEF TxInv
<1> QED
  BY <1>5, <1>6, <1>13, StepKeeps

\* CreatePackageFile writes the row that the reference is for.
LEMMA Files ==
    ASSUME IInv, TypeOK', NEW t \in Txs, CreatePackageFile(t)
    PROVE  IInv'
<1>0. TypeOK /\ TxInv(t) /\ Tables
  BY DEF IInv
<1> PICK i \in Contents : i = Item(t)
  BY <1>0, ItemType
<1>1. /\ pc[t] = "file" /\ refs' = [refs EXCEPT ![t][i] = @ + 1]
      /\ log' = log /\ idx' = idx /\ lock' = lock /\ newLoc' = newLoc /\ incs' = incs
      /\ ins' = ins /\ spoiled' = spoiled /\ drift' = drift
      /\ refCount' = refCount /\ blobLoc' = blobLoc /\ fileRows' = fileRows
  BY DEF CreatePackageFile, tables
<1>2. \/ pos' = [pos EXCEPT ![t] = @ + 1] /\ pc' = [pc EXCEPT ![t] = "start"]
      \/ pos' = pos /\ pc' = [pc EXCEPT ![t] = "commit"]
  BY DEF CreatePackageFile, Goto
<1>3. pc'[t] \in {"start", "commit"} /\ pos'[t] \in {pos[t], pos[t] + 1}
  BY <1>0, <1>2 DEF TypeOK
<1>4. refs'[t][i] = refs[t][i] + 1 /\ \A c \in Contents : c # i => refs'[t][c] = refs[t][c]
  <2>1. refs[t] \in [Contents -> Nat]
    BY <1>0 DEF TypeOK
  <2>2. refs'[t] = [refs[t] EXCEPT ![i] = @ + 1]
    BY <1>0, <1>1 DEF TypeOK
  <2> QED
    BY <2>1, <2>2
<1>5. Frame(t) /\ Grows
  <2>1. \A u \in Txs : u # t => Same(u)
    <3>1. DOMAIN pc = Txs /\ DOMAIN pos = Txs /\ DOMAIN refs = Txs
      BY <1>0 DEF TypeOK
    <3>2. \A u \in Txs : u # t => pc'[u] = pc[u] /\ pos'[u] = pos[u]
      BY <1>2, <3>1
    <3>3. \A u \in Txs : u # t => refs'[u] = refs[u]
      BY <1>1, <3>1
    <3> QED
      BY <1>1, <3>2, <3>3 DEF Same
  <2> QED
    BY <1>0, <1>1, <2>1, Lone
<1>6. Tables'
  BY <1>0, <1>1, <1>5, TablesKept DEF tables
<1>7. Counted(t) /\ ~Counted(t)'
  BY <1>1, <1>3 DEF Counted
<1>8. Balanced(t)'
  <2> SUFFICES ASSUME NEW c \in Contents
               PROVE  incs'[t][c] = refs'[t][c]
                          + (IF Counted(t)' /\ Item(t)' = c THEN 1 ELSE 0)
                          + (IF spoiled'[t] = c THEN 1 ELSE 0)
    BY DEF Balanced
  <2>1. refs[t] \in [Contents -> Nat]
    BY <1>0 DEF TypeOK
  <2>2. incs[t][c] = refs[t][c] + (IF i = c THEN 1 ELSE 0) + (IF spoiled[t] = c THEN 1 ELSE 0)
    BY <1>0, <1>7 DEF TxInv, Balanced
  <2> QED
    BY <1>1, <1>4, <1>7, <2>1, <2>2, SMTT(30)
<1>9. Late(t)'
  <2>1. Len(Members[t]) \in Nat /\ pos[t] \in Nat
    BY <1>0, Sizes
  <2> QED
    BY <1>0, <1>1, <1>3, <2>1, SMTT(30) DEF TxInv, Late
<1>10. Sees(t)'
  <2>1. Visible(t, i)
    BY <1>0, <1>7 DEF TxInv, Sees
  <2> QED
    BY <1>0, <1>1, <1>3, <1>4, <1>7, <2>1 DEF TxInv, Sees, Visible
<1>11. Owns(t)'
  BY <1>0, <1>1 DEF TxInv, Owns
<1>12. Points(t)'
  BY <1>3 DEF Points
<1>13. TxInv(t)'
  BY <1>8, <1>9, <1>10, <1>11, <1>12 DEF TxInv
<1> QED
  BY <1>5, <1>6, <1>13, StepKeeps

\* The commit publishes the rows, their counts and their files together.
LEMMA Commits ==
    ASSUME IInv, TypeOK', NEW t \in Txs, Commit(t)
    PROVE  IInv'
<1>0. TypeOK /\ TxInv(t) /\ Tables
  BY DEF IInv
<1>1. Grows
  BY <1>0, GrowsNot DEF Commit
<1>2. \A u \in Txs : u # t => Same(u)
  <2>1. PICK st : pc' = [pc EXCEPT ![t] = st]
    BY DEF Commit, Goto
  <2>2. \A u \in Txs : u # t => pc'[u] = pc[u]
    BY <1>0, <2>1 DEF TypeOK
  <2>3. /\ incs' = [incs EXCEPT ![t] = Nothing] /\ ins' = [ins EXCEPT ![t] = Nothing]
        /\ refs' = [refs EXCEPT ![t] = Nothing] /\ spoiled' = [spoiled EXCEPT ![t] = None]
        /\ UNCHANGED <<pos, newLoc>>
    BY DEF Commit
  <2>4. \A u \in Txs : u # t => /\ incs'[u] = incs[u] /\ ins'[u] = ins[u]
                               /\ refs'[u] = refs[u] /\ spoiled'[u] = spoiled[u]
    BY <1>0, <2>3, SMTT(30) DEF TypeOK
  <2> QED
    BY <2>2, <2>3, <2>4 DEF Same
<1>3. \A c \in Contents : lock[c] \notin {None, t} => lock'[c] = lock[c]
  BY DEF Commit
<1>4. \A c \in Contents : blobLoc'[c] = IF ins[t][c] # 0 THEN ins[t][c] ELSE blobLoc[c]
  BY DEF Commit
<1>5. Frame(t)
  BY <1>0, <1>1, <1>2, <1>3, <1>4 DEF Frame, TxInv, Owns
<1>6. pc[t] = "commit" /\ ~Counted(t)
  BY DEF Commit, Counted
<1>7. RefCountAccounted'
  <2> SUFFICES ASSUME NEW c \in Contents
               PROVE  refCount'[c] = fileRows'[c] + drift'[c]
    BY DEF RefCountAccounted
  <2>1. /\ refCount'[c] = refCount[c] + incs[t][c] /\ fileRows'[c] = fileRows[c] + refs[t][c]
        /\ drift'[c] = drift[c] + (IF spoiled[t] = c THEN 1 ELSE 0)
    BY DEF Commit
  <2>2. refs[t] \in [Contents -> Nat] /\ fileRows[c] \in Nat /\ drift[c] \in Nat
    BY <1>0 DEF TypeOK
  <2>3. incs[t][c] = refs[t][c] + (IF spoiled[t] = c THEN 1 ELSE 0)
    BY <1>0, <1>6, Balance DEF TxInv
  <2>4. refCount[c] = fileRows[c] + drift[c]
    BY <1>0 DEF Tables, RefCountAccounted
  <2> QED
    BY <2>1, <2>2, <2>3, <2>4, SMTT(30)
<1>8. BlobsRecoverable'
  <2> SUFFICES ASSUME NEW c \in Contents
               PROVE  /\ fileRows'[c] > 0 => blobLoc'[c] # 0
                      /\ blobLoc'[c] # 0 => blobLoc'[c] <= Len(log') /\ log'[blobLoc'[c]] = c
                      /\ blobLoc'[c] # 0 /\ drift'[c] = 0 => <<c, blobLoc'[c]>> \in idx'
    BY DEF BlobsRecoverable
  <2>1. /\ fileRows'[c] = fileRows[c] + refs[t][c] /\ log' = log /\ idx' = idx
        /\ drift'[c] = drift[c] + (IF spoiled[t] = c THEN 1 ELSE 0)
    BY DEF Commit
  <2>2. fileRows[c] \in Nat /\ drift[c] \in Nat
    BY <1>0 DEF TypeOK
  <2>3. refs[t][c] \in Nat
    <3>1. refs[t] \in [Contents -> Nat]
      BY <1>0 DEF TypeOK
    <3> QED
      BY <3>1
  <2>4. fileRows'[c] > 0 => blobLoc'[c] # 0
    <3>1. refs[t][c] # 0 => blobLoc[c] # 0 \/ ins[t][c] # 0
      BY <1>0 DEF TxInv, Sees, Visible
    <3>2. fileRows[c] > 0 => blobLoc[c] # 0
      BY <1>0 DEF Tables, BlobsRecoverable
    <3>3. fileRows'[c] > 0 => fileRows[c] > 0 \/ refs[t][c] # 0
      BY <2>1, <2>2, <2>3, SMTT(30)
    <3>4. blobLoc[c] # 0 \/ ins[t][c] # 0 => blobLoc'[c] # 0
      BY <1>4
    <3> QED
      BY <3>1, <3>2, <3>3, <3>4
  <2>5. CASE ins[t][c] # 0
    <3>1. /\ ins[t][c] <= Len(log) /\ log[ins[t][c]] = c
          /\ <<c, ins[t][c]>> \in idx \/ spoiled[t] = c
      BY <1>0, <1>6, <2>5 DEF TxInv, Owns
    <3> QED
      BY <1>4, <2>1, <2>2, <2>4, <2>5, <3>1, SMTT(30)
  <2>6. CASE ins[t][c] = 0
    <3>1. blobLoc'[c] = blobLoc[c]
      BY <1>4, <2>6
    <3>2. drift'[c] = 0 => drift[c] = 0
      BY <2>1, <2>2, SMTT(30)
    <3> QED
      BY <1>0, <2>1, <2>4, <3>1, <3>2 DEF Tables, BlobsRecoverable
  <2> QED
    BY <2>5, <2>6
<1>9. Tables'
  BY <1>7, <1>8 DEF Tables
<1>10. /\ pc'[t] \in {"done", "failed"} /\ incs'[t] = Nothing /\ ins'[t] = Nothing
       /\ refs'[t] = Nothing /\ spoiled'[t] = None
  BY <1>0, SMTT(30) DEF Commit, Goto, TypeOK
<1>11. Nothing' = Nothing
  BY DEF Nothing
<1>12. TxInv(t)'
  <2>1. (/\ TypeOK /\ pc[t] \in {"idle", "done", "failed"} /\ incs[t] = Nothing
         /\ ins[t] = Nothing /\ refs[t] = Nothing /\ spoiled[t] = None)'
    BY <1>10, <1>11
  <2> QED
    BY <2>1, Empty, PTL
<1> QED
  BY <1>5, <1>9, <1>12, StepKeeps

\* A restart rolls every open transaction back.
LEMMA Restarts ==
    ASSUME IInv, TypeOK', Restart
    PROVE  IInv'
<1>0. TypeOK /\ Tables
  BY DEF IInv
<1>1. Grows
  BY <1>0, GrowsNot DEF Restart
<1>2. Tables'
  BY <1>0, <1>1, TablesKept DEF Restart
<1>3. Nothing' = Nothing
  BY DEF Nothing
<1>4. ASSUME NEW t \in Txs
      PROVE  TxInv(t)'
  <2>1. pc'[t] \in {"idle", "done", "failed"}
    BY <1>0 DEF Restart, Active
  <2>2. incs'[t] = Nothing /\ ins'[t] = Nothing /\ refs'[t] = Nothing /\ spoiled'[t] = None
    BY DEF Restart
  <2>3. (/\ TypeOK /\ pc[t] \in {"idle", "done", "failed"} /\ incs[t] = Nothing
         /\ ins[t] = Nothing /\ refs[t] = Nothing /\ spoiled[t] = None)'
    BY <1>3, <2>1, <2>2
  <2> QED
    BY <2>3, Empty, PTL
<1> QED
  BY <1>2, <1>4 DEF IInv

\* A StoreOrRef that fails: for a member the request goes on, for the original
\* it ends.
LEMMA Fails ==
    ASSUME IInv, TypeOK', NEW t \in Txs,
           \/ pc[t] = "append" /\ StoreFails(t, None)
           \/ Counted(t) /\ StoreFails(t, Item(t))
    PROVE  IInv'
<1>1. CASE ~IsMember(t)
  BY <1>1, RollsBack DEF StoreFails
<1>2. CASE IsMember(t) /\ Counted(t) /\ StoreFails(t, Item(t))
  BY <1>2, Spoils
<1>3. CASE IsMember(t) /\ pc[t] = "append" /\ StoreFails(t, None)
  <2>0. TypeOK /\ TxInv(t)
    BY DEF IInv
  <2>1. Len(Members[t]) \in Nat /\ pos[t] \in Nat
    BY <2>0, Sizes
  <2>2. pos' = [pos EXCEPT ![t] = Len(Members[t]) + 1] /\ pc' = [pc EXCEPT ![t] = "start"]
    BY <1>3 DEF StoreFails, Goto
  <2>3. spoiled' = [spoiled EXCEPT ![t] = None]
    BY <1>3 DEF StoreFails
  <2>4. UNCHANGED <<log, idx, tables, lock, newLoc, incs, ins, refs, drift>>
    BY <1>3 DEF StoreFails
  <2>5. spoiled[t] = None
    <3>1. ~(pos[t] > Len(Members[t]))
      BY <1>3, <2>1, SMTT(30) DEF IsMember
    <3> QED
      BY <2>0, <3>1 DEF TxInv, Late
  <2>6. spoiled'[t] = spoiled[t] /\ pos'[t] >= pos[t] /\ pc'[t] = "start"
    <3>1. pos[t] <= Len(Members[t])
      BY <1>3, <2>1, SMTT(30) DEF IsMember
    <3> QED
      BY <2>0, <2>1, <2>2, <2>3, <2>5, <3>1, SMTT(30) DEF TypeOK
  <2>7. \A u \in Txs : u # t => Same(u)
    BY <2>0, <2>2, <2>3, <2>4 DEF Same, TypeOK
  <2>8. ~Counted(t) /\ ~Counted(t)'
    BY <1>3, <2>6 DEF Counted
  <2> QED
    BY <2>4, <2>6, <2>7, <2>8, Moves
<1> QED
  BY <1>1, <1>2, <1>3

\* Begin, Consult, GetBlob and a member that cannot be read.
LEMMA Quiet ==
    ASSUME IInv, TypeOK', NEW t \in Txs,
           \/ Begin(t) \/ Consult(t) \/ GetBlob(t) \/ MemberUnreadable(t)
           \/ IncrementRefCountIfExists(t) /\ ~Visible(t, Item(t))
    PROVE  IInv'
<1>0. TypeOK
  BY DEF IInv
<1>1. UNCHANGED <<log, idx, tables, lock, newLoc, incs, ins, refs, drift>> /\ spoiled' = spoiled
  BY DEF Begin, Consult, GetBlob, MemberUnreadable, IncrementRefCountIfExists, work
<1>2. /\ ~Counted(t)
      /\ \/ pos' = pos /\ \E l \in {"start", "get", "append", "incIfExists"} : pc' = [pc EXCEPT ![t] = l]
         \/ pos' = pos /\ pc' = [pc EXCEPT ![t] = "inc"] /\ Visible(t, Item(t))
         \/ IsMember(t) /\ pos' = [pos EXCEPT ![t] = Len(Members[t]) + 1] /\ pc' = pc /\ pc[t] = "start"
  <2>1. CASE Begin(t)
    BY <2>1 DEF Begin, Goto, Counted
  <2>2. CASE Consult(t)
    BY <2>2 DEF Consult, Goto, Counted
  <2>3. CASE GetBlob(t)
    BY <2>3 DEF GetBlob, Goto, Counted
  <2>4. CASE MemberUnreadable(t)
    BY <2>4 DEF MemberUnreadable, Counted
  <2>5. CASE IncrementRefCountIfExists(t) /\ ~Visible(t, Item(t))
    BY <2>5 DEF IncrementRefCountIfExists, Goto, Counted
  <2> QED
    BY <2>1, <2>2, <2>3, <2>4, <2>5
<1>3. \A u \in Txs : u # t => Same(u)
  BY <1>0, <1>1, <1>2 DEF Same, TypeOK
<1>4. Len(Members[t]) \in Nat /\ pos[t] \in Nat
  BY <1>0, Sizes
<1>5. pos'[t] >= pos[t]
  <2>1. IsMember(t) => pos[t] <= Len(Members[t])
    BY <1>4, SMTT(30) DEF IsMember
  <2> QED
    BY <1>0, <1>2, <1>4, <2>1, SMTT(30) DEF TypeOK
<1>6. /\ pc'[t] \in {"start", "get", "append", "incIfExists", "inc"}
      /\ pc'[t] = "inc" => pos'[t] = pos[t] /\ Visible(t, Item(t))
  BY <1>0, <1>2 DEF TypeOK
<1>7. ~Counted(t)'
  BY <1>6 DEF Counted
<1> QED
  BY <1>1, <1>2, <1>3, <1>5, <1>6, <1>7, Moves

\* Every step keeps the invariant.
LEMMA Inductive ==
    ASSUME IInv, [Next]_vars
    PROVE  IInv'
<1>0. TypeOK /\ TypeOK'
  BY TypeStep DEF IInv
<1>1. CASE UNCHANGED vars
  <2>1. Tables'
    BY <1>1 DEF IInv, Tables, RefCountAccounted, BlobsRecoverable, vars, tables, work
  <2>2. ASSUME NEW t \in Txs
        PROVE  TxInv(t)'
    <3>1. Item(t)' = Item(t) /\ Counted(t)' = Counted(t)
      BY <1>1 DEF vars, Item, Counted
    <3>2. TxInv(t)
      BY DEF IInv
    <3>3. Balanced(t)' /\ Late(t)'
      BY <1>1, <3>1, <3>2 DEF TxInv, Balanced, Late, vars, work
    <3>4. Sees(t)' /\ Points(t)'
      BY <1>1, <3>1, <3>2 DEF TxInv, Sees, Visible, Points, vars, work, tables
    <3>5. Owns(t)'
      BY <1>1, <3>1, <3>2 DEF TxInv, Owns, vars, work, tables
    <3> QED
      BY <3>3, <3>4, <3>5 DEF TxInv
  <2> QED
    BY <1>0, <2>1, <2>2 DEF IInv
<1>2. CASE Restart
  BY <1>0, <1>2, Restarts
<1>3. ASSUME NEW t \in Txs, Begin(t) \/ Step(t) \/ Abort(t)
      PROVE  IInv'
  <2>1. TxInv(t)
    BY DEF IInv
  <2>2. CASE Begin(t) \/ Consult(t) \/ GetBlob(t) \/ MemberUnreadable(t)
    BY <1>0, <2>2, Quiet
  <2>3. CASE IncrementRefCountIfExists(t)
    <3>1. CASE Visible(t, Item(t))
      <4>1. ~Counted(t)
        BY <2>3 DEF IncrementRefCountIfExists, Counted
      <4> QED
        BY <1>0, <2>3, <3>1, <4>1, Adds DEF IncrementRefCountIfExists
    <3>2. CASE ~Visible(t, Item(t))
      BY <1>0, <2>3, <3>2, Quiet
    <3> QED
      BY <3>1, <3>2
  <2>4. CASE IncrementRefCount(t)
    <3>1. ~Counted(t) /\ Visible(t, Item(t))
      BY <2>1, <2>4 DEF IncrementRefCount, Counted, TxInv, Sees
    <3> QED
      BY <1>0, <2>4, <3>1, Adds DEF IncrementRefCount
  <2>5. CASE AppendSegment(t)
    BY <1>0, <2>5, Appends, Fails DEF AppendSegment
  <2>6. CASE InsertBlobOrIncrement(t)
    <3>1. ~Counted(t)
      BY <2>6 DEF InsertBlobOrIncrement, Counted
    <3>2. CASE Visible(t, Item(t))
      BY <1>0, <2>6, <3>1, <3>2, Adds DEF InsertBlobOrIncrement
    <3>3. CASE ~Visible(t, Item(t))
      BY <1>0, <2>6, <3>3, Inserts
    <3> QED
      BY <3>2, <3>3
  <2>7. CASE SegmentIndexAppend(t) \/ IndexPut(t)
    <3>1. Counted(t)
      BY <2>7 DEF SegmentIndexAppend, IndexPut, Counted
    <3>2. CASE StoreFails(t, Item(t))
      BY <1>0, <3>1, <3>2, Fails
    <3>3. CASE ~StoreFails(t, Item(t))
      BY <1>0, <2>7, <3>3, Indexes
    <3> QED
      BY <3>2, <3>3
  <2>8. CASE CreatePackageFile(t)
    BY <1>0, <2>8, Files
  <2>9. CASE Commit(t)
    BY <1>0, <2>9, Commits
  <2>10. CASE BreakDeadlock(t) \/ Abort(t)
    BY <1>0, <2>10, RollsBack DEF BreakDeadlock, Abort
  <2> QED
    BY <1>3, <2>2, <2>3, <2>4, <2>5, <2>6, <2>7, <2>8, <2>9, <2>10 DEF Step
<1> QED
  BY <1>1, <1>2, <1>3 DEF Next

-----------------------------------------------------------------------------
(* The theorems.                                                           *)

\* The invariant holds from the start.
LEMMA Initial ==
    ASSUME Init
    PROVE  IInv
<1>1. Nothing \in [Contents -> Nat] /\ \A c \in Contents : Nothing[c] = 0
  BY DEF Nothing
<1>2. TypeOK
  BY <1>1, SMTT(30) DEF Init, TypeOK
<1>3. Tables
  BY <1>1, SMTT(30) DEF Init, Tables, RefCountAccounted, BlobsRecoverable
<1>4. ASSUME NEW t \in Txs
      PROVE  TxInv(t)
  <2>1. pc[t] = "idle" /\ spoiled[t] = None
    BY DEF Init
  <2>2. incs[t] = Nothing /\ ins[t] = Nothing /\ refs[t] = Nothing
    BY DEF Init
  <2> QED
    BY <1>2, <2>1, <2>2, Empty
<1> QED
  BY <1>2, <1>3, <1>4 DEF IInv

\* It holds always.
LEMMA Always == Spec => []IInv
<1>1. Init => IInv
  BY Initial
<1>2. IInv /\ [Next]_vars => IInv'
  BY Inductive
<1> QED
  BY <1>1, <1>2, PTL DEF Spec

\* Every variable keeps its type, whatever the requests and the ZIPs are.
THEOREM Types == Spec => []TypeOK
  BY Always, PTL DEF IInv

\* ref_count is the number of package_files rows and of the references that
\* committed ZIPs left over, for any number of concurrent ingest transactions.
THEOREM Accounted == Spec => []RefCountAccounted
<1>1. IInv => RefCountAccounted
  BY DEF IInv, Tables
<1> QED
  BY <1>1, Always, PTL

\* A committed blob can be read and, unless a failure to index it was committed,
\* rebuilt, for any number of concurrent ingest transactions.
THEOREM Recoverable == Spec => []BlobsRecoverable
<1>1. IInv => BlobsRecoverable
  BY DEF IInv, Tables
<1> QED
  BY <1>1, Always, PTL

\* A committed blob never moves and never loses references: only the
\* transaction that holds the lock of a row that is not there yet inserts it.
THEOREM Stable == Spec => BlobsStable
<1>1. ASSUME IInv, [Next]_vars, NEW c \in Contents, blobLoc[c] # 0
      PROVE  blobLoc'[c] = blobLoc[c] /\ refCount'[c] >= refCount[c]
  <2>0. TypeOK
    BY <1>1 DEF IInv
  <2>1. refCount[c] \in Nat
    BY <2>0 DEF TypeOK
  <2>2. ASSUME NEW t \in Txs, Commit(t)
        PROVE  blobLoc'[c] = blobLoc[c] /\ refCount'[c] >= refCount[c]
    <3>1. ins[t][c] = 0
      BY <1>1 DEF IInv, TxInv, Owns
    <3>2. incs[t][c] \in Nat
      <4>1. incs[t] \in [Contents -> Nat]
        BY <2>0 DEF TypeOK
      <4> QED
        BY <4>1
    <3>3. /\ blobLoc'[c] = IF ins[t][c] # 0 THEN ins[t][c] ELSE blobLoc[c]
          /\ refCount'[c] = refCount[c] + incs[t][c]
      BY <2>2 DEF Commit
    <3> QED
      BY <2>1, <3>1, <3>2, <3>3, SMTT(30)
  <2>3. CASE UNCHANGED tables
    BY <2>1, <2>3, SMTT(30) DEF tables
  <2>4. (\E t \in Txs : Commit(t)) \/ UNCHANGED tables
    <3>1. ASSUME NEW t \in Txs, Begin(t) \/ Step(t) \/ Abort(t)
          PROVE  Commit(t) \/ UNCHANGED tables
      <4>1. CASE Begin(t) \/ Consult(t) \/ IncrementRefCountIfExists(t) \/ GetBlob(t)
        BY <4>1 DEF Begin, Consult, IncrementRefCountIfExists, GetBlob
      <4>2. CASE IncrementRefCount(t) \/ InsertBlobOrIncrement(t) \/ CreatePackageFile(t)
                 \/ MemberUnreadable(t)
        BY <4>2 DEF IncrementRefCount, InsertBlobOrIncrement, CreatePackageFile, MemberUnreadable
      <4>3. CASE AppendSegment(t) \/ SegmentIndexAppend(t) \/ IndexPut(t)
        BY <4>3 DEF AppendSegment, SegmentIndexAppend, IndexPut, StoreFails, Rollback
      <4>4. CASE BreakDeadlock(t) \/ Abort(t)
        BY <4>4 DEF BreakDeadlock, Abort, Rollback
      <4> QED
        BY <3>1, <4>1, <4>2, <4>3, <4>4 DEF Step
    <3>2. CASE Restart
      BY <3>2 DEF Restart
    <3>3. CASE UNCHANGED vars
      BY <3>3 DEF vars
    <3> QED
      BY <1>1, <3>1, <3>2, <3>3 DEF Next
  <2> QED
    BY <2>2, <2>3, <2>4
<1>2. IInv /\ [Next]_vars =>
          [\A c \in Contents : blobLoc[c] # 0 =>
               blobLoc'[c] = blobLoc[c] /\ refCount'[c] >= refCount[c]]_vars
  BY <1>1
<1> QED
  BY <1>2, Always, PTL DEF Spec, BlobsStable
=============================================================================
