--------------------------- MODULE PackagesProofs ---------------------------
(***************************************************************************)
(* The invariants of Packages for any number of requests and workers, every *)
(* body and every length of the queue.                                     *)
(***************************************************************************)
EXTENDS PackagesTable, PackagesRebuild, TLAPS

\* A leaf that names no prover is left to Zenon; the others, most of them about
\* numbers, sequences or EXCEPT, name the SMT solver.
USE ZenonT(30)

-----------------------------------------------------------------------------
(* The inductive invariant.                                                *)

RequestPcs == {"idle", "cloneRow", "cloneFiles", "create", "commit", "enqueue", "load",
               "loadFiles", "journal", "done", "failed"}
WorkerPcs == {"idle", "get", "unpack", "clones", "next", "propagate", "finish"}

Request ==
    [pc : RequestPcs, body : Bodies \cup {None}, canonical : Ids \cup {0},
     row : PackageRow \cup {None}, id : Ids \cup {0}]
Worker ==
    [pc : WorkerPcs, id : Ids \cup {0}, todo : SUBSET Ids, clone : Ids \cup {0},
     existing : SUBSET (0 .. ErrFile)]
Entry == [id : Ids, package : PackageRow]

\* The types that the steps need, those of TypeOK among them.
Typed ==
    /\ packages \in [Ids -> PackageRow \cup {None}] /\ nextId \in 1 .. MaxId + 1
    /\ req \in [Requests -> Request] /\ worker \in [Workers -> Worker]
    /\ queue \in Seq(Ids) /\ Len(queue) <= QueueSize
    /\ inflight \subseteq Ids /\ scan \subseteq Ids
    /\ journal \in Seq(Entry)

\* i is committed and not a clone.
Root(i) == i \in Committed /\ packages[i].canonical = 0

\* p is what package i was once, or its row then with the files of a later
\* time.
Snapshot(p, i) ==
    /\ p \in PackageRow /\ p.body = packages[i].body /\ p.canonical = packages[i].canonical
    /\ Original \in p.files /\ p.files \subseteq packages[i].files
    /\ p.mode # "raw_large" => p = packages[i]

\* Every request takes one id, which is its own.
Numbered ==
    /\ \A i \in Committed : i < nextId
    /\ \A r \in Requests :
           /\ req[r].id < nextId
           /\ req[r].pc \in {"idle", "cloneRow", "cloneFiles", "create"} => req[r].id = 0
           /\ req[r].pc = "commit" => req[r].id # 0 /\ packages[req[r].id] = None
    /\ \A r, s \in Requests : r # s /\ req[r].id = req[s].id => req[r].id = 0

\* What request r has read is still so, or the package has been unpacked
\* since.
Reads(r) ==
    /\ req[r].pc \in {"cloneRow", "cloneFiles"} => req[r].canonical # 0
    /\ req[r].pc \in {"cloneRow", "cloneFiles", "create", "commit"} =>
           /\ req[r].body \in Bodies
           /\ req[r].canonical # 0 =>
                 Root(req[r].canonical) /\ packages[req[r].canonical].body = req[r].body
    /\ req[r].pc = "idle" => req[r].canonical = 0
    /\ req[r].pc = "commit" => req[r].canonical < req[r].id
    /\ \/ req[r].pc = "cloneFiles"
       \/ req[r].pc \in {"create", "commit"} /\ req[r].canonical # 0
       => Snapshot(req[r].row, req[r].canonical)
    /\ req[r].pc \in {"enqueue", "load", "loadFiles", "journal"} => req[r].id \in Committed
    /\ req[r].pc = "enqueue" => Root(req[r].id)
    /\ req[r].pc \in {"loadFiles", "journal"} => Snapshot(req[r].row, req[r].id)

Reading == \A r \in Requests : Reads(r)

\* A raw package has its original only, a clone no file that its canonical
\* package lacks.
Copies(i, c) ==
    /\ Root(c) /\ c < i /\ packages[c].body = packages[i].body
    /\ packages[i].files \subseteq packages[c].files
    /\ packages[i].mode # "raw_large" => packages[i] = [packages[c] EXCEPT !.canonical = c]

Cloned ==
    \A i \in Committed :
        /\ Original \in packages[i].files
        /\ Root(i) /\ packages[i].mode = "raw_large" => packages[i].files = {Original}
        /\ IsClone(i) => Copies(i, packages[i].canonical)

\* A worker has a package that is not a clone, and its clones are as it has
\* found them.
Works(k) ==
    /\ worker[k].pc = "idle" => worker[k].id = 0
    /\ worker[k].pc # "idle" => worker[k].id \in inflight /\ Root(worker[k].id)
    /\ worker[k].pc = "unpack" => packages[worker[k].id].mode # "single"
    /\ worker[k].pc \in {"clones", "next", "propagate"} =>
           packages[worker[k].id].mode = "zip_with_members"
    /\ worker[k].pc \in {"next", "propagate"} => worker[k].todo \subseteq Clones(worker[k].id)
    /\ worker[k].pc = "propagate" =>
           /\ worker[k].clone \in Clones(worker[k].id)
           /\ packages[worker[k].clone].mode = "raw_large"
           /\ worker[k].existing = packages[worker[k].clone].files

Working == \A k \in Workers : Works(k)

\* Every job that is queued or running is in flight, once.
Queued ==
    /\ \A n \in DOMAIN queue :
           queue[n] \in inflight /\ Root(queue[n]) /\ \A k \in Workers : worker[k].id # queue[n]
    /\ \A m, n \in DOMAIN queue : queue[m] = queue[n] => m = n
    /\ \A i \in scan : Root(i)
    /\ NoConcurrentUnpack

Journaled ==
    \A n \in DOMAIN journal :
        journal[n].id \in Committed /\ Snapshot(journal[n].package, journal[n].id)

IInv == Typed /\ Numbered /\ Reading /\ Cloned /\ Working /\ Queued /\ Journaled

-----------------------------------------------------------------------------
(* Packages over time.                                                     *)

\* What a step may do to the packages there are.
Evolves ==
    \A i \in Committed :
        /\ i \in Committed' /\ packages'[i].body = packages[i].body
        /\ packages'[i].canonical = packages[i].canonical
        /\ packages[i].files \subseteq packages'[i].files
        /\ packages[i].mode # "raw_large" => packages'[i] = packages[i]

\* Ids and constants.
LEMMA Constants ==
    /\ MaxId \in Nat /\ Ids = 1 .. MaxId
    /\ MaxMembers \in Nat /\ ErrFile \in Nat /\ Original \in 0 .. ErrFile
    /\ None \notin PackageRow
    /\ \A b \in Bodies : Kind[b] \in {"xml", "small", "large"} /\ MemberCount[b] \in Nat
                         /\ MemberCount[b] < ErrFile
  BY PackagesAssumption, SMTT(30) DEF Ids, ErrFile, Original

\* What has been read of a package stays true of it.
LEMMA Stays ==
    ASSUME Evolves, NEW i \in Committed
    PROVE  /\ i \in Committed'
           /\ Root(i) => Root(i)'
           /\ \A p : Snapshot(p, i) => Snapshot(p, i)'
  BY DEF Evolves, Root, Snapshot

\* A package that is loaded, row or files, is a snapshot.
LEMMA Loaded ==
    ASSUME Typed, Cloned, NEW i \in Committed
    PROVE  /\ packages[i] \in PackageRow /\ Snapshot(packages[i], i)
           /\ \A p : Snapshot(p, i) => Snapshot([p EXCEPT !.files = packages[i].files], i)
  <1>1. packages[i] \in PackageRow /\ Original \in packages[i].files
    BY DEF Typed, Cloned, Committed
  <1>2. ASSUME NEW p, Snapshot(p, i)
        PROVE  Snapshot([p EXCEPT !.files = packages[i].files], i)
    <2>1. [p EXCEPT !.files = packages[i].files] \in PackageRow
      BY <1>1, <1>2 DEF Snapshot, PackageRow
    <2>2. p.mode # "raw_large" => [p EXCEPT !.files = packages[i].files] = packages[i]
      BY <1>1, <1>2 DEF Snapshot, PackageRow
    <2> QED BY <1>1, <1>2, <2>1, <2>2 DEF Snapshot, PackageRow
  <1> QED BY <1>1, <1>2 DEF Snapshot

\* Packages that do not change evolve.
LEMMA Same ==
    ASSUME packages' = packages
    PROVE  Evolves /\ Committed' = Committed /\ (Cloned => Cloned')
  BY DEF Evolves, Committed, Cloned, Root, IsClone, Copies

\* The snapshots of the journal outlive every step.
LEMMA JournalKept ==
    ASSUME Journaled, Evolves, journal' = journal
    PROVE  Journaled'
  BY Stays DEF Journaled

\* A request that does not move keeps what it has read.
LEMMA ReadsKept ==
    ASSUME Evolves, NEW r \in Requests, Reads(r), req'[r] = req[r]
    PROVE  Reads(r)'
  <1>1. \A i \in Committed : packages'[i].body = packages[i].body
    BY DEF Evolves
  <1>2. \A i : Root(i) => i \in Committed
    BY DEF Root
  <1>3. /\ req[r].pc \in {"cloneRow", "cloneFiles", "create", "commit"} /\ req[r].canonical # 0 =>
             Root(req[r].canonical)' /\ packages'[req[r].canonical].body = req[r].body
        /\ req[r].pc \in {"enqueue", "load", "loadFiles", "journal"} => req[r].id \in Committed'
        /\ req[r].pc = "enqueue" => Root(req[r].id)'
    BY <1>1, <1>2, Stays DEF Reads
  <1>4. \/ req[r].pc = "cloneFiles"
        \/ req[r].pc \in {"create", "commit"} /\ req[r].canonical # 0
        => Snapshot(req[r].row, req[r].canonical)'
    BY <1>2, Stays DEF Reads
  <1>5. req[r].pc \in {"loadFiles", "journal"} => Snapshot(req[r].row, req[r].id)'
    BY Stays DEF Reads
  <1> QED BY <1>3, <1>4, <1>5 DEF Reads

-----------------------------------------------------------------------------
(* The steps of a request.                                                 *)

\* r goes on to q.
Moves(r, q) == q \in Request /\ req' = [req EXCEPT ![r] = q]

\* The other requests stay where they are.
LEMMA Moved ==
    ASSUME Typed, NEW r \in Requests, NEW q, Moves(r, q)
    PROVE  /\ req' \in [Requests -> Request] /\ req'[r] = q
           /\ \A s \in Requests \ {r} : req'[s] = req[s]
  BY DEF Typed, Moves

\* The other requests keep what they have read.
LEMMA OthersRead ==
    ASSUME Typed, Reading, Evolves, NEW r \in Requests, NEW q, Moves(r, q), Reads(r)'
    PROVE  Reading'
  <1>1. ASSUME NEW s \in Requests \ {r} PROVE Reads(s)'
    BY <1>1, Moved, ReadsKept DEF Reading
  <1> QED BY <1>1 DEF Reading

\* A step that takes no id and commits nothing.
LEMMA NumbersKept ==
    ASSUME Typed, Numbered, packages' = packages, nextId' = nextId,
           NEW r \in Requests, NEW q, Moves(r, q), q.id = req[r].id, q.pc # "commit",
           q.pc \in {"idle", "cloneRow", "cloneFiles", "create"} => q.id = 0
    PROVE  Numbered'
  <1>1. req'[r] = q /\ \A s \in Requests \ {r} : req'[s] = req[s]
    BY Moved
  <1>2. \A s \in Requests : req'[s].id = req[s].id
    BY <1>1
  <1>3. Committed' = Committed
    BY DEF Committed
  <1> QED BY <1>1, <1>2, <1>3, SMTT(30) DEF Numbered

\* A step of a request that leaves everything else alone.
LEMMA RequestAlone ==
    ASSUME IInv, UNCHANGED <<packages, nextId, worker, queue, inflight, scan, journal>>,
           NEW r \in Requests, NEW q, Moves(r, q), q.id = req[r].id, q.pc # "commit",
           q.pc \in {"idle", "cloneRow", "cloneFiles", "create"} => q.id = 0, Reads(r)'
    PROVE  IInv'
  <1>1. Typed'
    BY Moved DEF IInv, Typed
  <1>2. Evolves /\ Committed' = Committed /\ Cloned'
    BY Same DEF IInv
  <1>3. Numbered' /\ Reading'
    BY <1>2, NumbersKept, OthersRead DEF IInv
  <1>4. Working' /\ Queued' /\ Journaled'
    BY <1>2, SMTT(30) DEF IInv, Working, Works, Queued, NoConcurrentUnpack, Journaled, Root, Clones, Snapshot
  <1> QED BY <1>1, <1>2, <1>3, <1>4 DEF IInv

\* FindCanonicalPackageID finds a package that is no clone: the canonical
\* package of a clone has the same hash and a lower id.
LEMMA LowestIsRoot ==
    ASSUME Typed, Cloned, NEW b \in Bodies, NEW i \in Lowest(b)
    PROVE  Root(i) /\ i # 0 /\ packages[i].body = b
  <1>1. /\ i \in Committed /\ packages[i].body = b
        /\ \A j \in Committed : packages[j].body = b => i <= j
    BY DEF Lowest
  <1>2. packages[i] \in PackageRow
    BY <1>1 DEF Typed, Committed
  <1>3. ~IsClone(i)
    <2> SUFFICES ASSUME IsClone(i) PROVE FALSE
      OBVIOUS
    <2>1. Copies(i, packages[i].canonical)
      BY <1>1 DEF Cloned
    <2> QED BY <1>1, <1>2, <2>1, Constants, SMTT(30) DEF Copies, Root, PackageRow, Committed
  <1> QED BY <1>1, <1>3, Constants, SMTT(30) DEF Root, IsClone, Committed

\* A request comes and looks for its body.
LEMMA PostStep ==
    ASSUME IInv, NEW r \in Requests, Post(r)
    PROVE  IInv'
  <1>1. PICK b \in Bodies :
          \/ req' = [req EXCEPT ![r].pc = "create", ![r].body = b]
          \/ \E i \in Lowest(b) :
                 req' = [req EXCEPT ![r].pc = "cloneRow", ![r].body = b, ![r].canonical = i]
    BY DEF Post
  <1>2. req[r].pc = "idle" /\ req[r] \in Request /\ req[r].id = 0 /\ req[r].canonical = 0
    BY DEF Post, IInv, Typed, Numbered, Reading, Reads
  <1>3. CASE req' = [req EXCEPT ![r].pc = "create", ![r].body = b]
    <2> DEFINE q == [req[r] EXCEPT !.pc = "create", !.body = b]
    <2>1. /\ q \in Request /\ q.pc = "create" /\ q.body = b /\ q.id = 0 /\ q.canonical = 0
      BY <1>2 DEF Request, RequestPcs
    <2>2. Moves(r, q)
      BY <1>3, <2>1 DEF Moves, IInv, Typed
    <2>3. req'[r] = q
      BY <2>2, Moved DEF IInv
    <2> HIDE DEF q
    <2>4. Reads(r)'
      BY <2>1, <2>3 DEF Reads
    <2> QED BY <1>2, <2>1, <2>2, <2>4, RequestAlone DEF Post
  <1>4. ASSUME NEW i \in Lowest(b),
               req' = [req EXCEPT ![r].pc = "cloneRow", ![r].body = b, ![r].canonical = i]
        PROVE  IInv'
    <2> DEFINE q == [req[r] EXCEPT !.pc = "cloneRow", !.body = b, !.canonical = i]
    <2>1. Root(i) /\ i # 0 /\ packages[i].body = b /\ i \in Ids
      BY LowestIsRoot DEF IInv, Root, Committed
    <2>2. q \in Request /\ q.pc = "cloneRow" /\ q.body = b /\ q.id = 0 /\ q.canonical = i
      BY <1>2, <2>1 DEF Request, RequestPcs
    <2>3. Moves(r, q)
      BY <1>4, <2>2 DEF Moves, IInv, Typed
    <2>4. req'[r] = q
      BY <2>3, Moved DEF IInv
    <2>5. packages' = packages /\ Root(i)'
      BY <2>1 DEF Post, Root, Committed
    <2> HIDE DEF q
    <2>6. Reads(r)'
      BY <2>1, <2>2, <2>4, <2>5 DEF Reads
    <2> QED BY <1>2, <2>2, <2>3, <2>6, RequestAlone DEF Post
  <1> QED BY <1>1, <1>3, <1>4

\* Both queries of GetPackage leave the request with a snapshot.
LEMMA Loads ==
    ASSUME IInv, NEW r \in Requests, NEW i \in Committed, NEW l \in RequestPcs,
           LoadRow(r, i, l) \/ (LoadFiles(r, i, l) /\ Snapshot(req[r].row, i))
    PROVE  \E q : /\ Moves(r, q) /\ q.pc = l /\ q.body = req[r].body
                  /\ q.canonical = req[r].canonical /\ q.id = req[r].id /\ Snapshot(q.row, i)
  <1>1. req[r] \in Request /\ req \in [Requests -> Request]
    BY DEF IInv, Typed
  <1>2. /\ packages[i] \in PackageRow /\ Snapshot(packages[i], i)
        /\ \A p : Snapshot(p, i) => Snapshot([p EXCEPT !.files = packages[i].files], i)
    BY Loaded DEF IInv
  <1>3. CASE LoadRow(r, i, l)
    <2> DEFINE q == [req[r] EXCEPT !.pc = l, !.row = packages[i]]
    <2>1. /\ q \in Request /\ q.pc = l /\ q.row = packages[i]
          /\ q.body = req[r].body /\ q.canonical = req[r].canonical /\ q.id = req[r].id
      BY <1>1, <1>2 DEF Request
    <2>2. req' = [req EXCEPT ![r] = q]
      BY <1>1, <1>3 DEF LoadRow
    <2> QED BY <1>2, <2>1, <2>2 DEF Moves
  <1>4. CASE LoadFiles(r, i, l) /\ Snapshot(req[r].row, i)
    <2> DEFINE p == [req[r].row EXCEPT !.files = packages[i].files]
               q == [req[r] EXCEPT !.pc = l, !.row = p]
    <2>1. Snapshot(p, i)
      BY <1>2, <1>4
    <2>2. p \in PackageRow
      BY <2>1 DEF Snapshot
    <2>3. /\ q \in Request /\ q.pc = l /\ q.row = p
          /\ q.body = req[r].body /\ q.canonical = req[r].canonical /\ q.id = req[r].id
      BY <1>1, <2>2 DEF Request
    <2>4. req' = [req EXCEPT ![r] = q]
      BY <1>1, <1>4 DEF LoadFiles
    <2> QED BY <2>1, <2>3, <2>4 DEF Moves
  <1> QED BY <1>3, <1>4

\* clonePackage loads the canonical package,
LEMMA GetCanonicalStep ==
    ASSUME IInv, NEW r \in Requests, GetCanonical(r)
    PROVE  IInv'
  <1> DEFINE c == req[r].canonical
             l == IF req[r].pc = "cloneRow" THEN "cloneFiles" ELSE "create"
  <1>1. /\ c # 0 /\ Root(c) /\ packages[c].body = req[r].body /\ req[r].body \in Bodies
        /\ req[r].id = 0 /\ c \in Committed
    BY DEF GetCanonical, IInv, Reading, Reads, Numbered, Root
  <1>2. l \in RequestPcs /\ l \in {"cloneFiles", "create"}
    BY DEF RequestPcs
  <1>3. LoadRow(r, c, l) \/ (LoadFiles(r, c, l) /\ Snapshot(req[r].row, c))
    BY DEF GetCanonical, IInv, Reading, Reads
  <1> HIDE DEF l
  <1>4. PICK q : /\ Moves(r, q) /\ q.pc = l /\ q.body = req[r].body
                 /\ q.canonical = c /\ q.id = req[r].id /\ Snapshot(q.row, c)
    BY <1>1, <1>2, <1>3, Loads, SMTT(30)
  <1>5. req'[r] = q
    BY <1>4, Moved DEF IInv
  <1>6. packages' = packages
    BY DEF GetCanonical
  <1>7. Root(c) => Root(q.canonical)'
    BY <1>4, <1>6, Same, SMTT(30) DEF Root
  <1>8. Snapshot(q.row, c) => Snapshot(q.row, q.canonical)'
    BY <1>4, <1>6 DEF Snapshot
  <1>9. Reads(r)'
    BY <1>1, <1>2, <1>4, <1>5, <1>6, <1>7, <1>8 DEF Reads
  <1> QED BY <1>1, <1>2, <1>4, <1>9, RequestAlone DEF GetCanonical

\* and loadAndJournal the package of the request.
LEMMA LoadPackageStep ==
    ASSUME IInv, NEW r \in Requests, LoadPackage(r)
    PROVE  IInv'
  <1> DEFINE i == req[r].id
             l == IF req[r].pc = "load" THEN "loadFiles" ELSE "journal"
  <1>1. i \in Committed
    BY DEF LoadPackage, IInv, Reading, Reads
  <1>2. l \in RequestPcs /\ l \in {"loadFiles", "journal"}
    BY DEF RequestPcs
  <1>3. LoadRow(r, i, l) \/ (LoadFiles(r, i, l) /\ Snapshot(req[r].row, i))
    BY DEF LoadPackage, IInv, Reading, Reads
  <1> HIDE DEF l
  <1>4. PICK q : /\ Moves(r, q) /\ q.pc = l /\ q.body = req[r].body
                 /\ q.canonical = req[r].canonical /\ q.id = i /\ Snapshot(q.row, i)
    BY <1>1, <1>2, <1>3, Loads, SMTT(30)
  <1>5. req'[r] = q
    BY <1>4, Moved DEF IInv
  <1>6. packages' = packages
    BY DEF LoadPackage
  <1>7. q.id \in Committed' /\ Snapshot(q.row, q.id)'
    BY <1>1, <1>4, <1>6 DEF Snapshot, Committed
  <1>8. Reads(r)'
    BY <1>2, <1>4, <1>5, <1>7 DEF Reads
  <1> QED BY <1>2, <1>4, <1>8, RequestAlone DEF LoadPackage

\* Where a request ends there is nothing left of what it has read.
LEMMA Ending ==
    ASSUME Typed, NEW r \in Requests, NEW l \in RequestPcs, End(r, l)
    PROVE  \E q : Moves(r, q) /\ q.pc = l /\ q.id = req[r].id /\ q.canonical = 0
  <1> DEFINE q == [IdleRequest EXCEPT !.pc = l, !.id = req[r].id]
  <1>1. req[r] \in Request
    BY DEF Typed
  <1>2. q \in Request /\ q.pc = l /\ q.id = req[r].id /\ q.canonical = 0
    BY <1>1 DEF Request, IdleRequest
  <1>3. req' = [req EXCEPT ![r] = q]
    BY DEF End
  <1> QED BY <1>2, <1>3 DEF Moves

\* A request that fails leaves the packages alone.
LEMMA RequestFailsStep ==
    ASSUME IInv, NEW r \in Requests, RequestFails(r)
    PROVE  IInv'
  <1>1. PICK q : Moves(r, q) /\ q.pc = "failed" /\ q.id = req[r].id /\ q.canonical = 0
    BY Ending DEF RequestFails, IInv, RequestPcs
  <1>2. req'[r] = q
    BY <1>1, Moved DEF IInv
  <1>3. Reads(r)'
    BY <1>1, <1>2 DEF Reads
  <1> QED BY <1>1, <1>3, RequestAlone DEF RequestFails

\* The journal grows by a snapshot.
LEMMA JournalGrows ==
    ASSUME Typed, Journaled, Evolves, NEW i \in Committed, NEW p, Snapshot(p, i), Journal(i, p)
    PROVE  journal' \in Seq(Entry) /\ Journaled'
  <1> DEFINE e == [id |-> i, package |-> p]
  <1>1. e \in Entry
    BY DEF Entry, Snapshot, Committed
  <1>2. /\ journal' = Append(journal, e) /\ journal \in Seq(Entry)
        /\ journal' \in Seq(Entry) /\ DOMAIN journal' = 1 .. Len(journal) + 1
        /\ Len(journal) \in Nat /\ DOMAIN journal = 1 .. Len(journal)
        /\ journal'[Len(journal) + 1] = e
        /\ \A n \in DOMAIN journal : journal'[n] = journal[n]
    BY <1>1, SMTT(30) DEF Journal, Typed
  <1>3. /\ i \in Committed' /\ Snapshot(p, i)'
        /\ \A n \in DOMAIN journal :
              journal[n].id \in Committed /\ Snapshot(journal[n].package, journal[n].id)
    BY <1>2, Stays DEF Journaled
  <1>4. ASSUME NEW n \in DOMAIN journal'
        PROVE  (journal[n].id \in Committed /\ Snapshot(journal[n].package, journal[n].id))'
    <2>1. CASE n = Len(journal) + 1
      BY <1>2, <1>3, <2>1, SMTT(30)
    <2>2. CASE n \in DOMAIN journal
      BY <1>2, <1>3, <2>2, Stays DEF Journaled
    <2> QED BY <1>2, <1>4, <2>1, <2>2, SMTT(30)
  <1> QED BY <1>2, <1>4 DEF Journaled

\* The other components of the invariant while packages and queue stay.
LEMMA QueueSame ==
    ASSUME Working, Queued, UNCHANGED <<packages, worker, queue, inflight, scan>>
    PROVE  Working' /\ Queued'
  BY Same DEF Working, Works, Queued, NoConcurrentUnpack, Root, Clones

\* A request journals what it has loaded, and ends.
LEMMA JournalPackageStep ==
    ASSUME IInv, NEW r \in Requests, JournalPackage(r)
    PROVE  IInv'
  <1>1. PICK q : Moves(r, q) /\ q.pc = "done" /\ q.id = req[r].id /\ q.canonical = 0
    BY Ending DEF JournalPackage, IInv, RequestPcs
  <1>2. req'[r] = q /\ req' \in [Requests -> Request]
    BY <1>1, Moved DEF IInv
  <1>3. Reads(r)'
    BY <1>1, <1>2 DEF Reads
  <1>4. Evolves /\ Cloned'
    BY Same DEF JournalPackage, IInv
  <1>5. Numbered' /\ Reading'
    BY <1>1, <1>3, <1>4, NumbersKept, OthersRead DEF JournalPackage, IInv
  <1>6. req[r].id \in Committed /\ Snapshot(req[r].row, req[r].id)
    BY DEF JournalPackage, IInv, Reading, Reads
  <1>7. journal' \in Seq(Entry) /\ Journaled'
    BY <1>4, <1>6, JournalGrows DEF JournalPackage, IInv
  <1>8. Typed'
    BY <1>2, <1>7 DEF JournalPackage, IInv, Typed
  <1>9. Working' /\ Queued'
    BY QueueSame DEF JournalPackage, IInv
  <1> QED BY <1>4, <1>5, <1>7, <1>8, <1>9 DEF IInv

\* The id that a request takes is new.
LEMMA CreatePackageStep ==
    ASSUME IInv, NEW r \in Requests, CreatePackage(r)
    PROVE  IInv'
  <1>1. req[r].pc = "create" /\ req[r].id = 0 /\ req[r] \in Request /\ nextId \in Nat
    BY SMTT(30) DEF CreatePackage, IInv, Numbered, Typed
  <1>2. nextId \in Ids
    BY DEF CreatePackage
  <1>3. PICK q : /\ Moves(r, q) /\ q.pc = "commit" /\ q.id = nextId
                 /\ q.canonical = req[r].canonical /\ q.body = req[r].body /\ q.row = req[r].row
    <2> DEFINE q == [req[r] EXCEPT !.pc = "commit", !.id = nextId]
    <2>1. /\ q \in Request /\ q.pc = "commit" /\ q.id = nextId /\ q.canonical = req[r].canonical
          /\ q.body = req[r].body /\ q.row = req[r].row
      BY <1>1, <1>2 DEF Request, RequestPcs
    <2>2. Moves(r, q)
      BY <2>1 DEF Moves, CreatePackage, IInv, Typed
    <2> QED BY <2>1, <2>2
  <1>5. /\ req'[r] = q /\ req' \in [Requests -> Request]
        /\ \A s \in Requests \ {r} : req'[s] = req[s]
    BY <1>3, Moved DEF IInv
  <1>6. /\ packages' = packages /\ nextId' = nextId + 1
        /\ UNCHANGED <<worker, queue, inflight, scan, journal>>
    BY DEF CreatePackage
  <1>7. Evolves /\ Cloned' /\ Committed' = Committed
    BY <1>6, Same DEF IInv
  <1>8. Typed'
    BY <1>2, <1>5, <1>6, Constants, SMTT(30) DEF IInv, Typed
  <1>9. Numbered'
    <2>1. packages[nextId] = None
      BY <1>1, <1>2, SMTT(30) DEF IInv, Numbered, Committed
    <2>2. \A i \in Committed : i < nextId + 1
      BY <1>1, Constants, SMTT(30) DEF IInv, Numbered, Committed
    <2>3. \A s \in Requests : req[s].id \in Nat
      BY Constants, SMTT(30) DEF IInv, Typed, Request
    <2>4. \A s \in Requests : req[s].id < nextId /\ req[s].id < nextId + 1
      <3>1. \A s \in Requests : req[s].id < nextId
        BY DEF IInv, Numbered
      <3>2. nextId \in Nat /\ \A n \in Nat : n < nextId => n < nextId + 1
        BY <1>1, SMTT(30)
      <3> QED BY <2>3, <3>1, <3>2
    <2>5. (\A i \in Committed : i < nextId)'
      BY <1>6, <1>7, <2>2
    <2>6. ASSUME NEW s \in Requests
           PROVE  /\ req'[s].id < nextId'
                  /\ req'[s].pc \in {"idle", "cloneRow", "cloneFiles", "create"} => req'[s].id = 0
                  /\ req'[s].pc = "commit" => req'[s].id # 0 /\ packages'[req'[s].id] = None
      <3>1. CASE s = r
        <4>1. req'[s].id = nextId /\ req'[s].pc = "commit" /\ nextId # 0
          <5>1. nextId # 0
            BY <1>2, Constants, SMTT(30)
          <5> QED BY <1>3, <1>5, <3>1, <5>1
        <4>2. nextId < nextId'
          BY <1>1, <1>6, SMTT(30)
        <4>3. packages'[nextId] = None
          BY <1>6, <2>1
        <4> QED BY <4>1, <4>2, <4>3
      <3>2. CASE s # r
        BY <1>5, <1>6, <2>4, <3>2 DEF IInv, Numbered
      <3> QED BY <3>1, <3>2
    <2>7. \A s, t \in Requests : s # t /\ req'[s].id = req'[t].id => req'[s].id = 0
      <3>1. \A s \in Requests \ {r} : req'[s].id = req[s].id /\ req'[s].id # nextId
        BY <1>1, <1>5, <2>3, <2>4, SMTT(30)
      <3>2. req'[r].id = nextId
        BY <1>3, <1>5
      <3>3. \A s, t \in Requests : s # t /\ req[s].id = req[t].id => req[s].id = 0
        BY DEF IInv, Numbered
      <3> QED BY <3>1, <3>2, <3>3
    <2> QED BY <2>5, <2>6, <2>7 DEF Numbered
  <1>10. Reads(r)'
    <2>1. Reads(r)
      BY DEF IInv, Reading
    <2>2. req[r].canonical # 0 =>
            /\ Root(req[r].canonical) /\ packages[req[r].canonical].body = req[r].body
            /\ Snapshot(req[r].row, req[r].canonical)
            /\ req[r].canonical < nextId
      BY <1>1, <2>1 DEF Reads, Root, IInv, Numbered
    <2>3. q.canonical # 0 => Snapshot(q.row, q.canonical)' /\ Root(q.canonical)'
      BY <1>3, <1>6, <1>7, <2>2 DEF Snapshot, Root
    <2>4. 0 < nextId /\ req[r].body \in Bodies
      BY <1>1, <1>2, <2>1, Constants, SMTT(30) DEF Reads
    <2> QED BY <1>3, <1>5, <1>6, <2>2, <2>3, <2>4 DEF Reads
  <1>11. Reading' /\ Working' /\ Queued' /\ Journaled'
    BY <1>3, <1>6, <1>7, <1>10, OthersRead, QueueSame, JournalKept DEF IInv
  <1> QED BY <1>7, <1>8, <1>9, <1>11 DEF IInv

\* A job is queued only when nobody has it.
LEMMA Enqueued ==
    ASSUME Typed, Working, Queued, NEW i, Root(i), Enqueue(i), scan' \subseteq scan,
           packages' = packages, worker' = worker
    PROVE  /\ queue' \in Seq(Ids) /\ Len(queue') <= QueueSize /\ inflight' \subseteq Ids
           /\ Working' /\ Queued'
  <1>1. i \in Ids /\ i # 0 /\ queue \in Seq(Ids) /\ Len(queue) <= QueueSize /\ QueueSize \in Nat
    BY Constants, PackagesAssumption, SMTT(30) DEF Root, Committed, Typed
  <1>2. CASE UNCHANGED <<queue, inflight>>
    BY <1>2, Same, SMTT(30) DEF Typed, Working, Works, Queued, NoConcurrentUnpack, Root, Clones
  <1>3. CASE /\ i \notin inflight /\ Len(queue) # QueueSize
             /\ queue' = Append(queue, i) /\ inflight' = inflight \cup {i}
    <2>1. /\ queue' \in Seq(Ids) /\ Len(queue') = Len(queue) + 1 /\ Len(queue) \in Nat
          /\ DOMAIN queue' = 1 .. Len(queue) + 1 /\ DOMAIN queue = 1 .. Len(queue)
          /\ queue'[Len(queue) + 1] = i
          /\ \A n \in DOMAIN queue : queue'[n] = queue[n]
      BY <1>1, <1>3, SMTT(30)
    <2>2. \A k \in Workers : worker[k].id # i
      BY <1>1, <1>3 DEF Working, Works
    <2>3. \A n \in DOMAIN queue : queue[n] # i
      BY <1>3 DEF Queued
    <2>4. \A j : Root(j) => Root(j)'
      BY Same DEF Root
    <2>5. Working'
      BY <1>3, <2>4, Same DEF Working, Works, Clones
    <2>6. ASSUME NEW n \in DOMAIN queue'
          PROVE  /\ queue'[n] \in inflight' /\ Root(queue'[n])
                 /\ \A k \in Workers : worker'[k].id # queue'[n]
                 /\ \A m \in DOMAIN queue' : queue'[m] = queue'[n] => m = n
      BY <1>3, <2>1, <2>2, <2>3, <2>6, SMTT(30) DEF Queued
    <2>7. \A n \in DOMAIN queue' : Root(queue[n])'
      BY <2>4, <2>6
    <2>8. (\A j \in scan : Root(j))' /\ NoConcurrentUnpack'
      BY <2>4 DEF Queued, NoConcurrentUnpack
    <2>9. Queued'
      BY <2>6, <2>7, <2>8 DEF Queued
    <2>10. Len(queue') <= QueueSize
      <3>1. Len(queue) < QueueSize
        <4>1. Len(queue) # QueueSize
          BY <1>3
        <4>2. Len(queue) \in Nat
          BY <2>1
        <4>3. Len(queue) <= QueueSize /\ QueueSize \in Nat
          BY <1>1
        <4> QED BY <4>1, <4>2, <4>3, SMTT(30)
      <3>2. Len(queue') = Len(queue) + 1 /\ Len(queue) \in Nat
        BY <2>1
      <3> QED BY <1>1, <3>1, <3>2, SMTT(30)
    <2>11. inflight' \subseteq Ids
      BY <1>1, <1>3 DEF Typed
    <2> QED BY <2>1, <2>5, <2>9, <2>10, <2>11
  <1> QED BY <1>2, <1>3 DEF Enqueue

\* The next step after a commit.
LEMMA LoadingPc == Loading \in {"load", "done"} /\ Loading \in RequestPcs
  BY DEF Loading, RequestPcs

\* A new package that is not a clone goes to the queue.
LEMMA EnqueueNewStep ==
    ASSUME IInv, NEW r \in Requests, EnqueueNew(r)
    PROVE  IInv'
  <1>1. req[r] \in Request /\ req[r].id \in Committed /\ Root(req[r].id)
    BY DEF EnqueueNew, IInv, Typed, Reading, Reads
  <1>2. PICK q : Moves(r, q) /\ q.pc = Loading /\ q.id = req[r].id
    <2> DEFINE q == [req[r] EXCEPT !.pc = Loading]
    <2>1. q \in Request /\ q.pc = Loading /\ q.id = req[r].id
      BY <1>1, LoadingPc DEF Request
    <2>2. Moves(r, q)
      BY <2>1 DEF Moves, EnqueueNew, Advance, IInv, Typed
    <2> QED BY <2>1, <2>2
  <1>3. req'[r] = q /\ req' \in [Requests -> Request]
    BY <1>2, Moved DEF IInv
  <1>4. packages' = packages /\ UNCHANGED <<nextId, worker, scan, journal>> /\ Enqueue(req[r].id)
    BY DEF EnqueueNew
  <1>5. Evolves /\ Cloned' /\ Committed' = Committed
    BY <1>4, Same DEF IInv
  <1>6. Reads(r)'
    BY <1>1, <1>2, <1>3, <1>5, LoadingPc DEF Reads
  <1>7. Numbered' /\ Reading' /\ Journaled'
    BY <1>2, <1>4, <1>5, <1>6, LoadingPc, NumbersKept, OthersRead, JournalKept DEF IInv
  <1>8. /\ queue' \in Seq(Ids) /\ Len(queue') <= QueueSize /\ inflight' \subseteq Ids
        /\ Working' /\ Queued'
    BY <1>1, <1>4, Enqueued DEF IInv
  <1>9. Typed'
    BY <1>3, <1>4, <1>8 DEF IInv, Typed
  <1> QED BY <1>5, <1>7, <1>8, <1>9 DEF IInv

\* What a request commits under a new id i: a package of its own, or a copy of
\* what it has read of package c.
Fits(p, i) ==
    /\ p \in PackageRow /\ Original \in p.files
    /\ p.canonical = 0 /\ p.mode = "raw_large" => p.files = {Original}
    /\ p.canonical # 0 =>
          /\ Root(p.canonical) /\ p.canonical < i /\ packages[p.canonical].body = p.body
          /\ p.files \subseteq packages[p.canonical].files
          /\ p.mode # "raw_large" => p = [packages[p.canonical] EXCEPT !.canonical = p.canonical]

\* Every package that a request may commit fits.
LEMMA NewFits ==
    ASSUME IInv, NEW r \in Requests, req[r].pc = "commit", NEW p \in NewPackage(r)
    PROVE  Fits(p, req[r].id)
  <1> DEFINE b == req[r].body  c == req[r].canonical  row == req[r].row
  <1>1. /\ b \in Bodies /\ c \in Ids \cup {0} /\ c < req[r].id
        /\ c # 0 => Root(c) /\ packages[c].body = b /\ Snapshot(row, c)
    BY DEF IInv, Typed, Request, Reading, Reads
  <1>2. CASE c # 0
    <2>1. p = Package(b, c, row.mode, row.count, row.err, row.files)
      BY <1>2 DEF NewPackage
    <2>2. row \in PackageRow /\ Snapshot(row, c) /\ Root(c) /\ packages[c].body = b
      BY <1>1, <1>2 DEF Snapshot
    <2>3. /\ p \in PackageRow /\ p.canonical = c /\ p.body = b /\ p.files = row.files
          /\ p.mode = row.mode
      BY <1>1, <2>1, <2>2 DEF Package, PackageRow
    <2>4. p.mode # "raw_large" => p = [packages[c] EXCEPT !.canonical = c]
      <3> SUFFICES ASSUME row.mode # "raw_large" PROVE p = [packages[c] EXCEPT !.canonical = c]
        BY <2>3
      <3>1. row = packages[c] /\ row.body = b
        BY <2>2 DEF Snapshot
      <3> QED BY <2>1, <2>2, <3>1, SMTT(30) DEF Package, PackageRow
    <2> QED BY <1>1, <1>2, <2>2, <2>3, <2>4 DEF Fits, Snapshot
  <1>3. CASE c = 0
    <2>1. /\ MemberCount[b] \in Nat /\ MemberCount[b] < ErrFile /\ ErrFile \in Nat
          /\ Kind[b] \in {"xml", "small", "large"}
      BY <1>1, Constants
    <2>2. \A k \in 0 .. MemberCount[b] - 1 : SomeFiles(k) \subseteq 0 .. ErrFile /\ Original \in SomeFiles(k)
      BY <2>1, SMTT(30) DEF SomeFiles, Original
    <2>3. /\ AllFiles(b) \subseteq 0 .. ErrFile /\ Original \in AllFiles(b)
          /\ {Original} \subseteq 0 .. ErrFile /\ {Original, ErrFile} \subseteq 0 .. ErrFile
      BY <2>1, SMTT(30) DEF AllFiles, Original
    <2>4. ASSUME NEW mode \in {"single", "zip_with_members", "raw_large"}, NEW n \in Nat,
                 NEW e \in BOOLEAN, NEW fs \in SUBSET (0 .. ErrFile), Original \in fs,
                 mode = "raw_large" => fs = {Original}, p = Package(b, 0, mode, n, e, fs)
          PROVE  Fits(p, req[r].id)
      <3>1. p \in PackageRow /\ p.canonical = 0 /\ p.files = fs /\ p.mode = mode
        BY <1>1, <2>4 DEF Package, PackageRow
      <3> QED BY <2>4, <3>1 DEF Fits
    <2>5. CASE Kind[b] = "xml"
      <3>1. p = Package(b, 0, "single", 1, FALSE, {Original})
        BY <1>3, <2>5 DEF NewPackage
      <3> QED BY <2>3, <2>4, <3>1
    <2>6. CASE Kind[b] = "large"
      <3>1. p = Package(b, 0, "raw_large", 1, FALSE, {Original})
        BY <1>3, <2>6 DEF NewPackage
      <3> QED BY <2>3, <2>4, <3>1
    <2>7. CASE Kind[b] = "small"
      <3>1. p \in SmallZip(b)
        BY <1>3, <2>7 DEF NewPackage
      <3>2. \/ p = Package(b, 0, "zip_with_members", 2, TRUE, {Original, ErrFile})
            \/ p = Package(b, 0, "zip_with_members", 1 + MemberCount[b], FALSE, AllFiles(b))
            \/ \E k \in 0 .. MemberCount[b] - 1 :
                   p = Package(b, 0, "zip_with_members", 1 + MemberCount[b], FALSE, SomeFiles(k))
        BY <3>1 DEF SmallZip
      <3>3. 1 + MemberCount[b] \in Nat
        BY <2>1, SMTT(30)
      <3> QED BY <2>2, <2>3, <2>4, <3>2, <3>3
    <2> QED BY <2>1, <2>5, <2>6, <2>7
  <1> QED BY <1>2, <1>3

\* A package that fits is added to the others.
LEMMA Adds ==
    ASSUME Typed, Cloned, NEW i \in Ids, packages[i] = None, NEW p, Fits(p, i),
           packages' = [packages EXCEPT ![i] = p]
    PROVE  /\ packages' \in [Ids -> PackageRow \cup {None}] /\ packages'[i] = p
           /\ Committed' = Committed \cup {i} /\ i \notin Committed
           /\ \A j \in Ids \ {i} : packages'[j] = packages[j]
           /\ Evolves /\ Cloned'
  <1>1. p \in PackageRow /\ p # None
    BY Constants DEF Fits
  <1>2. /\ packages' \in [Ids -> PackageRow \cup {None}] /\ packages'[i] = p
        /\ \A j \in Ids \ {i} : packages'[j] = packages[j]
    BY <1>1 DEF Typed
  <1>3. Committed' = Committed \cup {i} /\ i \notin Committed
    BY <1>1, <1>2 DEF Committed
  <1>4. \A j \in Committed : packages'[j] = packages[j] /\ j \in Ids \ {i}
    BY <1>2, <1>3 DEF Committed
  <1>5. Evolves
    BY <1>3, <1>4 DEF Evolves
  <1>6. \A j \in Committed : Root(j)' <=> Root(j)
    BY <1>3, <1>4 DEF Root
  <1>7. ASSUME NEW j \in Committed'
        PROVE  /\ Original \in packages'[j].files
               /\ Root(j)' /\ packages'[j].mode = "raw_large" => packages'[j].files = {Original}
               /\ packages'[j].canonical # 0 => Copies(j, packages[j].canonical)'
    <2>1. CASE j = i
      <3>1. /\ Original \in packages'[j].files
            /\ Root(j)' /\ packages'[j].mode = "raw_large" => packages'[j].files = {Original}
        BY <1>2, <2>1 DEF Root, Fits
      <3>2. ASSUME p.canonical # 0 PROVE Copies(j, packages[j].canonical)'
        <4>1. /\ Root(p.canonical) /\ p.canonical < i /\ packages[p.canonical].body = p.body
              /\ p.files \subseteq packages[p.canonical].files
              /\ p.mode # "raw_large" => p = [packages[p.canonical] EXCEPT !.canonical = p.canonical]
          BY <3>2 DEF Fits
        <4>2. p.canonical \in Committed /\ packages'[p.canonical] = packages[p.canonical]
          BY <1>4, <4>1 DEF Root
        <4>3. Root(p.canonical)'
          BY <1>6, <4>1, <4>2
        <4> QED BY <1>2, <2>1, <4>1, <4>2, <4>3 DEF Copies
      <3> QED BY <1>2, <2>1, <3>1, <3>2
    <2>2. CASE j \in Committed
      <3>1. packages'[j] = packages[j]
        BY <1>4, <2>2
      <3>2. /\ Original \in packages'[j].files
            /\ Root(j)' /\ packages'[j].mode = "raw_large" => packages'[j].files = {Original}
        BY <1>6, <2>2, <3>1 DEF Cloned
      <3>3. ASSUME packages[j].canonical # 0 PROVE Copies(j, packages[j].canonical)'
        <4>1. Copies(j, packages[j].canonical) /\ packages[j].canonical \in Committed
          BY <2>2, <3>3 DEF Cloned, IsClone, Copies, Root
        <4>2. packages'[packages[j].canonical] = packages[packages[j].canonical]
          BY <1>4, <4>1
        <4>3. \A c \in Committed : Root(c) => Root(c)'
          BY <1>6
        <4> QED BY <3>1, <4>1, <4>2, <4>3 DEF Copies
      <3> QED BY <3>1, <3>2, <3>3
    <2> QED BY <1>3, <2>1, <2>2
  <1>8. Cloned'
    BY <1>7 DEF Cloned, IsClone
  <1> QED BY <1>2, <1>3, <1>5, <1>8

\* The queue and the workers do not notice.
LEMMA AddsUnseen ==
    ASSUME Typed, Working, Queued, Evolves, UNCHANGED <<worker, queue, inflight, scan>>,
           \A j \in Committed : packages'[j] = packages[j]
    PROVE  Working' /\ Queued'
  <1>1. \A j \in Committed : j \in Committed' /\ packages'[j] = packages[j]
    BY DEF Evolves
  <1>2. \A j : Root(j) => Root(j)'
    BY <1>1 DEF Root
  <1>3. \A j : Clones(j) \subseteq Clones(j)'
    BY <1>1 DEF Clones
  <1>4. Queued'
    BY <1>2 DEF Queued, NoConcurrentUnpack
  <1>5. ASSUME NEW k \in Workers PROVE Works(k)'
    <2>1. Works(k) /\ worker'[k] = worker[k]
      BY DEF Working
    <2>2. worker[k].pc # "idle" =>
             Root(worker[k].id) /\ packages'[worker[k].id] = packages[worker[k].id]
      BY <1>1, <2>1 DEF Works, Root
    <2>3. worker[k].pc = "propagate" => packages'[worker[k].clone] = packages[worker[k].clone]
      BY <1>1, <2>1 DEF Works, Clones
    <2>4. worker[k].pc # "idle" => Root(worker[k].id)'
      BY <1>2, <2>1, <2>2
    <2>5. /\ worker[k].pc \in {"next", "propagate"} => (worker[k].todo \subseteq Clones(worker[k].id))'
          /\ worker[k].pc = "propagate" => (worker[k].clone \in Clones(worker[k].id))'
      BY <1>3, <2>1 DEF Works
    <2> QED BY <2>1, <2>2, <2>3, <2>4, <2>5 DEF Works
  <1> QED BY <1>4, <1>5 DEF Working

\* The commit of a request.
LEMMA CommitPackageStep ==
    ASSUME IInv, NEW r \in Requests, CommitPackage(r)
    PROVE  IInv' /\ Evolves
  <1>1. /\ req[r].pc = "commit" /\ req[r] \in Request /\ req[r].id \in Ids
        /\ packages[req[r].id] = None /\ req[r].id < nextId
    BY DEF CommitPackage, IInv, Typed, Request, Numbered
  <1>2. PICK p \in NewPackage(r) :
          /\ packages' = [packages EXCEPT ![req[r].id] = p]
          /\ \/ End(r, IF p.canonical = 0 /\ p.mode = "raw_large" THEN "enqueue" ELSE Loading)
             \/ End(r, "failed")
    BY DEF CommitPackage
  <1>3. Fits(p, req[r].id)
    BY <1>1, NewFits
  <1>4. /\ packages' \in [Ids -> PackageRow \cup {None}] /\ packages'[req[r].id] = p
        /\ Committed' = Committed \cup {req[r].id} /\ req[r].id \notin Committed
        /\ \A j \in Ids \ {req[r].id} : packages'[j] = packages[j]
        /\ Evolves /\ Cloned'
    BY <1>1, <1>2, <1>3, Adds DEF IInv
  <1>5. PICK q : /\ Moves(r, q) /\ q.id = req[r].id /\ q.canonical = 0
                 /\ q.pc \in {"enqueue", "load", "done", "failed"}
                 /\ q.pc = "enqueue" => p.canonical = 0
    <2>1. PICK l : /\ End(r, l) /\ l \in RequestPcs /\ l \in {"enqueue", "load", "done", "failed"}
                   /\ l = "enqueue" => p.canonical = 0
      BY <1>2, LoadingPc, SMTT(30) DEF RequestPcs
    <2> QED BY <2>1, Ending DEF IInv
  <1>6. /\ req'[r] = q /\ req' \in [Requests -> Request]
        /\ \A s \in Requests \ {r} : req'[s] = req[s]
    BY <1>5, Moved DEF IInv
  <1>7. UNCHANGED <<nextId, worker, queue, inflight, scan, journal>>
    BY DEF CommitPackage
  <1>8. Typed'
    BY <1>4, <1>6, <1>7 DEF IInv, Typed
  <1>9. Numbered'
    <2>1. \A s \in Requests : req'[s].id = req[s].id
      BY <1>5, <1>6
    <2>2. (\A i \in Committed : i < nextId)'
      BY <1>1, <1>4, <1>7 DEF IInv, Numbered
    <2>3. ASSUME NEW s \in Requests, req'[s].pc = "commit"
          PROVE  req'[s].id # 0 /\ packages'[req'[s].id] = None
      <3>1. s # r /\ req'[s] = req[s]
        BY <1>5, <1>6, <2>3
      <3>2. req[s].id # 0 /\ packages[req[s].id] = None /\ req[s].id # req[r].id
        BY <2>3, <3>1 DEF IInv, Numbered
      <3>3. req[s].id \in Ids
        BY <3>2 DEF IInv, Typed, Request
      <3> QED BY <1>4, <3>1, <3>2, <3>3
    <2>4. \A s \in Requests :
             req'[s].pc \in {"idle", "cloneRow", "cloneFiles", "create"} => req'[s].id = 0
      BY <1>5, <1>6 DEF IInv, Numbered
    <2> QED BY <1>7, <2>1, <2>2, <2>3, <2>4, SMTT(30) DEF IInv, Numbered
  <1>10. Reads(r)'
    BY <1>4, <1>5, <1>6 DEF Reads, Root
  <1>11. Reading' /\ Journaled'
    BY <1>4, <1>5, <1>7, <1>10, OthersRead, JournalKept DEF IInv
  <1>12. \A j \in Committed : packages'[j] = packages[j]
    BY <1>4 DEF Committed
  <1>13. Working' /\ Queued'
    BY <1>4, <1>7, <1>12, AddsUnseen DEF IInv
  <1> QED BY <1>4, <1>8, <1>9, <1>11, <1>13 DEF IInv

-----------------------------------------------------------------------------
(* The steps of a worker.                                                  *)

\* k goes on to w with the same package.
Goes(k, w) ==
    /\ w \in Worker /\ worker' = [worker EXCEPT ![k] = w]
    /\ worker[k].pc # "idle" /\ w.pc # "idle" /\ w.id = worker[k].id

\* The other workers stay where they are.
LEMMA Gone ==
    ASSUME Typed, NEW k \in Workers, NEW w, Goes(k, w)
    PROVE  /\ worker' \in [Workers -> Worker] /\ worker'[k] = w
           /\ \A l \in Workers \ {k} : worker'[l] = worker[l]
           /\ \A l \in Workers : worker'[l].id = worker[l].id
           /\ \A l \in Workers : worker'[l].pc = "idle" <=> worker[l].pc = "idle"
  <1>1. /\ worker' \in [Workers -> Worker] /\ worker'[k] = w
        /\ \A l \in Workers \ {k} : worker'[l] = worker[l]
    BY DEF Typed, Goes
  <1> QED BY <1>1 DEF Goes

\* The queue does not notice.
LEMMA QueueKept ==
    ASSUME Typed, Queued, Evolves, UNCHANGED <<queue, inflight, scan>>,
           NEW k \in Workers, NEW w, Goes(k, w)
    PROVE  Queued'
  <1>1. \A i : Root(i) => Root(i)'
    BY Stays DEF Root
  <1>2. /\ \A l \in Workers : worker'[l].id = worker[l].id
        /\ \A l \in Workers : worker'[l].pc = "idle" <=> worker[l].pc = "idle"
    BY Gone
  <1>3. NoConcurrentUnpack'
    BY <1>2 DEF Queued, NoConcurrentUnpack
  <1>4. \A n \in DOMAIN queue : queue[n] \in inflight /\ Root(queue[n]) /\ \A l \in Workers : worker'[l].id # queue[n]
    BY <1>2 DEF Queued
  <1>5. (\A n \in DOMAIN queue : Root(queue[n]))' /\ (\A i \in scan : Root(i))'
    BY <1>1 DEF Queued
  <1> QED BY <1>3, <1>4, <1>5 DEF Queued

\* Requests that do not move, while no id is taken and none is committed.
LEMMA RequestsKept ==
    ASSUME Typed, Numbered, Reading, Evolves, Committed' = Committed,
           UNCHANGED <<req, nextId>>, packages' \in [Ids -> PackageRow \cup {None}]
    PROVE  Numbered' /\ Reading'
  <1>1. Reading'
    BY ReadsKept DEF Reading
  <1>2. \A i \in Ids : packages[i] = None => packages'[i] = None
    BY DEF Committed
  <1>3. \A r \in Requests : req[r].pc = "commit" => req[r].id \in Ids
    BY DEF Typed, Request, Numbered
  <1> QED BY <1>1, <1>2, <1>3 DEF Numbered

\* A worker that does not move, while no package changes.
LEMMA WorksKept ==
    ASSUME packages' = packages, NEW l \in Workers, Works(l), worker'[l] = worker[l],
           worker[l].pc # "idle" => worker[l].id \in inflight'
    PROVE  Works(l)'
  <1>1. \A i : (Root(i)' <=> Root(i)) /\ Clones(i)' = Clones(i)
    BY DEF Root, Clones, Committed
  <1>2. worker[l].pc # "idle" => Root(worker[l].id)'
    BY <1>1 DEF Works
  <1>3. /\ worker[l].pc \in {"next", "propagate"} => (worker[l].todo \subseteq Clones(worker[l].id))'
        /\ worker[l].pc = "propagate" => (worker[l].clone \in Clones(worker[l].id))'
    BY <1>1 DEF Works
  <1> QED BY <1>2, <1>3 DEF Works

\* A step of a worker that leaves everything else alone.
LEMMA WorkerAlone ==
    ASSUME IInv, UNCHANGED <<packages, nextId, req, queue, inflight, scan, journal>>,
           NEW k \in Workers, NEW w, Goes(k, w), Works(k)'
    PROVE  IInv'
  <1>1. Evolves /\ Committed' = Committed /\ Cloned'
    BY Same DEF IInv
  <1>2. worker' \in [Workers -> Worker] /\ \A l \in Workers \ {k} : worker'[l] = worker[l]
    BY Gone DEF IInv
  <1>3. Typed'
    BY <1>2 DEF IInv, Typed
  <1>4. Numbered' /\ Reading' /\ Journaled' /\ Queued'
    BY <1>1, RequestsKept, JournalKept, QueueKept DEF IInv, Typed
  <1>5. \A l \in Workers \ {k} : Works(l)'
    <2> SUFFICES ASSUME NEW l \in Workers \ {k} PROVE Works(l)'
      OBVIOUS
    <2>1. Works(l) /\ worker'[l] = worker[l]
      BY <1>2 DEF IInv, Working
    <2>2. worker[l].pc # "idle" => worker[l].id \in inflight'
      BY <2>1 DEF Works
    <2> QED BY <2>1, <2>2, WorksKept
  <1> QED BY <1>1, <1>3, <1>4, <1>5 DEF IInv, Working

\* The facts on a worker that has a job.
LEMMA Busy ==
    ASSUME IInv, NEW k \in Workers, worker[k].pc # "idle"
    PROVE  /\ worker[k] \in Worker /\ worker[k].id \in Ids /\ worker[k].id \in inflight
           /\ Root(worker[k].id) /\ worker[k].id \in Committed
           /\ packages[worker[k].id] \in PackageRow
  BY DEF IInv, Typed, Working, Works, Root, Committed

\* UnpackLargePackage looks at the package.
LEMMA GetPackageStep ==
    ASSUME IInv, NEW k \in Workers, GetPackage(k)
    PROVE  IInv'
  <1> DEFINE mode == packages[worker[k].id].mode
  <1>1. worker[k].pc = "get"
    BY DEF GetPackage
  <1>2. /\ worker[k] \in Worker /\ worker[k].id \in inflight /\ Root(worker[k].id)
        /\ mode \in {"single", "zip_with_members", "raw_large"}
    BY <1>1, Busy DEF PackageRow
  <1>3. PICK l : /\ worker' = [worker EXCEPT ![k].pc = l]
                 /\ \/ l = "clones" /\ mode = "zip_with_members"
                    \/ l = "unpack" /\ mode = "raw_large"
                    \/ l = "finish"
    BY <1>2 DEF GetPackage
  <1>4. PICK w : Goes(k, w) /\ w.pc = l /\ w.id = worker[k].id
    <2> DEFINE w == [worker[k] EXCEPT !.pc = l]
    <2>1. w \in Worker /\ w.pc = l /\ w.id = worker[k].id /\ l # "idle"
      BY <1>2, <1>3 DEF Worker, WorkerPcs
    <2>2. Goes(k, w)
      BY <1>1, <1>3, <2>1 DEF Goes, IInv, Typed
    <2> QED BY <2>1, <2>2
  <1>5. worker'[k] = w /\ packages' = packages /\ inflight' = inflight
    BY <1>4, Gone DEF IInv, GetPackage
  <1>6. Root(w.id)'
    BY <1>2, <1>4, <1>5 DEF Root, Committed
  <1>7. Works(k)'
    BY <1>2, <1>3, <1>4, <1>5, <1>6, SMTT(30) DEF Works
  <1> QED BY <1>4, <1>7, WorkerAlone DEF GetPackage

\* propagateUnpackToClones asks for the clones there are.
LEMMA ListClonesStep ==
    ASSUME IInv, NEW k \in Workers, ListClones(k)
    PROVE  IInv'
  <1>1. worker[k].pc = "clones"
    BY DEF ListClones
  <1>2. /\ worker[k] \in Worker /\ worker[k].id \in inflight /\ Root(worker[k].id)
        /\ packages[worker[k].id].mode = "zip_with_members"
    BY <1>1, Busy DEF IInv, Working, Works
  <1>3. PICK w : /\ Goes(k, w) /\ w.pc = "next" /\ w.id = worker[k].id
                 /\ w.todo = Clones(worker[k].id)
    <2> DEFINE w == [worker[k] EXCEPT !.pc = "next", !.todo = Clones(worker[k].id)]
    <2>1. Clones(worker[k].id) \in SUBSET Ids
      BY DEF Clones, Committed
    <2>2. w \in Worker /\ w.pc = "next" /\ w.id = worker[k].id /\ w.todo = Clones(worker[k].id)
      BY <1>2, <2>1 DEF Worker, WorkerPcs
    <2>3. Goes(k, w)
      BY <1>1, <2>2 DEF Goes, IInv, Typed, ListClones
    <2> QED BY <2>2, <2>3
  <1>4. worker'[k] = w /\ packages' = packages /\ inflight' = inflight
    BY <1>3, Gone DEF IInv, ListClones
  <1>5. Root(w.id)' /\ w.todo \subseteq Clones(w.id)'
    BY <1>2, <1>3, <1>4 DEF Root, Committed, Clones
  <1>6. Works(k)'
    BY <1>2, <1>3, <1>4, <1>5 DEF Works
  <1> QED BY <1>3, <1>6, WorkerAlone DEF ListClones

\* The next clone is read, or passed over.
LEMMA GetCloneStep ==
    ASSUME IInv, NEW k \in Workers, GetClone(k)
    PROVE  IInv'
  <1>1. worker[k].pc = "next" /\ packages' = packages /\ inflight' = inflight
    BY DEF GetClone
  <1>2. /\ worker[k] \in Worker /\ worker[k].id \in inflight /\ Root(worker[k].id)
        /\ packages[worker[k].id].mode = "zip_with_members"
        /\ worker[k].todo \subseteq Clones(worker[k].id) /\ worker \in [Workers -> Worker]
    BY <1>1, Busy DEF IInv, Working, Works, Typed
  <1>3. PICK c \in worker[k].todo :
          IF packages[c].mode = "raw_large"
          THEN worker' = [worker EXCEPT ![k].pc = "propagate", ![k].todo = @ \ {c},
                                        ![k].clone = c, ![k].existing = packages[c].files]
          ELSE worker' = [worker EXCEPT ![k].todo = @ \ {c}]
    BY DEF GetClone
  <1>4. c \in Clones(worker[k].id) /\ c \in Ids /\ packages[c] \in PackageRow
    BY <1>2, <1>3 DEF Clones, Committed, IInv, Typed
  <1>5. packages[c].files \in SUBSET (0 .. ErrFile)
    BY <1>4 DEF PackageRow
  <1>6. PICK w : /\ Goes(k, w) /\ w.id = worker[k].id /\ w.todo \subseteq worker[k].todo
                 /\ w.pc \in {"next", "propagate"}
                 /\ w.pc = "propagate" =>
                       /\ w.clone = c /\ w.existing = packages[c].files
                       /\ packages[c].mode = "raw_large"
    <2>1. CASE packages[c].mode = "raw_large"
      <3> DEFINE w == [worker[k] EXCEPT !.pc = "propagate", !.todo = worker[k].todo \ {c}, !.clone = c,
                                        !.existing = packages[c].files]
      <3>1. worker' = [worker EXCEPT ![k] = w]
        BY <1>2, <1>3, <2>1
      <3>2. /\ w \in Worker /\ w.pc = "propagate" /\ w.id = worker[k].id /\ w.clone = c
            /\ w.todo \subseteq worker[k].todo /\ w.existing = packages[c].files
        BY <1>2, <1>4, <1>5 DEF Worker, WorkerPcs
      <3> HIDE DEF w
      <3> QED BY <1>1, <2>1, <3>1, <3>2 DEF Goes
    <2>2. CASE packages[c].mode # "raw_large"
      <3> DEFINE w == [worker[k] EXCEPT !.todo = worker[k].todo \ {c}]
      <3>1. worker' = [worker EXCEPT ![k] = w]
        BY <1>2, <1>3, <2>2
      <3>2. /\ w \in Worker /\ w.pc = "next" /\ w.id = worker[k].id
            /\ w.todo \subseteq worker[k].todo
        BY <1>1, <1>2 DEF Worker
      <3> HIDE DEF w
      <3> QED BY <1>1, <3>1, <3>2 DEF Goes
    <2> QED BY <2>1, <2>2
  <1>7. worker'[k] = w
    BY <1>6, Gone DEF IInv
  <1>8. /\ Root(w.id)' /\ w.todo \subseteq Clones(w.id)'
        /\ w.pc = "propagate" => w.clone \in Clones(w.id)'
    BY <1>1, <1>2, <1>4, <1>6 DEF Root, Committed, Clones
  <1>9. Works(k)'
    BY <1>1, <1>2, <1>6, <1>7, <1>8 DEF Works
  <1> QED BY <1>6, <1>9, WorkerAlone DEF GetClone

\* A job that ends, well or not, keeps its place until the worker is done.
LEMMA Finishing ==
    ASSUME IInv, NEW k \in Workers, worker[k].pc # "idle",
           worker' = [worker EXCEPT ![k].pc = "finish"], UNCHANGED <<packages, inflight>>
    PROVE  \E w : Goes(k, w) /\ Works(k)'
  <1>1. worker[k] \in Worker /\ worker[k].id \in inflight /\ Root(worker[k].id)
    BY Busy
  <1>2. PICK w : Goes(k, w) /\ w.pc = "finish" /\ w.id = worker[k].id
    <2> DEFINE w == [worker[k] EXCEPT !.pc = "finish"]
    <2>1. w \in Worker /\ w.pc = "finish" /\ w.id = worker[k].id
      BY <1>1 DEF Worker, WorkerPcs
    <2>2. Goes(k, w)
      BY <2>1 DEF Goes, IInv, Typed
    <2> QED BY <2>1, <2>2
  <1>3. worker'[k] = w
    BY <1>2, Gone DEF IInv
  <1>4. Root(w.id)'
    BY <1>1, <1>2 DEF Root, Committed
  <1>5. Works(k)'
    BY <1>1, <1>2, <1>3, <1>4, SMTT(30) DEF Works
  <1> QED BY <1>2, <1>5

\* The job fails,
LEMMA JobFailsStep ==
    ASSUME IInv, NEW k \in Workers, JobFails(k)
    PROVE  IInv'
  <1>1. \E w : Goes(k, w) /\ Works(k)'
    BY Finishing DEF JobFails
  <1> QED BY <1>1, WorkerAlone DEF JobFails

\* or ends with an entry in the journal.
LEMMA JournalUnpackedStep ==
    ASSUME IInv, NEW k \in Workers, JournalUnpacked(k)
    PROVE  IInv'
  <1>1. PICK w : Goes(k, w) /\ Works(k)'
    BY Finishing DEF JournalUnpacked
  <1>2. Evolves /\ Committed' = Committed /\ Cloned'
    BY Same DEF IInv, JournalUnpacked
  <1>3. worker[k].id \in Committed /\ Snapshot(packages[worker[k].id], worker[k].id)
    BY Busy, Loaded DEF IInv, JournalUnpacked
  <1>4. journal' \in Seq(Entry) /\ Journaled'
    <2>1. CASE Journal(worker[k].id, packages[worker[k].id])
      BY <1>2, <1>3, <2>1, JournalGrows DEF IInv
    <2>2. CASE journal' = journal
      BY <1>2, <2>2, JournalKept DEF IInv, Typed
    <2> QED BY <2>1, <2>2 DEF JournalUnpacked
  <1>5. worker' \in [Workers -> Worker] /\ \A l \in Workers \ {k} : worker'[l] = worker[l]
    BY <1>1, Gone DEF IInv
  <1>6. Typed'
    BY <1>4, <1>5 DEF IInv, Typed, JournalUnpacked
  <1>7. Numbered' /\ Reading' /\ Queued'
    BY <1>1, <1>2, RequestsKept, QueueKept DEF IInv, Typed, JournalUnpacked
  <1>8. \A l \in Workers \ {k} : Works(l)'
    BY <1>2, <1>5, SMTT(30) DEF IInv, Working, Works, Root, Clones, JournalUnpacked
  <1> QED BY <1>1, <1>2, <1>4, <1>6, <1>7, <1>8 DEF IInv, Working

\* The head of the queue goes to a worker, in flight as before.
LEMMA TakeStep ==
    ASSUME IInv, NEW k \in Workers, Take(k)
    PROVE  IInv'
  <1>1. /\ worker[k].pc = "idle" /\ queue # << >> /\ queue' = Tail(queue)
        /\ worker' = [worker EXCEPT ![k] = [IdleWorker EXCEPT !.pc = "get", !.id = Head(queue)]]
        /\ UNCHANGED <<packages, nextId, req, inflight, scan, journal>>
    BY DEF Take
  <1>2. /\ queue \in Seq(Ids) /\ Len(queue) \in Nat /\ Len(queue) # 0
        /\ Head(queue) = queue[1] /\ 1 \in DOMAIN queue /\ DOMAIN queue = 1 .. Len(queue)
        /\ queue' \in Seq(Ids) /\ Len(queue') = Len(queue) - 1
        /\ DOMAIN queue' = 1 .. Len(queue) - 1
        /\ \A n \in 1 .. Len(queue) - 1 : queue'[n] = queue[n + 1] /\ n + 1 \in DOMAIN queue
    BY <1>1, SMTT(30) DEF IInv, Typed
  <1>3. PICK h : h = queue[1]
    OBVIOUS
  <1>4. h \in Ids /\ h \in inflight /\ Root(h) /\ \A l \in Workers : worker[l].id # h
    BY <1>2, <1>3, SMTT(30) DEF IInv, Queued
  <1>5. PICK w : w \in Worker /\ w.pc = "get" /\ w.id = h /\ worker' = [worker EXCEPT ![k] = w]
    <2> DEFINE w == [IdleWorker EXCEPT !.pc = "get", !.id = h]
    <2>1. w \in Worker /\ w.pc = "get" /\ w.id = h
      BY <1>4 DEF Worker, WorkerPcs, IdleWorker
    <2> QED BY <1>1, <1>2, <1>3, <2>1
  <1>6. /\ worker' \in [Workers -> Worker] /\ worker'[k] = w
        /\ \A l \in Workers \ {k} : worker'[l] = worker[l]
    BY <1>5 DEF IInv, Typed
  <1>7. Evolves /\ Committed' = Committed /\ Cloned'
    BY <1>1, Same DEF IInv
  <1>8. Len(queue') <= QueueSize
    <2>1. Len(queue) <= QueueSize /\ QueueSize \in Nat /\ Len(queue) \in Nat
      BY <1>2, PackagesAssumption DEF IInv, Typed
    <2>2. Len(queue') = Len(queue) - 1
      BY <1>2
    <2> QED BY <2>1, <2>2, SMTT(30)
  <1>9. Typed'
    BY <1>1, <1>2, <1>6, <1>8 DEF IInv, Typed
  <1>10. Numbered' /\ Reading' /\ Journaled'
    BY <1>1, <1>7, RequestsKept, JournalKept DEF IInv, Typed
  <1>11. Root(w.id)'
    BY <1>4, <1>5, <1>1, <1>7 DEF Root
  <1>12. Working'
    <2>1. Works(k)'
      BY <1>1, <1>4, <1>5, <1>6, <1>11 DEF Works
    <2>2. \A l \in Workers \ {k} : Works(l)'
      BY <1>1, <1>6, <1>7, SMTT(30) DEF IInv, Working, Works, Root, Clones
    <2> QED BY <2>1, <2>2 DEF Working
  <1>13. Queued'
    <2>1. NoConcurrentUnpack'
      BY <1>4, <1>5, <1>6 DEF IInv, Queued, NoConcurrentUnpack
    <2>2. ASSUME NEW n \in DOMAIN queue'
          PROVE  /\ queue'[n] \in inflight' /\ Root(queue'[n]) /\ queue'[n] # h
                 /\ \A l \in Workers : worker[l].id # queue'[n]
      <3>1. queue'[n] = queue[n + 1] /\ n + 1 \in DOMAIN queue /\ n + 1 # 1
        BY <1>2, <2>2, SMTT(30)
      <3> QED BY <1>1, <1>2, <1>3, <3>1, SMTT(30) DEF IInv, Queued
    <2>3. \A n \in DOMAIN queue' : \A l \in Workers : worker'[l].id # queue'[n]
      BY <1>5, <1>6, <2>2
    <2>4. \A m, n \in DOMAIN queue' : queue'[m] = queue'[n] => m = n
      <3>1. \A m, n \in DOMAIN queue : queue[m] = queue[n] => m = n
        BY DEF IInv, Queued
      <3> QED BY <1>2, <3>1, SMTT(60)
    <2>5. \A i : Root(i) => Root(i)'
      BY <1>1, <1>7 DEF Root
    <2>6. (\A n \in DOMAIN queue : Root(queue[n]))' /\ (\A i \in scan : Root(i))'
      BY <1>1, <2>2, <2>5 DEF IInv, Queued
    <2> QED BY <2>1, <2>2, <2>3, <2>4, <2>6 DEF Queued
  <1> QED BY <1>7, <1>9, <1>10, <1>12, <1>13 DEF IInv

\* The worker is done: nobody else has the package.
LEMMA FinishStep ==
    ASSUME IInv, NEW k \in Workers, Finish(k)
    PROVE  IInv'
  <1>1. /\ worker[k].pc = "finish" /\ inflight' = inflight \ {worker[k].id}
        /\ worker' = [worker EXCEPT ![k] = IdleWorker]
        /\ UNCHANGED <<packages, nextId, req, queue, scan, journal>>
    BY DEF Finish
  <1>2. IdleWorker \in Worker /\ IdleWorker.pc = "idle" /\ IdleWorker.id = 0
    BY DEF IdleWorker, Worker, WorkerPcs
  <1>3. /\ worker' \in [Workers -> Worker] /\ worker'[k].pc = "idle" /\ worker'[k].id = 0
        /\ \A l \in Workers \ {k} : worker'[l] = worker[l]
    BY <1>1, <1>2 DEF IInv, Typed
  <1>4. Evolves /\ Committed' = Committed /\ Cloned'
    BY <1>1, Same DEF IInv
  <1>5. \A i : Root(i) => Root(i)' /\ i # 0
    BY <1>1, <1>4, Constants, SMTT(30) DEF Root, Committed
  <1>6. Typed'
    BY <1>1, <1>3 DEF IInv, Typed
  <1>7. Numbered' /\ Reading' /\ Journaled'
    BY <1>1, <1>4, RequestsKept, JournalKept DEF IInv, Typed
  <1>8. \A l \in Workers \ {k} : worker[l].id # worker[k].id
    BY <1>1 DEF IInv, Queued, NoConcurrentUnpack
  <1>9. Working'
    <2>1. Works(k)'
      BY <1>3 DEF Works
    <2>2. ASSUME NEW l \in Workers \ {k} PROVE Works(l)'
      <3>1. Works(l) /\ worker'[l] = worker[l] /\ worker[l].id # worker[k].id
        BY <1>3, <1>8 DEF IInv, Working
      <3>2. worker[l].pc # "idle" => worker[l].id \in inflight'
        BY <1>1, <3>1 DEF Works
      <3> QED BY <1>1, <3>1, <3>2, WorksKept
    <2> QED BY <2>1, <2>2 DEF Working
  <1>10. Queued'
    <2>1. NoConcurrentUnpack'
      <3>1. ASSUME NEW l \in Workers, NEW m \in Workers, worker'[l].pc # "idle",
                   worker'[l].id = worker'[m].id
            PROVE  l = m
        <4>1. l # k /\ worker'[l] = worker[l] /\ worker[l].id # 0
          BY <1>3, <1>5, <3>1, SMTT(30) DEF IInv, Working, Works
        <4>2. m # k /\ worker'[m] = worker[m]
          BY <1>3, <3>1, <4>1
        <4> QED BY <3>1, <4>1, <4>2 DEF IInv, Queued, NoConcurrentUnpack
      <3> QED BY <3>1 DEF NoConcurrentUnpack
    <2>2. \A n \in DOMAIN queue : /\ queue[n] \in inflight' /\ Root(queue[n])
                                  /\ \A l \in Workers : worker'[l].id # queue[n]
      BY <1>1, <1>3, <1>5 DEF IInv, Queued
    <2>3. (\A n \in DOMAIN queue : Root(queue[n]))' /\ (\A i \in scan : Root(i))'
      BY <1>1, <1>5 DEF IInv, Queued
    <2> QED BY <1>1, <2>1, <2>2, <2>3 DEF IInv, Queued
  <1> QED BY <1>4, <1>6, <1>7, <1>9, <1>10 DEF IInv

\* One package that is still raw_large becomes p.
Becomes(i, p) ==
    /\ i \in Committed /\ packages[i].mode = "raw_large"
    /\ p \in PackageRow /\ p.body = packages[i].body /\ p.canonical = packages[i].canonical
    /\ packages[i].files \subseteq p.files
    /\ packages' = [packages EXCEPT ![i] = p]

\* All others stay, and so does who is whose clone.
LEMMA Became ==
    ASSUME Typed, NEW i, NEW p, Becomes(i, p)
    PROVE  /\ packages' \in [Ids -> PackageRow \cup {None}] /\ packages'[i] = p
           /\ \A j \in Ids \ {i} : packages'[j] = packages[j]
           /\ Committed' = Committed /\ Evolves
           /\ \A j : (Root(j)' <=> Root(j)) /\ Clones(j)' = Clones(j)
  <1>1. i \in Ids /\ p # None
    BY Constants DEF Becomes, Committed
  <1>2. /\ packages' \in [Ids -> PackageRow \cup {None}] /\ packages'[i] = p
        /\ \A j \in Ids \ {i} : packages'[j] = packages[j]
    BY <1>1 DEF Becomes, Typed
  <1>3. Committed' = Committed
    BY <1>1, <1>2 DEF Becomes, Committed
  <1>4. \A j \in Committed : packages'[j].canonical = packages[j].canonical
    BY <1>2 DEF Becomes, Committed
  <1>5. \A j : (Root(j)' <=> Root(j)) /\ Clones(j)' = Clones(j)
    BY <1>3, <1>4 DEF Root, Clones
  <1>6. Evolves
    <2>1. ASSUME NEW j \in Committed, j # i PROVE packages'[j] = packages[j]
      BY <1>2, <2>1 DEF Committed
    <2> QED BY <1>2, <1>3, <2>1 DEF Evolves, Becomes
  <1> QED BY <1>2, <1>3, <1>5, <1>6

\* A worker whose package and clone stay does not notice.
LEMMA OtherWorks ==
    ASSUME Typed, NEW i, NEW p, Becomes(i, p), NEW l \in Workers, Works(l), worker'[l] = worker[l],
           inflight' = inflight, worker[l].pc # "idle" => worker[l].id # i,
           worker[l].pc = "propagate" => worker[l].clone # i
    PROVE  Works(l)'
  <1>1. /\ \A j \in Ids \ {i} : packages'[j] = packages[j]
        /\ \A j : (Root(j)' <=> Root(j)) /\ Clones(j)' = Clones(j)
    BY Became
  <1>2. worker[l].pc # "idle" => packages'[worker[l].id] = packages[worker[l].id]
    BY <1>1 DEF Works, Root, Committed
  <1>3. worker[l].pc = "propagate" => packages'[worker[l].clone] = packages[worker[l].clone]
    BY <1>1 DEF Works, Clones, Committed
  <1>4. worker[l].pc # "idle" => Root(worker[l].id)'
    BY <1>1 DEF Works
  <1>5. /\ worker[l].pc \in {"next", "propagate"} => (worker[l].todo \subseteq Clones(worker[l].id))'
        /\ worker[l].pc = "propagate" => (worker[l].clone \in Clones(worker[l].id))'
    BY <1>1 DEF Works
  <1> QED BY <1>2, <1>3, <1>4, <1>5 DEF Works

\* The rest of the invariant, when a worker has changed a package.
LEMMA WorkerWrites ==
    ASSUME IInv, NEW i, NEW p, Becomes(i, p), NEW k \in Workers, NEW w, Goes(k, w), Works(k)', Cloned',
           UNCHANGED <<nextId, req, queue, inflight, scan, journal>>,
           \A l \in Workers \ {k} :
               /\ worker[l].pc # "idle" => worker[l].id # i
               /\ worker[l].pc = "propagate" => worker[l].clone # i
    PROVE  IInv'
  <1>1. Evolves /\ Committed' = Committed /\ packages' \in [Ids -> PackageRow \cup {None}]
    BY Became DEF IInv
  <1>2. worker' \in [Workers -> Worker] /\ \A l \in Workers \ {k} : worker'[l] = worker[l]
    BY Gone DEF IInv
  <1>3. Typed'
    BY <1>1, <1>2 DEF IInv, Typed
  <1>4. Numbered' /\ Reading' /\ Journaled' /\ Queued'
    BY <1>1, RequestsKept, JournalKept, QueueKept DEF IInv
  <1>5. ASSUME NEW l \in Workers \ {k} PROVE Works(l)'
    BY <1>2, <1>5, OtherWorks DEF IInv, Working
  <1> QED BY <1>3, <1>4, <1>5 DEF IInv, Working

\* A clone whose canonical package has become p: it has been raw_large too.
LEMMA CopiesKept ==
    ASSUME Typed, Cloned, NEW i, NEW p, Becomes(i, p), Root(i),
           NEW j \in Committed, j # i, packages[j].canonical # 0
    PROVE  Copies(j, packages[j].canonical)'
  <1> PICK c : c = packages[j].canonical
    OBVIOUS
  <1>1. /\ packages'[i] = p /\ \A m \in Ids \ {i} : packages'[m] = packages[m]
        /\ \A m : Root(m)' <=> Root(m)
    BY Became
  <1>2. Copies(j, c) /\ packages'[j] = packages[j] /\ c \in Committed /\ packages[c] \in PackageRow
    BY <1>1, SMTT(30) DEF Cloned, IsClone, Copies, Root, Committed, Typed
  <1>3. Root(c)'
    BY <1>1, <1>2 DEF Copies
  <1>4. CASE c = i
    <2>1. packages[j].mode = "raw_large"
      <3> SUFFICES ASSUME packages[j].mode # "raw_large" PROVE FALSE
        OBVIOUS
      <3>1. packages[j] = [packages[i] EXCEPT !.canonical = i]
        BY <1>2, <1>4 DEF Copies
      <3>2. packages[j].mode = packages[i].mode
        BY <1>2, <1>4, <3>1 DEF PackageRow
      <3> QED BY <3>2 DEF Becomes
    <2>2. packages[j].files \subseteq p.files /\ p.body = packages[j].body
      BY <1>2, <1>4 DEF Copies, Becomes
    <2> QED BY <1>1, <1>2, <1>3, <1>4, <2>1, <2>2 DEF Copies
  <1>5. CASE c # i
    <2>1. packages'[c] = packages[c]
      BY <1>1, <1>2, <1>5 DEF Committed
    <2> QED BY <1>2, <1>3, <2>1 DEF Copies
  <1> QED BY <1>4, <1>5

\* The transaction of an unpack job.
LEMMA UnpackTxStep ==
    ASSUME IInv, NEW k \in Workers, UnpackTx(k)
    PROVE  IInv' /\ Evolves
  <1> PICK i : i = worker[k].id
    OBVIOUS
  <1>1. worker[k].pc = "unpack" /\ inflight' = inflight
    BY DEF UnpackTx
  <1>2. /\ worker[k] \in Worker /\ i \in Ids /\ i \in inflight /\ Root(i) /\ i \in Committed
        /\ packages[i] \in PackageRow /\ packages[i].mode \in {"zip_with_members", "raw_large"}
    BY <1>1, Busy DEF IInv, Working, Works, PackageRow
  <1>3. PICK w : Goes(k, w) /\ w.pc = "clones" /\ w.id = i
    <2> DEFINE w == [worker[k] EXCEPT !.pc = "clones"]
    <2>1. w \in Worker /\ w.pc = "clones" /\ w.id = i
      BY <1>2 DEF Worker, WorkerPcs
    <2>2. Goes(k, w)
      BY <1>1, <2>1 DEF Goes, IInv, Typed, UnpackTx
    <2> QED BY <2>1, <2>2
  <1>4. worker'[k] = w
    BY <1>3, Gone DEF IInv
  <1>5. CASE packages[i].mode # "raw_large"
    <2>1. packages' = packages
      BY <1>5 DEF UnpackTx
    <2>2. Root(w.id)'
      BY <1>2, <1>3, <2>1 DEF Root, Committed
    <2>3. Works(k)'
      BY <1>1, <1>2, <1>3, <1>4, <1>5, <2>1, <2>2 DEF Works
    <2> QED BY <1>3, <2>1, <2>3, WorkerAlone, Same DEF UnpackTx
  <1>6. CASE packages[i].mode = "raw_large"
    <2>1. PICK p \in Unpacked(packages[i]) : packages' = [packages EXCEPT ![i] = p]
      BY <1>6 DEF UnpackTx
    <2>2. /\ packages[i].body \in Bodies /\ packages[i].files = {Original}
      BY <1>2, <1>6 DEF PackageRow, IInv, Cloned
    <2>3. /\ MemberCount[packages[i].body] \in Nat /\ ErrFile \in Nat
          /\ MemberCount[packages[i].body] < ErrFile
      BY <2>2, Constants
    <2>4. /\ p \in PackageRow /\ p.body = packages[i].body /\ p.canonical = packages[i].canonical
          /\ p.mode = "zip_with_members" /\ Original \in p.files
      <3>1. CASE p = [packages[i] EXCEPT !.mode = "zip_with_members",
                         !.count = 1 + MemberCount[packages[i].body], !.files = AllFiles(packages[i].body)]
        <4>1. /\ AllFiles(packages[i].body) \in SUBSET (0 .. ErrFile)
              /\ Original \in AllFiles(packages[i].body) /\ 1 + MemberCount[packages[i].body] \in Nat
          BY <2>3, SMTT(30) DEF AllFiles, Original
        <4> QED BY <1>2, <3>1, <4>1 DEF PackageRow
      <3>2. ASSUME NEW j \in 0 .. MemberCount[packages[i].body] - 1,
                   p = [packages[i] EXCEPT !.mode = "zip_with_members", !.count = 2, !.err = TRUE,
                                           !.files = SomeFiles(j)]
            PROVE  /\ p \in PackageRow /\ p.body = packages[i].body
                   /\ p.canonical = packages[i].canonical
                   /\ p.mode = "zip_with_members" /\ Original \in p.files
        <4>1. SomeFiles(j) \in SUBSET (0 .. ErrFile) /\ Original \in SomeFiles(j)
          BY <2>3, SMTT(30) DEF SomeFiles, Original
        <4> QED BY <1>2, <3>2, <4>1 DEF PackageRow
      <3> QED BY <2>1, <3>1, <3>2 DEF Unpacked
    <2>5. Becomes(i, p)
      BY <1>2, <1>6, <2>1, <2>2, <2>4 DEF Becomes
    <2>6. /\ packages'[i] = p /\ Committed' = Committed
          /\ \A j \in Ids \ {i} : packages'[j] = packages[j]
          /\ \A j : (Root(j)' <=> Root(j)) /\ Clones(j)' = Clones(j)
      BY <2>5, Became DEF IInv
    <2>7. ASSUME NEW j \in Committed'
          PROVE  (/\ Original \in packages[j].files
                  /\ Root(j) /\ packages[j].mode = "raw_large" => packages[j].files = {Original}
                  /\ IsClone(j) => Copies(j, packages[j].canonical))'
      <3>1. CASE j = i
        BY <1>2, <2>4, <2>6, <3>1 DEF IsClone, Root
      <3>2. CASE j # i
        <4>1. j \in Committed /\ packages'[j] = packages[j]
          BY <2>6, <3>2 DEF Committed
        <4>2. IsClone(j)' => Copies(j, packages[j].canonical)'
          BY <1>2, <2>5, <3>2, <4>1, CopiesKept DEF IsClone, IInv
        <4> QED BY <2>6, <4>1, <4>2 DEF IInv, Cloned
      <3> QED BY <3>1, <3>2
    <2>8. Cloned'
      BY <2>7 DEF Cloned
    <2>9. Root(w.id)'
      BY <1>2, <1>3, <2>6
    <2>10. Works(k)'
      BY <1>1, <1>2, <1>3, <1>4, <2>4, <2>6, <2>9 DEF Works
    <2>11. ASSUME NEW l \in Workers \ {k}
           PROVE  /\ worker[l].pc # "idle" => worker[l].id # i
                  /\ worker[l].pc = "propagate" => worker[l].clone # i
      <3>1. worker[l].pc # "idle" => worker[l].id # i
        BY <2>11 DEF IInv, Queued, NoConcurrentUnpack
      <3>2. worker[l].pc = "propagate" => worker[l].clone \in Clones(worker[l].id) /\ worker[l].id # 0
        BY Constants, SMTT(30) DEF IInv, Working, Works, Root, Committed
      <3> QED BY <1>2, <3>1, <3>2 DEF Clones, Root
    <2>12. IInv'
      BY <1>3, <2>5, <2>8, <2>10, <2>11, WorkerWrites DEF UnpackTx
    <2> QED BY <2>5, <2>12, Became DEF IInv
  <1> QED BY <1>5, <1>6

\* A clone is completed: it gets what its canonical package has.
LEMMA PropagateStep ==
    ASSUME IInv, NEW k \in Workers, Propagate(k)
    PROVE  IInv' /\ Evolves
  <1> PICK i, c : i = worker[k].id /\ c = worker[k].clone
    OBVIOUS
  <1>1. worker[k].pc = "propagate" /\ inflight' = inflight
    BY DEF Propagate, PropagateTo
  <1>2. /\ worker[k] \in Worker /\ i \in Ids /\ i \in inflight /\ Root(i) /\ i \in Committed
        /\ packages[i] \in PackageRow /\ packages[i].mode = "zip_with_members"
        /\ worker[k].todo \subseteq Clones(i)
    BY <1>1, Busy DEF IInv, Working, Works
  <1>3. /\ c \in Clones(i) /\ c \in Committed /\ c \in Ids /\ packages[c].mode = "raw_large"
        /\ packages[c].canonical = i /\ worker[k].existing = packages[c].files
        /\ packages[c] \in PackageRow
    BY <1>1 DEF IInv, Working, Works, Clones, Committed, Typed
  <1>4. /\ i # 0 /\ c # i /\ Copies(c, i) /\ Original \in packages[c].files
    <2>1. i # 0
      BY <1>2, Constants, SMTT(30)
    <2>2. c # i
      BY <1>2, <1>3, <2>1 DEF Root
    <2>3. IsClone(c) /\ packages[c].canonical = i
      BY <1>3, <2>1 DEF IsClone
    <2>4. Original \in packages[c].files /\ (IsClone(c) => Copies(c, packages[c].canonical))
      BY <1>3 DEF IInv, Cloned
    <2> QED BY <2>1, <2>2, <2>3, <2>4
  <1>5. PICK p : /\ p = [packages[i] EXCEPT !.canonical = i]
                 /\ packages' = [packages EXCEPT ![c] = p]
    <2>1. packages[c].files \cup Extra(k) = packages[i].files
      BY <1>3, <1>4 DEF Extra, Copies
    <2>2. packages' = [packages EXCEPT ![c] =
             [[packages[c] EXCEPT !.mode = "zip_with_members", !.count = packages[i].count,
                                  !.err = packages[i].err] EXCEPT !.files = packages[i].files]]
      BY <1>3, <2>1 DEF Propagate, PropagateTo, UpdateAfterUnpack
    <2>3. packages[c].body = packages[i].body
      BY <1>4 DEF Copies
    <2>4. [[packages[c] EXCEPT !.mode = "zip_with_members", !.count = packages[i].count,
                               !.err = packages[i].err] EXCEPT !.files = packages[i].files]
            = [packages[i] EXCEPT !.canonical = i]
      BY <1>2, <1>3, <2>3 DEF PackageRow
    <2> QED BY <2>2, <2>4
  <1>6. /\ p \in PackageRow /\ p.body = packages[c].body /\ p.canonical = i
        /\ p.files = packages[i].files /\ p.mode = "zip_with_members"
    BY <1>2, <1>4, <1>5 DEF Copies, PackageRow
  <1>7. Becomes(c, p)
    BY <1>3, <1>4, <1>5, <1>6 DEF Becomes, Copies
  <1>8. /\ packages'[c] = p /\ Committed' = Committed
        /\ \A j \in Ids \ {c} : packages'[j] = packages[j]
        /\ \A j : (Root(j)' <=> Root(j)) /\ Clones(j)' = Clones(j)
    BY <1>7, Became DEF IInv
  <1>9. PICK w : Goes(k, w) /\ w.pc = "next" /\ w.id = i /\ w.todo = worker[k].todo
    <2> DEFINE w == [worker[k] EXCEPT !.pc = "next", !.clone = 0, !.existing = {}]
    <2>1. w \in Worker /\ w.pc = "next" /\ w.id = i /\ w.todo = worker[k].todo
      BY <1>2 DEF Worker, WorkerPcs
    <2>2. Goes(k, w)
      BY <1>1, <2>1 DEF Goes, IInv, Typed, Propagate, PropagateTo
    <2> QED BY <2>1, <2>2
  <1>10. worker'[k] = w
    BY <1>9, Gone DEF IInv
  <1>11. packages'[i] = packages[i] /\ Root(w.id)' /\ w.todo \subseteq Clones(w.id)'
    BY <1>2, <1>4, <1>8, <1>9
  <1>12. Works(k)'
    BY <1>1, <1>2, <1>9, <1>10, <1>11 DEF Works
  <1>13. ASSUME NEW j \in Committed'
         PROVE  (/\ Original \in packages[j].files
                 /\ Root(j) /\ packages[j].mode = "raw_large" => packages[j].files = {Original}
                 /\ IsClone(j) => Copies(j, packages[j].canonical))'
    <2>1. CASE j = c
      <3>1. (Original \in packages[j].files)' /\ ~Root(j)'
        BY <1>4, <1>6, <1>8, <2>1 DEF Copies, Root
      <3>2. Root(i)'
        BY <1>2, <1>8
      <3>3. Copies(c, i)'
        <4>1. /\ i < c /\ packages'[i].body = packages'[c].body
              /\ packages'[c].files \subseteq packages'[i].files
          BY <1>4, <1>6, <1>8, <1>11 DEF Copies
        <4>2. packages'[c] = [packages'[i] EXCEPT !.canonical = i]
          BY <1>5, <1>8, <1>11
        <4> QED BY <3>2, <4>1, <4>2 DEF Copies
      <3> QED BY <1>6, <1>8, <2>1, <3>1, <3>3
    <2>2. CASE j # c
      <3>1. j \in Committed /\ packages'[j] = packages[j]
        BY <1>8, <2>2 DEF Committed
      <3>2. ASSUME packages[j].canonical # 0 PROVE Copies(j, packages[j].canonical)'
        <4> PICK d : d = packages[j].canonical
          OBVIOUS
        <4>1. Copies(j, d)
          BY <3>1, <3>2 DEF IInv, Cloned, IsClone
        <4>2. Root(d) /\ d # c /\ Root(d)'
          BY <1>3, <1>4, <1>8, <4>1 DEF Copies, Root
        <4>3. packages'[d] = packages[d]
          BY <1>8, <4>2 DEF Root, Committed
        <4> QED BY <3>1, <4>1, <4>2, <4>3 DEF Copies
      <3>3. (IsClone(j) => Copies(j, packages[j].canonical))'
        BY <3>1, <3>2 DEF IsClone
      <3> QED BY <1>8, <3>1, <3>3 DEF IInv, Cloned
    <2> QED BY <2>1, <2>2
  <1>14. Cloned'
    BY <1>13 DEF Cloned
  <1>15. ASSUME NEW l \in Workers \ {k}
         PROVE  /\ worker[l].pc # "idle" => worker[l].id # c
                /\ worker[l].pc = "propagate" => worker[l].clone # c
    <2>1. worker[l].pc # "idle" => worker[l].id # i /\ Root(worker[l].id)
      BY <1>15 DEF IInv, Queued, NoConcurrentUnpack, Working, Works
    <2>2. worker[l].pc = "propagate" => worker[l].clone \in Clones(worker[l].id)
      BY DEF IInv, Working, Works
    <2> QED BY <1>3, <1>4, <2>1, <2>2 DEF Clones, Root
  <1>16. IInv'
    BY <1>7, <1>9, <1>12, <1>14, <1>15, WorkerWrites DEF Propagate, PropagateTo
  <1> QED BY <1>7, <1>16, Became DEF IInv

-----------------------------------------------------------------------------
(* The scan, a restart, and the theorems.                                  *)

\* The scan reads packages that are not clones, and enqueues them.
LEMMA RecoverStep ==
    ASSUME IInv, RecoverScan \/ RecoverEnqueue
    PROVE  IInv'
  <1>1. packages' = packages /\ UNCHANGED <<nextId, req, worker, journal>>
    BY DEF RecoverScan, RecoverEnqueue
  <1>2. Evolves /\ Committed' = Committed /\ Cloned'
    BY <1>1, Same DEF IInv
  <1>3. Numbered' /\ Reading' /\ Journaled'
    BY <1>1, <1>2, RequestsKept, JournalKept DEF IInv, Typed
  <1>4. CASE RecoverScan
    <2>1. scan' = Pending /\ UNCHANGED <<queue, inflight>>
      BY <1>4 DEF RecoverScan
    <2>2. scan' \subseteq Ids /\ \A i \in scan' : Root(i)
      BY <2>1 DEF Pending, IsClone, Root, Committed
    <2>3. \A i : Root(i) <=> Root(i)'
      BY <1>1, <1>2 DEF Root
    <2>4. Working'
      BY <1>1, <1>2, <2>1, <2>3 DEF IInv, Working, Works, Clones
    <2>5. (\A i \in scan : Root(i))' /\ (\A n \in DOMAIN queue : Root(queue[n]))'
      BY <2>1, <2>2, <2>3 DEF IInv, Queued
    <2>6. Queued'
      BY <1>1, <2>1, <2>5 DEF IInv, Queued, NoConcurrentUnpack
    <2>7. Typed'
      BY <1>1, <2>1, <2>2 DEF IInv, Typed
    <2> QED BY <1>2, <1>3, <2>4, <2>6, <2>7 DEF IInv
  <1>5. CASE RecoverEnqueue
    <2>1. PICK i \in scan : Enqueue(i) /\ scan' = scan \ {i}
      BY <1>5 DEF RecoverEnqueue
    <2>2. Root(i)
      BY <2>1 DEF IInv, Queued
    <2>3. /\ queue' \in Seq(Ids) /\ Len(queue') <= QueueSize /\ inflight' \subseteq Ids
          /\ Working' /\ Queued'
      BY <1>1, <2>1, <2>2, Enqueued DEF IInv
    <2>4. Typed'
      BY <1>1, <2>1, <2>3 DEF IInv, Typed
    <2> QED BY <1>2, <1>3, <2>3, <2>4 DEF IInv
  <1> QED BY <1>4, <1>5

\* A restart forgets the queue, the workers and the requests, not the ids.
LEMMA RestartStep ==
    ASSUME IInv, Restart
    PROVE  IInv'
  <1>1. /\ queue' = << >> /\ inflight' = {} /\ scan' = {} /\ worker' = [k \in Workers |-> IdleWorker]
        /\ UNCHANGED <<packages, nextId, journal>>
    BY DEF Restart
  <1>2. Evolves /\ Committed' = Committed /\ Cloned'
    BY <1>1, Same DEF IInv
  <1>3. IdleWorker \in Worker /\ IdleWorker.pc = "idle" /\ IdleWorker.id = 0
    BY DEF IdleWorker, Worker, WorkerPcs
  <1>4. ASSUME NEW r \in Requests
        PROVE  /\ req'[r] \in Request /\ req'[r].id = req[r].id
               /\ \/ req'[r] = req[r] /\ req[r].pc \in {"idle", "done"}
                  \/ req'[r].pc = "failed"
    <2>1. req[r] \in Request
      BY DEF IInv, Typed
    <2>2. CASE req[r].pc \in {"idle", "done"}
      BY <2>1, <2>2 DEF Restart
    <2>3. CASE req[r].pc \notin {"idle", "done"}
      <3>1. req'[r] = [IdleRequest EXCEPT !.pc = "failed", !.id = req[r].id]
        BY <2>3 DEF Restart
      <3> QED BY <2>1, <3>1 DEF IdleRequest, Request, RequestPcs
    <2> QED BY <2>2, <2>3
  <1>5. req' \in [Requests -> Request]
    BY <1>4 DEF Restart
  <1>6. QueueSize \in Nat /\ queue' \in Seq(Ids) /\ Len(queue') = 0
    BY <1>1, PackagesAssumption, SMTT(30)
  <1>7. Typed'
    BY <1>1, <1>3, <1>5, <1>6, SMTT(30) DEF IInv, Typed
  <1>8. Numbered'
    BY <1>1, <1>2, <1>4 DEF IInv, Numbered
  <1>9. Reading'
    <2> SUFFICES ASSUME NEW r \in Requests PROVE Reads(r)'
      BY DEF Reading
    <2>1. CASE req'[r].pc = "failed"
      BY <2>1 DEF Reads
    <2>2. CASE req'[r] = req[r]
      BY <1>2, <2>2, ReadsKept DEF IInv, Reading
    <2> QED BY <1>4, <2>1, <2>2
  <1>10. Working' /\ Queued'
    <2>1. \A k \in Workers : worker'[k].pc = "idle" /\ worker'[k].id = 0
      BY <1>1, <1>3
    <2>2. DOMAIN queue' = {}
      BY <1>1, SMTT(30)
    <2> QED BY <1>1, <2>1, <2>2 DEF Working, Works, Queued, NoConcurrentUnpack
  <1>11. Journaled'
    BY <1>1, <1>2, JournalKept DEF IInv
  <1> QED BY <1>2, <1>7, <1>8, <1>9, <1>10, <1>11 DEF IInv

\* At the start there is nothing.
LEMMA InitInv == Init => IInv
  <1> SUFFICES ASSUME Init PROVE IInv
    OBVIOUS
  <1>1. /\ packages = [i \in Ids |-> None] /\ nextId = 1 /\ queue = << >> /\ inflight = {}
        /\ scan = {} /\ journal = << >>
        /\ req = [r \in Requests |-> IdleRequest] /\ worker = [k \in Workers |-> IdleWorker]
    BY DEF Init
  <1>2. IdleWorker \in Worker /\ IdleWorker.pc = "idle" /\ IdleWorker.id = 0
    BY DEF IdleWorker, Worker, WorkerPcs
  <1>3. /\ IdleRequest \in Request /\ IdleRequest.pc = "idle" /\ IdleRequest.id = 0
        /\ IdleRequest.canonical = 0
    BY DEF IdleRequest, Request, RequestPcs
  <1>4. QueueSize \in Nat /\ queue \in Seq(Ids) /\ Len(queue) = 0 /\ journal \in Seq(Entry)
    BY <1>1, PackagesAssumption, SMTT(30)
  <1>5. Typed
    BY <1>1, <1>2, <1>3, <1>4, Constants, SMTT(30) DEF Typed
  <1>6. Committed = {}
    BY <1>1 DEF Committed
  <1>7. Numbered
    BY <1>1, <1>3, <1>6, SMTT(30) DEF Numbered
  <1>8. Reading
    BY <1>1, <1>3 DEF Reading, Reads
  <1>9. Cloned
    BY <1>6 DEF Cloned
  <1>10. Working /\ Queued /\ Journaled
    BY <1>1, <1>2, SMTT(30) DEF Working, Works, Queued, NoConcurrentUnpack, Journaled
  <1> QED BY <1>5, <1>7, <1>8, <1>9, <1>10 DEF IInv

\* The steps that leave the packages as they are.
LEMMA QuietStep ==
    ASSUME [Next]_vars,
           \A r \in Requests : ~CommitPackage(r),
           \A k \in Workers : ~UnpackTx(k) /\ ~Propagate(k)
    PROVE  packages' = packages
  <1>1. ASSUME NEW r \in Requests, RequestStep(r) \/ RequestFails(r) PROVE packages' = packages
    BY <1>1 DEF RequestStep, Post, GetCanonical, CreatePackage, EnqueueNew, LoadPackage,
                JournalPackage, RequestFails
  <1>2. ASSUME NEW k \in Workers, WorkerStep(k) \/ JobFails(k) PROVE packages' = packages
    BY <1>2 DEF WorkerStep, Take, GetPackage, ListClones, GetClone, JournalUnpacked, Finish, JobFails
  <1>3. CASE RecoverScan \/ RecoverEnqueue \/ Restart \/ UNCHANGED vars
    BY <1>3 DEF RecoverScan, RecoverEnqueue, Restart, vars
  <1> QED BY <1>1, <1>2, <1>3 DEF Next

\* Every step keeps the invariant, and lets the packages evolve.
LEMMA NextInv == IInv /\ [Next]_vars => IInv' /\ Evolves
  <1> SUFFICES ASSUME IInv, [Next]_vars PROVE IInv' /\ Evolves
    OBVIOUS
  <1>1. IInv'
    <2>1. ASSUME NEW r \in Requests, RequestStep(r) \/ RequestFails(r) PROVE IInv'
      BY <2>1, PostStep, GetCanonicalStep, CreatePackageStep, CommitPackageStep, EnqueueNewStep,
         LoadPackageStep, JournalPackageStep, RequestFailsStep DEF RequestStep
    <2>2. ASSUME NEW k \in Workers, WorkerStep(k) \/ JobFails(k) PROVE IInv'
      BY <2>2, TakeStep, GetPackageStep, UnpackTxStep, ListClonesStep, GetCloneStep, PropagateStep,
         JournalUnpackedStep, FinishStep, JobFailsStep DEF WorkerStep
    <2>3. CASE UNCHANGED vars
      <3>1. /\ packages' = packages
            /\ UNCHANGED <<nextId, req, worker, queue, inflight, scan, journal>>
        BY <2>3 DEF vars
      <3>2. Evolves /\ Committed' = Committed /\ Cloned'
        BY <3>1, Same DEF IInv
      <3>3. Typed'
        BY <3>1 DEF IInv, Typed
      <3>4. Numbered' /\ Reading' /\ Journaled' /\ Working' /\ Queued'
        BY <3>1, <3>2, <3>3, RequestsKept, JournalKept, QueueSame DEF IInv, Typed
      <3> QED BY <3>2, <3>3, <3>4 DEF IInv
    <2> QED BY <2>1, <2>2, <2>3, RecoverStep, RestartStep DEF Next
  <1>2. Evolves
    BY CommitPackageStep, UnpackTxStep, PropagateStep, QuietStep, Same
  <1> QED BY <1>1, <1>2

\* The invariant holds at all times.
LEMMA Invariant == Spec => []IInv
  <1> QED BY InitInv, NextInv, PTL DEF Spec

\* The types, and the channel holds at most its capacity (Enqueue).
THEOREM Types == Spec => []TypeOK
  <1>1. IInv => TypeOK
    <2> SUFFICES ASSUME IInv PROVE TypeOK
      OBVIOUS
    <2>1. Typed
      BY DEF IInv
    <2>2. \A r \in Requests : req[r].row \in PackageRow \cup {None} /\ req[r].id \in Ids \cup {0}
      BY <2>1 DEF Typed, Request
    <2>3. \A k \in Workers : worker[k].id \in Ids \cup {0} /\ worker[k].todo \subseteq Ids
      BY <2>1 DEF Typed, Worker
    <2>4. \A n \in DOMAIN journal : journal[n].id \in Ids /\ journal[n].package \in PackageRow
      <3>1. \A n \in DOMAIN journal : journal[n] \in Entry
        BY <2>1, SMTT(30) DEF Typed
      <3> QED BY <3>1 DEF Entry
    <2> QED BY <2>1, <2>2, <2>3, <2>4 DEF Typed, TypeOK
  <1> QED BY <1>1, Invariant, PTL

\* A clone refers to an older package of the same body that is no clone, for
\* any number of requests that take and commit ids in any order
\* (FindCanonicalPackageID, clonePackage).
THEOREM CanonicalRoots == Spec => []CanonicalIsRoot
  <1>1. IInv => CanonicalIsRoot
    <2> SUFFICES ASSUME IInv, NEW i \in Committed, IsClone(i)
                 PROVE  LET c == packages[i].canonical IN
                        c \in Committed /\ c < i /\ ~IsClone(c) /\ packages[c].body = packages[i].body
      BY DEF CanonicalIsRoot
    <2>1. Copies(i, packages[i].canonical)
      BY DEF IInv, Cloned
    <2> QED BY <2>1 DEF Copies, Root, IsClone
  <1> QED BY <1>1, Invariant, PTL

\* A clone that is not raw_large equals its canonical package, whenever it was
\* cloned (clonePackage, propagateUnpackToClones).
THEOREM EqualClones == Spec => []ClonesEqual
  <1>1. IInv => ClonesEqual
    <2> SUFFICES ASSUME IInv, NEW i \in Committed, IsClone(i), packages[i].mode # "raw_large"
                 PROVE  packages[i] = [packages[packages[i].canonical] EXCEPT !.canonical = packages[i].canonical]
      BY DEF ClonesEqual
    <2>1. Copies(i, packages[i].canonical)
      BY DEF IInv, Cloned
    <2> QED BY <2>1 DEF Copies
  <1> QED BY <1>1, Invariant, PTL

\* The unique indexes never refuse what is propagated (propagateUnpackToClones).
THEOREM Applies == Spec => []PropagateApplies
  <1>1. IInv => PropagateApplies
    BY DEF IInv, Working, Works, PropagateApplies, Extra
  <1> QED BY <1>1, Invariant, PTL

\* No package is unpacked twice at a time, by any number of workers (Enqueue).
THEOREM OneUnpack == Spec => []NoConcurrentUnpack
  <1>1. IInv => NoConcurrentUnpack
    BY DEF IInv, Queued
  <1> QED BY <1>1, Invariant, PTL

\* The journal tells of committed packages, and never more than they have
\* (loadAndJournal).
THEOREM Sound == Spec => []JournalSound
  <1>1. IInv => JournalSound
    BY DEF IInv, Journaled, Snapshot, Committed, JournalSound
  <1> QED BY <1>1, Invariant, PTL

\* A committed package stays, keeps its files and changes once at most
\* (UnpackLargePackage, propagateUnpackToClones).
THEOREM Monotone == Spec => PackagesMonotone
  <1>1. IInv /\ [Next]_vars =>
          [\A i \in Committed :
              /\ packages'[i] # None /\ packages[i].files \subseteq packages'[i].files
              /\ packages[i].mode # "raw_large" => packages'[i] = packages[i]]_vars
    BY NextInv DEF Evolves, Committed
  <1> QED BY <1>1, Invariant, PTL DEF Spec, PackagesMonotone

-----------------------------------------------------------------------------
(* The row and its files.                                                  *)

RowFits(p) ==
    /\ ErrFile \notin p.files => p.files = 0 .. p.count - 1
    /\ p.err => ErrFile \in p.files
    /\ Kind[p.body] = "large" /\ ErrFile \in p.files => p.err

\* What is not a clone fits; a package that waits to be unpacked has no error.
RowInv ==
    \A i \in Committed : Root(i) =>
        IF packages[i].mode = "raw_large" THEN packages[i].err = FALSE ELSE RowFits(packages[i])

\* The files of a ZIP that was unpacked.
LEMMA FileNumbers ==
    ASSUME NEW b \in Bodies
    PROVE  /\ ErrFile \notin AllFiles(b) /\ AllFiles(b) = 0 .. (1 + MemberCount[b]) - 1
           /\ ErrFile \notin {Original} /\ {Original} = 0 .. 1 - 1
           /\ \A k : ErrFile \in SomeFiles(k)
  <1>1. MemberCount[b] \in Nat /\ MemberCount[b] < ErrFile /\ ErrFile \in Nat
    BY Constants
  <1>2. AllFiles(b) = 0 .. MemberCount[b]
    BY <1>1, SMTT(30) DEF AllFiles, Original
  <1>3. (1 + MemberCount[b]) - 1 = MemberCount[b]
    BY <1>1, SMTT(30)
  <1>4. ErrFile \notin AllFiles(b) /\ ErrFile \notin {Original}
    BY <1>1, <1>2, SMTT(30) DEF Original
  <1>5. {Original} = 0 .. 1 - 1
    BY SMTT(30) DEF Original
  <1> QED BY <1>2, <1>3, <1>4, <1>5 DEF SomeFiles

\* What a request commits fits, if it is not a clone.
LEMMA NewRow ==
    ASSUME IInv, NEW r \in Requests, req[r].pc = "commit", NEW p \in NewPackage(r), p.canonical = 0
    PROVE  IF p.mode = "raw_large" THEN p.err = FALSE ELSE RowFits(p)
  <1> DEFINE b == req[r].body
  <1>1. b \in Bodies /\ Kind[b] \in {"xml", "small", "large"}
    BY Constants DEF IInv, Reading, Reads
  <1>2. req[r].canonical = 0
    <2> SUFFICES ASSUME req[r].canonical # 0 PROVE FALSE
      OBVIOUS
    <2> QED BY SMTT(30) DEF NewPackage, Package
  <1>3. CASE Kind[b] = "xml"
    <2>1. p = Package(b, 0, "single", 1, FALSE, {Original})
      BY <1>2, <1>3 DEF NewPackage
    <2> QED BY <1>1, <2>1, FileNumbers, SMTT(30) DEF Package, RowFits
  <1>4. CASE Kind[b] = "large"
    <2>1. p = Package(b, 0, "raw_large", 1, FALSE, {Original})
      BY <1>2, <1>4 DEF NewPackage
    <2> QED BY <2>1, SMTT(30) DEF Package
  <1>5. CASE Kind[b] = "small"
    <2>1. \/ p = Package(b, 0, "zip_with_members", 2, TRUE, {Original, ErrFile})
          \/ p = Package(b, 0, "zip_with_members", 1 + MemberCount[b], FALSE, AllFiles(b))
          \/ \E k \in 0 .. MemberCount[b] - 1 :
                 p = Package(b, 0, "zip_with_members", 1 + MemberCount[b], FALSE, SomeFiles(k))
      BY <1>2, <1>5 DEF NewPackage, SmallZip
    <2>2. p.mode = "zip_with_members" /\ p.body = b
      BY <2>1, SMTT(30) DEF Package
    <2>3. CASE p = Package(b, 0, "zip_with_members", 2, TRUE, {Original, ErrFile})
      BY <1>5, <2>2, <2>3, SMTT(30) DEF Package, RowFits
    <2>4. CASE p = Package(b, 0, "zip_with_members", 1 + MemberCount[b], FALSE, AllFiles(b))
      BY <1>1, <1>5, <2>2, <2>4, FileNumbers, SMTT(30) DEF Package, RowFits
    <2>5. CASE \E k \in 0 .. MemberCount[b] - 1 :
                 p = Package(b, 0, "zip_with_members", 1 + MemberCount[b], FALSE, SomeFiles(k))
      <3>1. ErrFile \in p.files /\ p.err = FALSE
        BY <1>1, <2>5, FileNumbers, SMTT(30) DEF Package
      <3> QED BY <1>5, <2>2, <3>1 DEF RowFits
    <2> QED BY <2>1, <2>3, <2>4, <2>5
  <1> QED BY <1>1, <1>3, <1>4, <1>5

\* What an unpack job writes fits.
LEMMA UnpackedRow ==
    ASSUME NEW p \in PackageRow, p.err = FALSE, NEW q \in Unpacked(p)
    PROVE  RowFits(q) /\ q.mode # "raw_large"
  <1>1. p.body \in Bodies
    BY DEF PackageRow
  <1>2. CASE q = [p EXCEPT !.mode = "zip_with_members", !.count = 1 + MemberCount[p.body],
                           !.files = AllFiles(p.body)]
    <2>1. /\ q.mode = "zip_with_members" /\ q.count = 1 + MemberCount[p.body]
          /\ q.files = AllFiles(p.body) /\ q.err = FALSE
      BY <1>2 DEF PackageRow
    <2> QED BY <1>1, <2>1, FileNumbers DEF RowFits
  <1>3. ASSUME NEW j, q = [p EXCEPT !.mode = "zip_with_members", !.count = 2, !.err = TRUE,
                                    !.files = SomeFiles(j)]
        PROVE  RowFits(q) /\ q.mode # "raw_large"
    <2>1. q.mode = "zip_with_members" /\ q.files = SomeFiles(j) /\ q.err = TRUE
      BY <1>3 DEF PackageRow
    <2> QED BY <1>1, <2>1, FileNumbers DEF RowFits
  <1> QED BY <1>2, <1>3 DEF Unpacked

\* Every step keeps the rows right.
LEMMA RowStep == IInv /\ RowInv /\ [Next]_vars => RowInv'
  <1> SUFFICES ASSUME IInv, RowInv, [Next]_vars PROVE RowInv'
    OBVIOUS
  <1>1. ASSUME NEW i \in Ids, NEW p, packages' = [packages EXCEPT ![i] = p],
               p.canonical = 0 => IF p.mode = "raw_large" THEN p.err = FALSE ELSE RowFits(p)
        PROVE  RowInv'
    <2>1. packages'[i] = p /\ \A j \in Ids \ {i} : packages'[j] = packages[j]
      BY <1>1 DEF IInv, Typed
    <2>2. ASSUME NEW j \in Committed', Root(j)'
          PROVE  IF packages'[j].mode = "raw_large" THEN packages'[j].err = FALSE ELSE RowFits(packages'[j])
      <3>1. CASE j = i
        BY <1>1, <2>1, <2>2, <3>1 DEF Root
      <3>2. CASE j # i
        <4>1. j \in Committed /\ packages'[j] = packages[j] /\ Root(j)
          BY <2>1, <2>2, <3>2 DEF Root, Committed
        <4> QED BY <4>1 DEF RowInv
      <3> QED BY <3>1, <3>2
    <2> QED BY <2>2 DEF RowInv, RowFits
  <1>2. ASSUME NEW r \in Requests, CommitPackage(r) PROVE RowInv'
    <2>1. PICK p \in NewPackage(r) : packages' = [packages EXCEPT ![req[r].id] = p]
      BY <1>2 DEF CommitPackage
    <2>2. req[r].pc = "commit" /\ req[r].id \in Ids
      BY <1>2 DEF CommitPackage, IInv, Typed, Request, Numbered
    <2> QED BY <1>1, <2>1, <2>2, NewRow
  <1>3. CASE packages' = packages
    BY <1>3, Same DEF RowInv, RowFits, Root
  <1>4. ASSUME NEW k \in Workers, UnpackTx(k) PROVE RowInv'
    <2>1. /\ worker[k].id \in Ids /\ worker[k].id \in Committed /\ Root(worker[k].id)
          /\ packages[worker[k].id] \in PackageRow
      BY <1>4, Busy DEF UnpackTx
    <2>2. CASE packages[worker[k].id].mode = "raw_large"
      <3>1. packages[worker[k].id].err = FALSE
        BY <2>1, <2>2 DEF RowInv
      <3>2. PICK p \in Unpacked(packages[worker[k].id]) : packages' = [packages EXCEPT ![worker[k].id] = p]
        BY <1>4, <2>2 DEF UnpackTx
      <3>3. RowFits(p) /\ p.mode # "raw_large"
        BY <2>1, <3>1, UnpackedRow
      <3> QED BY <1>1, <2>1, <3>2, <3>3
    <2>3. CASE packages[worker[k].id].mode # "raw_large"
      BY <1>3, <1>4, <2>3 DEF UnpackTx
    <2> QED BY <2>2, <2>3
  <1>5. ASSUME NEW k \in Workers, Propagate(k) PROVE RowInv'
    <2>1. /\ worker[k].clone \in Committed /\ packages[worker[k].clone] \in PackageRow
          /\ packages[worker[k].clone].canonical # 0 /\ worker[k].clone \in Ids
      <3>1. Works(k) /\ worker[k].pc = "propagate"
        BY <1>5 DEF Propagate, IInv, Working
      <3>2. worker[k].clone \in Clones(worker[k].id) /\ Root(worker[k].id)
        BY <3>1 DEF Works
      <3>3. worker[k].id # 0
        BY <3>2, Constants, SMTT(30) DEF Root, Committed
      <3>4. packages \in [Ids -> PackageRow \cup {None}]
        BY DEF IInv, Typed
      <3> QED BY <3>2, <3>3, <3>4 DEF Clones, Committed
    <2>2. PICK p : /\ packages' = [packages EXCEPT ![worker[k].clone] = p]
                   /\ p.canonical = packages[worker[k].clone].canonical
      <3> DEFINE u == UpdateAfterUnpack(packages[worker[k].clone], packages[worker[k].id])
                 p == [u EXCEPT !.files = packages[worker[k].clone].files \cup Extra(k)]
      <3>1. packages' = [packages EXCEPT ![worker[k].clone] = p]
        BY <1>5, <2>1 DEF Propagate, PropagateTo, IInv, Typed
      <3>2. p.canonical = packages[worker[k].clone].canonical
        BY <2>1 DEF UpdateAfterUnpack, PackageRow
      <3> QED BY <3>1, <3>2
    <2> QED BY <1>1, <2>1, <2>2
  <1> QED BY <1>2, <1>3, <1>4, <1>5, QuietStep

\* The row of a package that needs no unpacking agrees with its files, for
\* every number of members and every clone (persistZipMembers, ingestSmallZIP,
\* UpdatePackageAfterUnpack).
THEOREM Rows == Spec => []RowMatchesFiles
  <1>1. Init => RowInv
    BY DEF Init, RowInv, Committed
  <1>2. Spec => []RowInv
    BY <1>1, RowStep, Invariant, PTL DEF Spec
  <1>3. IInv /\ RowInv => RowMatchesFiles
    <2> SUFFICES ASSUME IInv, RowInv, NEW i \in Committed, packages[i].mode # "raw_large"
                 PROVE  RowFits(packages[i])
      BY DEF RowMatchesFiles, RowFits
    <2>1. CASE ~IsClone(i)
      BY <2>1 DEF RowInv, Root, IsClone
    <2>2. CASE IsClone(i)
      <3> PICK c : c = packages[i].canonical
        OBVIOUS
      <3>1. /\ Root(c) /\ c \in Committed /\ packages[c] \in PackageRow
            /\ packages[i] = [packages[c] EXCEPT !.canonical = c]
        BY <2>2 DEF IInv, Cloned, Copies, Root, Committed, Typed
      <3>2. /\ packages[i].mode = packages[c].mode /\ packages[i].body = packages[c].body
            /\ packages[i].files = packages[c].files /\ packages[i].count = packages[c].count
            /\ packages[i].err = packages[c].err
        BY <3>1 DEF PackageRow
      <3>3. RowFits(packages[c])
        BY <3>1, <3>2 DEF RowInv
      <3> QED BY <3>2, <3>3 DEF RowFits
    <2> QED BY <2>1, <2>2
  <1> QED BY <1>2, <1>3, Invariant, PTL

-----------------------------------------------------------------------------
(* The journal.                                                            *)

\* The steps that journal leave the packages as they are.
LEMMA JournalSteps ==
    ASSUME [Next]_vars
    PROVE  journal' = journal \/ (packages' = packages /\ \E e : journal' = Append(journal, e))
  <1>1. ASSUME NEW r \in Requests, RequestStep(r) \/ RequestFails(r), ~JournalPackage(r)
        PROVE  journal' = journal
    BY <1>1 DEF RequestStep, Post, GetCanonical, CreatePackage, CommitPackage, EnqueueNew,
                LoadPackage, RequestFails
  <1>2. ASSUME NEW k \in Workers, WorkerStep(k) \/ JobFails(k), ~JournalUnpacked(k)
        PROVE  journal' = journal
    BY <1>2 DEF WorkerStep, Take, GetPackage, UnpackTx, ListClones, GetClone, Propagate, PropagateTo,
                Finish, JobFails
  <1>3. CASE RecoverScan \/ RecoverEnqueue \/ Restart \/ UNCHANGED vars
    BY <1>3 DEF RecoverScan, RecoverEnqueue, Restart, vars
  <1>4. ASSUME NEW r \in Requests, JournalPackage(r)
        PROVE  packages' = packages /\ \E e : journal' = Append(journal, e)
    BY <1>4 DEF JournalPackage, Journal
  <1>5. ASSUME NEW k \in Workers, JournalUnpacked(k)
        PROVE  packages' = packages /\ (journal' = journal \/ \E e : journal' = Append(journal, e))
    BY <1>5 DEF JournalUnpacked, Journal
  <1> QED BY <1>1, <1>2, <1>3, <1>4, <1>5 DEF Next

\* The journal only grows.
LEMMA JournalExtends ==
    ASSUME IInv, [Next]_vars
    PROVE  \A n \in DOMAIN journal : n \in DOMAIN journal' /\ journal'[n] = journal[n]
  <1>1. CASE journal' = journal
    BY <1>1
  <1>2. ASSUME NEW e, journal' = Append(journal, e)
        PROVE  \A n \in DOMAIN journal : n \in DOMAIN journal' /\ journal'[n] = journal[n]
    BY <1>2, SMTT(30) DEF IInv, Typed
  <1> QED BY <1>1, <1>2, JournalSteps

\* Who is done was so before, has journaled in this step, or has no journal.
LEMMA Answered ==
    ASSUME IInv, [Next]_vars, HasJournal, NEW s \in Requests, req'[s].pc = "done"
    PROVE  (req[s].pc = "done" /\ req'[s].id = req[s].id) \/ JournalPackage(s)
  <1>1. Loading = "load"
    BY DEF Loading
  <1>2. req \in [Requests -> Request]
    BY DEF IInv, Typed
  <1>3. ASSUME NEW r \in Requests, RequestStep(r) \/ RequestFails(r)
        PROVE  (req[s].pc = "done" /\ req'[s].id = req[s].id) \/ JournalPackage(s)
    <2>1. CASE Post(r)
      BY <1>2, <2>1, SMTT(30) DEF Post, Request
    <2>2. CASE GetCanonical(r) \/ LoadPackage(r)
      BY <1>2, <2>2, SMTT(30) DEF GetCanonical, LoadPackage, LoadRow, LoadFiles, Request
    <2>3. CASE CreatePackage(r)
      BY <1>2, <2>3 DEF CreatePackage, Request
    <2>4. CASE CommitPackage(r)
      <3>1. PICK l \in {"enqueue", "load", "failed"} : End(r, l)
        BY <1>1, <2>4 DEF CommitPackage
      <3>2. [IdleRequest EXCEPT !.pc = l, !.id = req[r].id].pc = l
        BY DEF IdleRequest
      <3>3. req' = [req EXCEPT ![r] = [IdleRequest EXCEPT !.pc = l, !.id = req[r].id]]
        BY <3>1 DEF End
      <3>4. req'[r].pc = l /\ \A t \in Requests \ {r} : req'[t] = req[t]
        BY <1>2, <3>2, <3>3
      <3> QED BY <3>4
    <2>5. CASE EnqueueNew(r)
      BY <1>1, <1>2, <2>5 DEF EnqueueNew, Advance, Request
    <2>6. CASE JournalPackage(r)
      BY <1>2, <2>6 DEF JournalPackage, End
    <2>7. CASE RequestFails(r)
      BY <1>2, <2>7 DEF RequestFails, End, IdleRequest, Request
    <2> QED BY <1>3, <2>1, <2>2, <2>3, <2>4, <2>5, <2>6, <2>7 DEF RequestStep
  <1>4. CASE req' = req
    BY <1>4
  <1>5. ASSUME NEW k \in Workers, WorkerStep(k) \/ JobFails(k) PROVE req' = req
    BY <1>5 DEF WorkerStep, Take, GetPackage, UnpackTx, ListClones, GetClone, Propagate, PropagateTo,
                JournalUnpacked, Finish, JobFails
  <1>6. CASE Restart
    BY <1>2, <1>6 DEF Restart, IdleRequest, Request
  <1>7. CASE RecoverScan \/ RecoverEnqueue \/ UNCHANGED vars
    BY <1>4, <1>7 DEF RecoverScan, RecoverEnqueue, vars
  <1> QED BY <1>3, <1>4, <1>5, <1>6, <1>7 DEF Next

\* A package that has been answered is in the journal, whoever restarts or
\* fails meanwhile (loadAndJournal).
THEOREM Acked == Spec => []AckedJournaled
  <1>1. Init => AckedJournaled
    BY SMTT(30) DEF Init, IdleRequest, AckedJournaled
  <1>2. IInv /\ AckedJournaled /\ [Next]_vars => AckedJournaled'
    <2> SUFFICES ASSUME IInv, AckedJournaled, [Next]_vars, NEW r \in Requests, HasJournal,
                        req'[r].pc = "done"
                 PROVE  \E n \in DOMAIN journal' : journal'[n].id = req'[r].id
      BY DEF AckedJournaled
    <2>1. CASE req[r].pc = "done" /\ req'[r].id = req[r].id
      <3>1. PICK n \in DOMAIN journal : journal[n].id = req[r].id
        BY <2>1 DEF AckedJournaled
      <3> QED BY <2>1, <3>1, JournalExtends
    <2>2. CASE JournalPackage(r)
      <3>1. req'[r].id = req[r].id
        BY <2>2 DEF JournalPackage, End, IdleRequest, IInv, Typed, Request
      <3>2. journal' = Append(journal, [id |-> req[r].id, package |-> req[r].row]) /\ journal \in Seq(Entry)
        BY <2>2 DEF JournalPackage, Journal, IInv, Typed
      <3>3. /\ Len(journal) + 1 \in DOMAIN journal'
            /\ journal'[Len(journal) + 1] = [id |-> req[r].id, package |-> req[r].row]
        BY <3>2, SMTT(30)
      <3> QED BY <3>1, <3>3, SMTT(30)
    <2> QED BY <2>1, <2>2, Answered
  <1> QED BY <1>1, <1>2, Invariant, PTL DEF Spec

-----------------------------------------------------------------------------
(* The abstract table.                                                     *)

\* A commit creates a package or clones one.
LEMMA TableCommits ==
    ASSUME IInv, NEW r \in Requests, CommitPackage(r)
    PROVE  Table!Next
  <1> PICK i : i = req[r].id
    OBVIOUS
  <1>1. req[r].pc = "commit" /\ i \in Ids /\ packages[i] = None
    BY DEF CommitPackage, IInv, Typed, Request, Numbered
  <1>2. PICK p \in NewPackage(r) : packages' = [packages EXCEPT ![i] = p]
    BY DEF CommitPackage
  <1>3. Fits(p, i)
    BY <1>1, NewFits
  <1>4. packages'[i] = p /\ p \in PackageRow /\ packages' = [packages EXCEPT ![i] = packages'[i]]
    BY <1>1, <1>2, <1>3 DEF IInv, Typed, Fits
  <1>5. Table!Write(i) /\ ~Table!Present(i)
    BY <1>1, <1>4 DEF Table!Write, Table!Present
  <1>6. CASE p.canonical = 0
    BY <1>1, <1>4, <1>5, <1>6 DEF Table!Next, Table!Create
  <1>7. CASE p.canonical # 0
    <2> PICK c : c = p.canonical
      OBVIOUS
    <2>1. /\ Root(c) /\ c < i /\ packages[c].body = p.body /\ p.files \subseteq packages[c].files
          /\ p.mode # "raw_large" => p = [packages[c] EXCEPT !.canonical = c]
      BY <1>3, <1>7 DEF Fits
    <2>2. c \in Ids /\ Table!Root(c)
      BY <2>1 DEF Root, Committed, Table!Root, Table!Present
    <2>3. Table!Clone(i)
      BY <1>4, <1>5, <2>1, <2>2 DEF Table!Clone, Table!Waits
    <2> QED BY <1>1, <2>3 DEF Table!Next
  <1> QED BY <1>6, <1>7

\* The transaction of a job unpacks a package, or leaves it.
LEMMA TableUnpacks ==
    ASSUME IInv, NEW k \in Workers, UnpackTx(k)
    PROVE  Table!Next \/ packages' = packages
  <1> PICK i : i = worker[k].id
    OBVIOUS
  <1>1. i \in Ids /\ Root(i) /\ i \in Committed /\ packages[i] \in PackageRow
    BY Busy DEF UnpackTx
  <1>2. CASE packages[i].mode # "raw_large"
    BY <1>2 DEF UnpackTx
  <1>3. CASE packages[i].mode = "raw_large"
    <2>1. PICK p \in Unpacked(packages[i]) : packages' = [packages EXCEPT ![i] = p]
      BY <1>3 DEF UnpackTx
    <2>2. p.mode = "zip_with_members"
      BY <1>1 DEF Unpacked, PackageRow
    <2>3. packages'[i] = p /\ packages' = [packages EXCEPT ![i] = packages'[i]]
      BY <1>1, <2>1 DEF IInv, Typed
    <2>4. IInv' /\ Evolves
      BY UnpackTxStep
    <2>5. /\ packages'[i] \in PackageRow /\ packages'[i].body = packages[i].body
          /\ packages'[i].canonical = 0 /\ packages[i].files \subseteq packages'[i].files
      BY <1>1, <2>4 DEF Evolves, IInv, Typed, Committed, Root
    <2>6. Table!Unpack(i)
      BY <1>1, <1>3, <2>2, <2>3, <2>5
      DEF Table!Unpack, Table!Root, Table!Present, Table!Waits, Table!Write, Root, Committed
    <2> QED BY <1>1, <2>6 DEF Table!Next
  <1> QED BY <1>2, <1>3

\* The propagation completes a clone.
LEMMA TableCompletes ==
    ASSUME IInv, NEW k \in Workers, Propagate(k)
    PROVE  Table!Next
  <1> PICK i, c : i = worker[k].id /\ c = worker[k].clone
    OBVIOUS
  <1>1. /\ Root(i) /\ i \in Ids /\ packages[i].mode = "zip_with_members"
        /\ c \in Clones(i) /\ packages[c].mode = "raw_large"
    BY Busy DEF Propagate, IInv, Working, Works
  <1>2. /\ c \in Committed /\ c \in Ids /\ packages[c].canonical = i /\ i # 0 /\ c # i
        /\ packages[c] \in PackageRow
    BY <1>1, Constants, SMTT(30) DEF Clones, Committed, Root, IInv, Typed
  <1>3. PICK p : packages' = [packages EXCEPT ![c] = p] /\ p.mode = "zip_with_members"
    <2> DEFINE u == UpdateAfterUnpack(packages[c], packages[i])
               p == [u EXCEPT !.files = packages[c].files \cup Extra(k)]
    <2>1. packages' = [packages EXCEPT ![c] = p]
      BY <1>2 DEF Propagate, PropagateTo, IInv, Typed
    <2>2. p.mode = "zip_with_members"
      BY <1>1, <1>2 DEF UpdateAfterUnpack, PackageRow
    <2> QED BY <2>1, <2>2
  <1>4. packages'[c] = p /\ packages'[i] = packages[i]
    BY <1>1, <1>2, <1>3 DEF IInv, Typed
  <1>5. Cloned' /\ Evolves
    BY PropagateStep DEF IInv
  <1>6. c \in Committed' /\ packages'[c].canonical = i
    BY <1>2, <1>5 DEF Evolves
  <1>7. Copies(c, i)'
    BY <1>2, <1>5, <1>6 DEF Cloned, IsClone
  <1>8. p = [packages[i] EXCEPT !.canonical = i]
    BY <1>3, <1>4, <1>7 DEF Copies
  <1>9. Table!Complete(c)
    BY <1>1, <1>2, <1>3, <1>8
    DEF Table!Complete, Table!Root, Table!Present, Table!Waits, Root, Committed
  <1> QED BY <1>2, <1>9 DEF Table!Next

\* The committed packages behave as the abstract table does, for any number of
\* requests and workers (ProcessPackage, UnpackLargePackage,
\* propagateUnpackToClones).
THEOREM Refines == Spec => ImplementsTable
  <1>1. Init => Table!Init
    BY DEF Init, Table!Init
  <1>2. IInv /\ [Next]_vars => [Table!Next]_packages
    BY TableCommits, TableUnpacks, TableCompletes, QuietStep
  <1> QED BY <1>1, <1>2, Invariant, PTL DEF Spec, ImplementsTable, Table!Spec

-----------------------------------------------------------------------------
(* Rebuild.                                                                *)

\* The run of Rebuild over the first k entries.
IsRun(f, k) ==
    f = [n \in 0 .. k |-> IF n = 0 THEN [ok |-> TRUE, tables |-> [i \in Ids |-> None]]
                         ELSE RestoreEntry(f[n - 1], journal[n])]

Tables == [Ids -> PackageRow \cup {None}]
RunType == [ok : BOOLEAN, tables : Tables]

\* The rows hold no file that the packages lack.
Within(t) == \A i \in Ids : t[i] # None => packages[i] # None /\ t[i].files \subseteq packages[i].files

\* The rows hold what entry e says.
Holding(t, e) == t[e.id] # None /\ e.package.files \subseteq t[e.id].files

\* One entry: what the rows held they hold, and what it says they hold too.
LEMMA Restoring ==
    ASSUME NEW run \in RunType, NEW e \in Entry, None \notin PackageRow,
           packages[e.id] # None, e.package.files \subseteq packages[e.id].files, Within(run.tables),
           NEW next, next = RestoreEntry(run, e)
    PROVE  /\ next \in RunType /\ Within(next.tables) /\ (next.ok => run.ok /\ Holding(next.tables, e))
           /\ \A f \in Entry : Holding(run.tables, f) => Holding(next.tables, f)
  <1>1. run.ok \in BOOLEAN /\ run.tables \in Tables /\ run = [ok |-> run.ok, tables |-> run.tables]
    BY DEF RunType
  <1>2. e.id \in Ids /\ e.package \in PackageRow /\ e.package # None
    BY DEF Entry
  <1>3. CASE ~run.ok \/ Refused(run.tables, e)
    <2>1. next = [ok |-> FALSE, tables |-> run.tables]
      BY <1>1, <1>3 DEF RestoreEntry
    <2>2. next \in RunType /\ next.ok = FALSE /\ next.tables = run.tables
      BY <1>1, <2>1, SMTT(30) DEF RunType
    <2> QED BY <2>2
  <1>4. CASE run.ok /\ ~Refused(run.tables, e)
    <2>1. PICK row : row = Restored(run.tables, e)
      OBVIOUS
    <2>2. next = [run EXCEPT !.tables = [run.tables EXCEPT ![e.id] = row]]
      BY <1>4, <2>1 DEF RestoreEntry
    <2>3. next.ok = run.ok /\ next.tables = [run.tables EXCEPT ![e.id] = row]
          /\ next = [ok |-> run.ok, tables |-> [run.tables EXCEPT ![e.id] = row]]
      BY <1>1, <2>2
    <2>4. PICK old : old = IF run.tables[e.id] = None THEN {} ELSE run.tables[e.id].files
      OBVIOUS
    <2>5. row = [e.package EXCEPT !.files = e.package.files \cup old]
      BY <2>1, <2>4 DEF Restored
    <2>6. run.tables[e.id] \in PackageRow \cup {None}
      BY <1>1, <1>2 DEF Tables
    <2>7. old \subseteq 0 .. ErrFile /\ old \subseteq packages[e.id].files
      BY <1>2, <2>4, <2>6 DEF PackageRow, Within
    <2>8. row \in PackageRow /\ row.files = e.package.files \cup old
      BY <1>2, <2>5, <2>7 DEF PackageRow
    <2>9. row # None
      BY <2>8
    <2>10. [run.tables EXCEPT ![e.id] = row] \in Tables
      BY <1>1, <1>2, <2>8 DEF Tables
    <2>11. next \in RunType
      BY <1>1, <2>3, <2>10 DEF RunType
    <2>12. /\ next.tables[e.id] = row
           /\ \A i \in Ids : i # e.id => next.tables[i] = run.tables[i]
      BY <1>1, <1>2, <2>3 DEF Tables
    <2>13. Within(next.tables)
      BY <2>7, <2>8, <2>12 DEF Within
    <2>14. Holding(next.tables, e)
      BY <2>8, <2>9, <2>12 DEF Holding
    <2>15. ASSUME NEW f \in Entry, Holding(run.tables, f)
           PROVE  Holding(next.tables, f)
      <3>1. f.id \in Ids
        BY DEF Entry
      <3>2. CASE f.id = e.id
        <4>1. f.package.files \subseteq old
          BY <2>4, <2>15, <3>2 DEF Holding
        <4> QED BY <2>8, <2>9, <2>12, <3>2, <4>1 DEF Holding
      <3>3. CASE f.id # e.id
        BY <2>12, <2>15, <3>1, <3>3 DEF Holding
      <3> QED BY <3>2, <3>3
    <2> QED BY <1>4, <2>3, <2>11, <2>13, <2>14, <2>15
  <1> QED BY <1>3, <1>4

\* The rows after the whole journal.
Restores(run) ==
    /\ run \in RunType /\ Within(run.tables)
    /\ run.ok => \A m \in DOMAIN journal : Holding(run.tables, journal[m])

\* Run is what its definition says, and restores the journal.  What holds of
\* every entry is carried from state to state, as the journal grows.
Running ==
    /\ \E f : IsRun(f, Len(journal))
    /\ \A f : IsRun(f, Len(journal)) => Restores(f[Len(journal)])

\* Nothing is restored from the empty journal.
LEMMA RunStarts == Init => Running
  <1> SUFFICES ASSUME Init PROVE Running
    OBVIOUS
  <1> DEFINE empty == [ok |-> TRUE, tables |-> [i \in Ids |-> None]]
  <1>1. journal = << >> /\ Len(journal) = 0 /\ DOMAIN journal = {}
    BY SMTT(30) DEF Init
  <1>2. \A f : IsRun(f, 0) <=> f = [n \in 0 .. 0 |-> empty]
    BY SMTT(30) DEF IsRun
  <1>3. empty.tables = [i \in Ids |-> None] /\ empty \in RunType
    BY DEF RunType, Tables
  <1>4. Within(empty.tables)
    BY <1>3 DEF Within
  <1>5. Restores(empty)
    <2> HIDE DEF empty
    <2> QED BY <1>1, <1>3, <1>4 DEF Restores
  <1>6. \A f : IsRun(f, 0) => Restores(f[0])
    <2> HIDE DEF empty
    <2> SUFFICES ASSUME NEW f, IsRun(f, 0) PROVE f[0] = empty
      BY <1>5
    <2> QED BY <1>2, SMTT(30)
  <1>7. \E f : IsRun(f, 0)
    BY <1>2
  <1> QED BY <1>1, <1>6, <1>7 DEF Running

\* Packages that evolve do not disturb it.
LEMMA RunKept ==
    ASSUME IInv, Running, Evolves, journal' = journal
    PROVE  Running'
  <1>1. \A f : IsRun(f, Len(journal))' <=> IsRun(f, Len(journal))
    BY DEF IsRun
  <1>2. ASSUME NEW t \in Tables, Within(t)
        PROVE  Within(t)'
    BY <1>2 DEF Within, Evolves, Committed
  <1>3. ASSUME NEW run, Restores(run)
        PROVE  Restores(run)'
    <2>1. run \in RunType /\ Within(run.tables) /\ run.tables \in Tables
      BY <1>3 DEF Restores, RunType
    <2>2. Within(run.tables)'
      BY <1>2, <2>1
    <2> QED BY <1>3, <2>1, <2>2 DEF Restores, Holding
  <1> QED BY <1>1, <1>3 DEF Running

\* One more entry.
LEMMA RunGrows ==
    ASSUME IInv, IInv', Running, packages' = packages, NEW e, journal' = Append(journal, e)
    PROVE  Running'
  <1>1. PICK k : k = Len(journal)
    OBVIOUS
  <1>2. /\ journal \in Seq(Entry) /\ k \in Nat /\ DOMAIN journal = 1 .. k
        /\ journal' \in Seq(Entry) /\ Len(journal') = k + 1 /\ DOMAIN journal' = 1 .. k + 1
        /\ journal'[k + 1] = e /\ \A n \in 1 .. k : journal'[n] = journal[n]
    <2>1. journal \in Seq(Entry) /\ journal' \in Seq(Entry)
      BY DEF IInv, Typed
    <2>2. k \in Nat /\ DOMAIN journal = 1 .. k
      BY <1>1, <2>1, SMTT(30)
    <2>3. /\ Len(journal') = k + 1 /\ journal'[k + 1] = e
          /\ \A n \in 1 .. k : journal'[n] = journal[n]
      BY <1>1, <2>1, SMTT(30)
    <2>4. DOMAIN journal' = 1 .. k + 1
      BY <2>1, <2>3, SMTT(60)
    <2> QED BY <2>1, <2>2, <2>3, <2>4
  <1>3. e \in Entry /\ packages[e.id] # None /\ e.package.files \subseteq packages[e.id].files
    <2>1. k + 1 \in DOMAIN journal'
      BY <1>2, SMTT(30)
    <2>2. journal'[k + 1] \in Entry
      BY <1>2, <2>1, SMTT(30)
    <2> QED BY <1>2, <2>1, <2>2, SMTT(30) DEF IInv, Journaled, Snapshot, Committed
  <1>4. \A n \in 0 .. k + 1 : n = k + 1 \/ n \in 0 .. k
    BY <1>2, SMTT(30)
  <1>5. /\ \A n \in 0 .. k : n \in 0 .. k + 1 /\ n # k + 1 /\ (n # 0 => n \in 1 .. k /\ n - 1 \in 0 .. k)
        /\ k \in 0 .. k /\ k + 1 # 0 /\ (k + 1) - 1 = k /\ k + 1 \in 0 .. k + 1
    BY <1>2, SMTT(30)
  <1>6. \E f : IsRun(f, Len(journal))'
    <2>1. PICK f : IsRun(f, k)
      BY <1>1 DEF Running
    <2> DEFINE g == [n \in 0 .. k + 1 |-> IF n = k + 1 THEN RestoreEntry(f[k], e) ELSE f[n]]
    <2>2. g[k + 1] = RestoreEntry(f[k], e) /\ \A n \in 0 .. k : g[n] = f[n]
      BY <1>5
    <2>3. g = [n \in 0 .. k + 1 |-> g[n]]
      OBVIOUS
    <2> HIDE DEF g
    <2>4. ASSUME NEW n \in 0 .. k + 1
          PROVE  g[n] = IF n = 0 THEN [ok |-> TRUE, tables |-> [i \in Ids |-> None]]
                        ELSE RestoreEntry(g[n - 1], journal'[n])
      <3>1. CASE n = k + 1
        BY <1>2, <1>5, <2>2, <3>1
      <3>2. CASE n \in 0 .. k
        <4>1. f[n] = IF n = 0 THEN [ok |-> TRUE, tables |-> [i \in Ids |-> None]]
                     ELSE RestoreEntry(f[n - 1], journal[n])
          BY <2>1, <3>2 DEF IsRun
        <4> QED BY <1>2, <1>5, <2>2, <3>2, <4>1
      <3> QED BY <1>4, <2>4, <3>1, <3>2
    <2>5. IsRun(g, k + 1)'
      BY <2>3, <2>4 DEF IsRun
    <2> QED BY <1>2, <2>5
  <1>7. ASSUME NEW g, IsRun(g, k + 1)'
        PROVE  Restores(g[k + 1])'
    <2> DEFINE f == [n \in 0 .. k |-> g[n]]
    <2>1. \A n \in 0 .. k : f[n] = g[n]
      OBVIOUS
    <2>2. f = [n \in 0 .. k |-> f[n]]
      OBVIOUS
    <2> HIDE DEF f
    <2>3. ASSUME NEW n \in 0 .. k
          PROVE  f[n] = IF n = 0 THEN [ok |-> TRUE, tables |-> [i \in Ids |-> None]]
                        ELSE RestoreEntry(f[n - 1], journal[n])
      <3>1. g[n] = IF n = 0 THEN [ok |-> TRUE, tables |-> [i \in Ids |-> None]]
                   ELSE RestoreEntry(g[n - 1], journal'[n])
        BY <1>5, <1>7, <2>3 DEF IsRun
      <3> QED BY <1>2, <1>5, <2>1, <2>3, <3>1
    <2>4. IsRun(f, k)
      BY <2>2, <2>3 DEF IsRun
    <2>5. Restores(g[k])
      BY <1>1, <1>5, <2>1, <2>4 DEF Running
    <2>6. g[k + 1] = RestoreEntry(g[k], e)
      BY <1>2, <1>5, <1>7 DEF IsRun
    <2>7. PICK run : run = g[k]
      OBVIOUS
    <2>8. PICK next : next = g[k + 1]
      OBVIOUS
    <2>9. run \in RunType /\ Within(run.tables) /\ next = RestoreEntry(run, e)
      BY <2>5, <2>6, <2>7, <2>8 DEF Restores
    <2>10. /\ next \in RunType /\ Within(next.tables) /\ (next.ok => run.ok /\ Holding(next.tables, e))
           /\ \A d \in Entry : Holding(run.tables, d) => Holding(next.tables, d)
      BY <1>3, <2>9, Constants, Restoring
    <2>11. ASSUME next.ok, NEW m \in DOMAIN journal'
           PROVE  Holding(next.tables, journal'[m])
      <3>1. CASE m = k + 1
        BY <1>2, <2>10, <2>11, <3>1
      <3>2. CASE m \in 1 .. k
        <4>1. journal[m] \in Entry /\ journal'[m] = journal[m]
          BY <1>2, <3>2, SMTT(30)
        <4>2. Holding(run.tables, journal[m])
          BY <1>2, <2>5, <2>7, <2>10, <2>11, <3>2 DEF Restores
        <4> QED BY <2>10, <4>1, <4>2
      <3>3. m = k + 1 \/ m \in 1 .. k
        BY <1>2, <2>11, SMTT(30)
      <3> QED BY <3>1, <3>2, <3>3
    <2>12. Within(next.tables)'
      BY <2>10 DEF Within
    <2>13. Restores(next)'
      BY <2>10, <2>11, <2>12 DEF Restores, Holding
    <2> QED BY <2>8, <2>13
  <1> QED BY <1>2, <1>6, <1>7 DEF Running

\* Rebuild, applied to the journal of any state, restores every package that was
\* answered, with the files the journal tells of and none that the package lacks,
\* for any number of entries in any order (restoreJournalEntry).
THEOREM Rebuilds == Spec => []RebuildSound
  <1>1. ASSUME IInv, AckedJournaled, Running
        PROVE  RebuildSound
    <2>1. PICK t : t = Rebuilt.tables
      OBVIOUS
    <2>2. journal \in Seq(Entry) /\ DOMAIN journal = 1 .. Len(journal)
      BY <1>1, SMTT(30) DEF IInv, Typed
    <2>3. Restores(Rebuilt)
      <3>1. Run = CHOOSE f : IsRun(f, Len(journal))
        BY DEF Run, IsRun
      <3>2. IsRun(Run, Len(journal))
        BY <1>1, <3>1 DEF Running
      <3> QED BY <1>1, <3>2 DEF Running, Rebuilt
    <2> SUFFICES ASSUME Rebuilt.ok
                 PROVE  /\ \A r \in Requests : HasJournal /\ req[r].pc = "done" => t[req[r].id] # None
                        /\ \A n \in DOMAIN journal :
                               /\ journal[n].package.files \subseteq t[journal[n].id].files
                               /\ t[journal[n].id].files \subseteq packages[journal[n].id].files
      BY <2>1 DEF RebuildSound
    <2>4. \A n \in DOMAIN journal : Holding(t, journal[n])
      BY <2>1, <2>3 DEF Restores
    <2>5. \A n \in DOMAIN journal : journal[n].id \in Ids
      <3>1. \A n \in DOMAIN journal : journal[n] \in Entry
        BY <2>2, SMTT(30)
      <3> QED BY <3>1 DEF Entry
    <2>6. Within(t)
      BY <2>1, <2>3 DEF Restores
    <2>7. \A n \in DOMAIN journal : t[journal[n].id].files \subseteq packages[journal[n].id].files
      BY <2>4, <2>5, <2>6 DEF Holding, Within
    <2>8. \A r \in Requests : HasJournal /\ req[r].pc = "done" => t[req[r].id] # None
      BY <1>1, <2>4 DEF Holding, AckedJournaled
    <2> QED BY <2>4, <2>7, <2>8 DEF Holding
  <1>2. IInv /\ IInv' /\ Running /\ [Next]_vars => Running'
    BY JournalSteps, NextInv, RunKept, RunGrows
  <1> QED BY <1>1, <1>2, RunStarts, Invariant, Acked, PTL DEF Spec
=============================================================================
