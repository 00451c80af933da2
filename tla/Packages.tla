------------------------------ MODULE Packages ------------------------------
(***************************************************************************)
(* Package ingest: a body with a known hash is cloned from the package that *)
(* has it, a small ZIP or an XML is stored at once, a large ZIP is stored   *)
(* as it is and unpacked in the background by the UnpackQueue, which also   *)
(* completes the clones made meanwhile.  Every request journals a snapshot  *)
(* of its package, from which recovery.Rebuild restores the tables.        *)
(*                                                                         *)
(* Each query and each transaction of the repository is one step: the      *)
(* transactions here lock the one row they depend on or depend on none     *)
(* (what happens inside one is module Blobs).  Files are the numbers of     *)
(* the members, 0 for the original and ErrFile for the unpack error; names, *)
(* blobs and supplier statistics are left out.                             *)
(***************************************************************************)
EXTENDS Naturals, Sequences

CONSTANTS
    Requests,    \* POST /v1/packages requests
    Workers,     \* goroutines of the UnpackQueue
    Bodies,      \* the bodies a request may bring, each standing for its hash
    Kind,        \* Kind[b]: "xml", "small" or "large"
    MemberCount, \* MemberCount[b]: the members of the ZIP b
    MaxMembers,  \* no ZIP has more
    QueueSize,   \* capacity of UnpackQueue.ch
    MaxId,       \* the last value of the id sequence
    HasJournal,  \* the service has a journal
    MaxFaults,   \* bound on crashes and failed unpack jobs
    None

Ids == 1 .. MaxId
Original == 0
ErrFile == MaxMembers + 1

\* The row of a package, and its files.
PackageRow ==
    [body : Bodies, canonical : Ids \cup {0}, mode : {"single", "zip_with_members", "raw_large"},
     count : Nat, err : BOOLEAN, files : SUBSET (0 .. ErrFile)]

ASSUME PackagesAssumption ==
    /\ MaxId \in Nat /\ HasJournal \in BOOLEAN /\ QueueSize \in Nat \ {0} /\ MaxFaults \in Nat
    /\ MaxMembers \in Nat /\ None \notin PackageRow
    /\ \A b \in Bodies : Kind[b] \in {"xml", "small", "large"} /\ MemberCount[b] \in 0 .. MaxMembers

VARIABLES
    packages,  \* packages[i]: the committed row and files of package i, or None
    nextId,    \* the id sequence
    req,       \* req[r]: where request r is and what it has read
    worker,    \* worker[k]: where worker k is and what it has read
    queue,     \* UnpackQueue.ch
    inflight,  \* UnpackQueue.inflight
    scan,      \* the ids the recovery scan has read and not enqueued yet
    journal,   \* ingest_journal.ndjson
    faults

vars == <<packages, nextId, req, worker, queue, inflight, scan, journal, faults>>

Committed == {i \in Ids : packages[i] # None}
IsClone(i) == packages[i].canonical # 0
Clones(i) == {j \in Committed : packages[j].canonical = i}

Package(b, canonical, mode, count, err, files) ==
    [body |-> b, canonical |-> canonical, mode |-> mode, count |-> count,
     err |-> err, files |-> files]

IdleRequest == [pc |-> "idle", body |-> None, canonical |-> 0, row |-> None, id |-> 0]
IdleWorker == [pc |-> "idle", id |-> 0, todo |-> {}, clone |-> 0, existing |-> {}]

Advance(r, l) == req' = [req EXCEPT ![r].pc = l]
Journal(i, p) == journal' = Append(journal, [id |-> i, package |-> p])
End(r, l) == req' = [req EXCEPT ![r] = [IdleRequest EXCEPT !.pc = l, !.id = req[r].id]]

-----------------------------------------------------------------------------
(* ProcessPackage.                                                         *)

\* Mutant: the hash is not looked at.
LowestAny(b) == {i \in Committed : \A j \in Committed : i <= j}

\* FindCanonicalPackageID: the lowest id with this hash.
Lowest(b) == {i \in Committed : /\ packages[i].body = b
                                /\ \A j \in Committed : packages[j].body = b => i <= j}

Post(r) ==
    /\ req[r].pc = "idle"
    /\ \E b \in Bodies :
           \/ /\ Lowest(b) = {}
              /\ req' = [req EXCEPT ![r].pc = "create", ![r].body = b]
           \/ \E i \in Lowest(b) :
                  req' = [req EXCEPT ![r].pc = "cloneRow", ![r].body = b, ![r].canonical = i]
    /\ UNCHANGED <<packages, nextId, worker, queue, inflight, scan, journal, faults>>

\* GetPackage is two queries: the row, then the files.
LoadRow(r, i, l) == req' = [req EXCEPT ![r].pc = l, ![r].row = packages[i]]
LoadFiles(r, i, l) == req' = [req EXCEPT ![r].pc = l, ![r].row.files = packages[i].files]

GetCanonical(r) ==
    /\ \/ req[r].pc = "cloneRow" /\ LoadRow(r, req[r].canonical, "cloneFiles")
       \/ req[r].pc = "cloneFiles" /\ LoadFiles(r, req[r].canonical, "create")
    /\ UNCHANGED <<packages, nextId, worker, queue, inflight, scan, journal, faults>>

\* Mutant: the package is journaled inside the transaction.
JournalEarly(r) ==
    /\ req[r].pc = "create" /\ nextId \in Ids
    /\ req' = [req EXCEPT ![r].pc = "commit", ![r].id = nextId]
    /\ nextId' = nextId + 1
    /\ Journal(nextId, Package(req[r].body, req[r].canonical, "raw_large", 1, FALSE, {}))
    /\ UNCHANGED <<packages, worker, queue, inflight, scan, faults>>

\* CreatePackage takes an id long before the transaction commits.  When there
\* is none left the statement fails (RequestFails).
CreatePackage(r) ==
    /\ req[r].pc = "create" /\ nextId \in Ids
    /\ req' = [req EXCEPT ![r].pc = "commit", ![r].id = nextId]
    /\ nextId' = nextId + 1
    /\ UNCHANGED <<packages, worker, queue, inflight, scan, journal, faults>>

AllFiles(b) == {Original} \cup (1 .. MemberCount[b])
SomeFiles(k) == {Original} \cup (1 .. k) \cup {ErrFile}

\* ingestSmallZIP: file_count and unpack_error are settled before the members
\* are stored; what persistZipMembers returns is not used.
SmallZip(b) ==
    {Package(b, 0, "zip_with_members", 2, TRUE, {Original, ErrFile}),
     Package(b, 0, "zip_with_members", 1 + MemberCount[b], FALSE, AllFiles(b))}
      \cup {Package(b, 0, "zip_with_members", 1 + MemberCount[b], FALSE, SomeFiles(k)) :
                k \in 0 .. MemberCount[b] - 1}

\* What the transaction of a request writes.
NewPackage(r) ==
    LET b == req[r].body row == req[r].row IN
    IF req[r].canonical # 0
    THEN {Package(b, req[r].canonical, row.mode, row.count, row.err, row.files)}
    ELSE CASE Kind[b] = "xml" -> {Package(b, 0, "single", 1, FALSE, {Original})}
           [] Kind[b] = "large" -> {Package(b, 0, "raw_large", 1, FALSE, {Original})}
           [] Kind[b] = "small" -> SmallZip(b)

\* loadAndJournal follows.  Without a journal it only reads what the response
\* shows.
Loading == IF HasJournal THEN "load" ELSE "done"

\* The commit.  The connection may break before the request learns of it.
CommitPackage(r) ==
    /\ req[r].pc = "commit"
    /\ \E p \in NewPackage(r) :
           /\ packages' = [packages EXCEPT ![req[r].id] = p]
           /\ \/ End(r, IF p.canonical = 0 /\ p.mode = "raw_large" THEN "enqueue" ELSE Loading)
              \/ End(r, "failed")
    /\ UNCHANGED <<nextId, worker, queue, inflight, scan, journal, faults>>

\* Enqueue drops the job when the channel is full.
Enqueue(i) ==
    IF i \in inflight \/ Len(queue) = QueueSize
    THEN UNCHANGED <<queue, inflight>>
    ELSE queue' = Append(queue, i) /\ inflight' = inflight \cup {i}

EnqueueNew(r) ==
    /\ req[r].pc = "enqueue"
    /\ Enqueue(req[r].id)
    /\ Advance(r, Loading)
    /\ UNCHANGED <<packages, nextId, worker, scan, journal, faults>>

\* loadAndJournal; the response is built from the same snapshot.
LoadPackage(r) ==
    /\ \/ req[r].pc = "load" /\ LoadRow(r, req[r].id, "loadFiles")
       \/ req[r].pc = "loadFiles" /\ LoadFiles(r, req[r].id, "journal")
    /\ UNCHANGED <<packages, nextId, worker, queue, inflight, scan, journal, faults>>

\* Mutant: the request answers before it has journaled.
AnswerWithoutJournal(r) ==
    /\ req[r].pc = "journal"
    /\ End(r, "done")
    /\ UNCHANGED <<packages, nextId, worker, queue, inflight, scan, journal, faults>>

JournalPackage(r) ==
    /\ req[r].pc = "journal"
    /\ Journal(req[r].id, req[r].row)
    /\ End(r, "done")
    /\ UNCHANGED <<packages, nextId, worker, queue, inflight, scan, faults>>

\* A query, a statement, the commit or the journal fails: the caller gets an
\* error.  What has been committed stays.
RequestFails(r) ==
    /\ req[r].pc \notin {"idle", "enqueue", "done", "failed"}
    /\ End(r, "failed")
    /\ UNCHANGED <<packages, nextId, worker, queue, inflight, scan, journal, faults>>

-----------------------------------------------------------------------------
(* UnpackQueue.                                                            *)

\* Mutant: a job that has been taken is no longer in flight.
TakeForgets(k) ==
    /\ worker[k].pc = "idle" /\ queue # << >>
    /\ worker' = [worker EXCEPT ![k] = [IdleWorker EXCEPT !.pc = "get", !.id = Head(queue)]]
    /\ queue' = Tail(queue) /\ inflight' = inflight \ {Head(queue)}
    /\ UNCHANGED <<packages, nextId, req, scan, journal, faults>>

Take(k) ==
    /\ worker[k].pc = "idle" /\ queue # << >>
    /\ worker' = [worker EXCEPT ![k] = [IdleWorker EXCEPT !.pc = "get", !.id = Head(queue)]]
    /\ queue' = Tail(queue)
    /\ UNCHANGED <<packages, nextId, req, inflight, scan, journal, faults>>

\* UnpackLargePackage reads the package, and its original if it is raw_large.
GetPackage(k) ==
    /\ worker[k].pc = "get"
    /\ worker' = [worker EXCEPT ![k].pc =
                    CASE packages[worker[k].id].mode = "zip_with_members" -> "clones"
                      [] packages[worker[k].id].mode = "raw_large" -> "unpack"
                      [] OTHER -> "finish"]
    /\ UNCHANGED <<packages, nextId, req, queue, inflight, scan, journal, faults>>

\* persistZipMembers and UpdatePackageAfterUnpack: all members, or some and the
\* error.
Unpacked(p) ==
    {[p EXCEPT !.mode = "zip_with_members", !.count = 1 + MemberCount[p.body],
               !.files = AllFiles(p.body)]}
      \cup {[p EXCEPT !.mode = "zip_with_members", !.count = 2, !.err = TRUE,
                      !.files = SomeFiles(j)] : j \in 0 .. MemberCount[p.body] - 1}

\* The transaction locks the row and looks at its mode again.
UnpackTx(k) ==
    /\ worker[k].pc = "unpack"
    /\ IF packages[worker[k].id].mode = "raw_large"
       THEN \E p \in Unpacked(packages[worker[k].id]) :
                packages' = [packages EXCEPT ![worker[k].id] = p]
       ELSE UNCHANGED packages
    /\ worker' = [worker EXCEPT ![k].pc = "clones"]
    /\ UNCHANGED <<nextId, req, queue, inflight, scan, journal, faults>>

\* propagateUnpackToClones: the clones there are now.
ListClones(k) ==
    /\ worker[k].pc = "clones"
    /\ worker' = [worker EXCEPT ![k].pc = "next", ![k].todo = Clones(worker[k].id)]
    /\ UNCHANGED <<packages, nextId, req, queue, inflight, scan, journal, faults>>

\* Mutant: the files the clone has are not looked at.
GetCloneBlind(k) ==
    /\ worker[k].pc = "next"
    /\ \E c \in worker[k].todo :
           /\ \A d \in worker[k].todo : c <= d
           /\ worker' = [worker EXCEPT
                  ![k].todo = @ \ {c}, ![k].clone = c, ![k].existing = {},
                  ![k].pc = IF packages[c].mode = "raw_large" THEN "propagate" ELSE "next"]
    /\ UNCHANGED <<packages, nextId, req, queue, inflight, scan, journal, faults>>

\* The next clone, if it is still raw_large: its row and its files.  Only the
\* worker that has the canonical package writes them.
GetClone(k) ==
    /\ worker[k].pc = "next"
    /\ \E c \in worker[k].todo :
           /\ \A d \in worker[k].todo : c <= d
           /\ IF packages[c].mode = "raw_large"
              THEN worker' = [worker EXCEPT ![k].pc = "propagate", ![k].todo = @ \ {c},
                                            ![k].clone = c, ![k].existing = packages[c].files]
              ELSE worker' = [worker EXCEPT ![k].todo = @ \ {c}]
    /\ UNCHANGED <<packages, nextId, req, queue, inflight, scan, journal, faults>>

\* What the canonical package has and the clone did not have when it was read.
Extra(k) == packages[worker[k].id].files \ ({Original} \cup worker[k].existing)

\* Mutant: file_count stays what it was.
UpdateModeOnly(p, canonical) ==
    IF p.mode = "raw_large" THEN [p EXCEPT !.mode = "zip_with_members", !.err = canonical.err] ELSE p

\* UpdatePackageAfterUnpack writes only a row that is still raw_large.
UpdateAfterUnpack(p, canonical) ==
    IF p.mode = "raw_large"
    THEN [p EXCEPT !.mode = "zip_with_members", !.count = canonical.count, !.err = canonical.err]
    ELSE p

PropagateTo(k, files) ==
    /\ LET c == worker[k].clone IN
       packages' = [packages EXCEPT ![c] =
           [UpdateAfterUnpack(@, packages[worker[k].id]) EXCEPT !.files = files]]
    /\ worker' = [worker EXCEPT ![k].pc = "next", ![k].clone = 0, ![k].existing = {}]
    /\ UNCHANGED <<nextId, req, queue, inflight, scan, journal, faults>>

\* Mutant: only the row of the clone is brought up to date.
PropagateRowOnly(k) ==
    /\ worker[k].pc = "propagate"
    /\ PropagateTo(k, packages[worker[k].clone].files)

\* One transaction per clone: the files it lacks, then its row.  The unique
\* indexes of package_files refuse a file that is there already.
Propagate(k) ==
    /\ worker[k].pc = "propagate"
    /\ Extra(k) \cap packages[worker[k].clone].files = {}
    /\ PropagateTo(k, packages[worker[k].clone].files \cup Extra(k))

\* loadAndJournal of the unpacked package.  The clones are not journaled.
JournalUnpacked(k) ==
    /\ worker[k].pc = "next" /\ worker[k].todo = {}
    /\ IF HasJournal THEN Journal(worker[k].id, packages[worker[k].id]) ELSE UNCHANGED journal
    /\ worker' = [worker EXCEPT ![k].pc = "finish"]
    /\ UNCHANGED <<packages, nextId, req, queue, inflight, scan, faults>>

\* The job fails or panics at any point.
JobFails(k) ==
    /\ worker[k].pc \notin {"idle", "finish"} /\ faults < MaxFaults
    /\ faults' = faults + 1
    /\ worker' = [worker EXCEPT ![k].pc = "finish"]
    /\ UNCHANGED <<packages, nextId, req, queue, inflight, scan, journal>>

\* Mutant: a finished job stays in flight.
FinishKeeps(k) ==
    /\ worker[k].pc = "finish"
    /\ worker' = [worker EXCEPT ![k] = IdleWorker]
    /\ UNCHANGED <<packages, nextId, req, queue, inflight, scan, journal, faults>>

Finish(k) ==
    /\ worker[k].pc = "finish"
    /\ inflight' = inflight \ {worker[k].id}
    /\ worker' = [worker EXCEPT ![k] = IdleWorker]
    /\ UNCHANGED <<packages, nextId, req, queue, scan, journal, faults>>

\* ListPendingLargePackages: clones are not listed.
Pending == {i \in Committed : packages[i].mode = "raw_large" /\ ~IsClone(i)}

RecoverScan ==
    /\ scan = {} /\ Pending # {}
    /\ scan' = Pending
    /\ UNCHANGED <<packages, nextId, req, worker, queue, inflight, journal, faults>>

RecoverEnqueue ==
    /\ \E i \in scan :
           /\ \A j \in scan : i <= j
           /\ Enqueue(i)
           /\ scan' = scan \ {i}
    /\ UNCHANGED <<packages, nextId, req, worker, journal, faults>>

\* The process dies and starts again.
Restart ==
    /\ faults < MaxFaults
    /\ faults' = faults + 1
    /\ req' = [r \in Requests |-> IF req[r].pc \in {"idle", "done"} THEN req[r]
                                  ELSE [IdleRequest EXCEPT !.pc = "failed", !.id = req[r].id]]
    /\ worker' = [k \in Workers |-> IdleWorker]
    /\ queue' = << >> /\ inflight' = {} /\ scan' = {}
    /\ UNCHANGED <<packages, nextId, journal>>

Init ==
    /\ packages = [i \in Ids |-> None] /\ nextId = 1
    /\ req = [r \in Requests |-> IdleRequest]
    /\ worker = [k \in Workers |-> IdleWorker]
    /\ queue = << >> /\ inflight = {} /\ scan = {} /\ journal = << >>
    /\ faults = 0

RequestStep(r) ==
    \/ Post(r) \/ GetCanonical(r) \/ CreatePackage(r) \/ CommitPackage(r)
    \/ EnqueueNew(r) \/ LoadPackage(r) \/ JournalPackage(r)

WorkerStep(k) ==
    \/ Take(k) \/ GetPackage(k) \/ UnpackTx(k) \/ ListClones(k) \/ GetClone(k)
    \/ Propagate(k) \/ JournalUnpacked(k) \/ Finish(k)

Next ==
    \/ \E r \in Requests : RequestStep(r) \/ RequestFails(r)
    \/ \E k \in Workers : WorkerStep(k) \/ JobFails(k)
    \/ RecoverScan \/ RecoverEnqueue \/ Restart

Spec == Init /\ [][Next]_vars

\* Goroutines of the queue run, and recoverLoop is started with it; a request
\* may take any time or hang up.
FairSpec ==
    /\ Spec
    /\ \A k \in Workers : WF_vars(WorkerStep(k))
    /\ WF_vars(RecoverScan) /\ WF_vars(RecoverEnqueue)

-----------------------------------------------------------------------------
(* Properties.                                                             *)

\* The types of the variables; the channel holds at most its capacity.
TypeOK ==
    /\ packages \in [Ids -> PackageRow \cup {None}] /\ nextId \in 1 .. MaxId + 1
    /\ \A r \in Requests : req[r].row \in PackageRow \cup {None} /\ req[r].id \in Ids \cup {0}
    /\ \A k \in Workers : worker[k].id \in Ids \cup {0} /\ worker[k].todo \subseteq Ids
    /\ queue \in Seq(Ids) /\ Len(queue) <= QueueSize
    /\ inflight \subseteq Ids /\ scan \subseteq Ids
    /\ \A n \in DOMAIN journal : journal[n].id \in Ids /\ journal[n].package \in PackageRow

\* A clone refers to a package of the same body that was committed before it
\* and is not a clone itself, although ids are taken in one order and committed
\* in another (FindCanonicalPackageID, clonePackage): propagation, which looks
\* one level down, reaches every clone.
CanonicalIsRoot ==
    \A i \in Committed : IsClone(i) =>
        LET c == packages[i].canonical IN
        c \in Committed /\ c < i /\ ~IsClone(c) /\ packages[c].body = packages[i].body

\* An unpacked clone is what its canonical package is, row and files, whether
\* it was cloned before the unpack, after it or in the middle of it
\* (clonePackage, propagateUnpackToClones).
ClonesEqual ==
    \A i \in Committed : IsClone(i) /\ packages[i].mode # "raw_large" =>
        packages[i] = [packages[packages[i].canonical] EXCEPT !.canonical = packages[i].canonical]

\* "a package is never unpacked twice concurrently" (UnpackQueue), although a
\* scan may have read it as pending before its job ended.
NoConcurrentUnpack ==
    \A k, l \in Workers : worker[k].pc # "idle" /\ worker[k].id = worker[l].id => k = l

\* A committed package stays, keeps its files, and once it is unpacked it does
\* not change any more (UnpackLargePackage, propagateUnpackToClones).
PackagesMonotone ==
    [][\A i \in Committed :
           /\ packages'[i] # None /\ packages[i].files \subseteq packages'[i].files
           /\ packages[i].mode # "raw_large" => packages'[i] = packages[i]]_vars

\* The propagation never meets a file that the clone has already, which the
\* unique indexes would refuse, aborting the job for ever.
PropagateApplies ==
    \A k \in Workers : worker[k].pc = "propagate" =>
        Extra(k) \cap packages[worker[k].clone].files = {}

\* A package that has been answered is in the journal (loadAndJournal).
AckedJournaled ==
    \A r \in Requests : HasJournal /\ req[r].pc = "done" => \E n \in DOMAIN journal : journal[n].id = req[r].id

\* The journal tells of committed packages only, never more than they have, and
\* of an unpacked package exactly what it is, although it is written from two
\* queries outside the transaction (GetPackage, loadAndJournal).
JournalSound ==
    \A n \in DOMAIN journal :
        LET p == journal[n].package c == packages[journal[n].id] IN
        /\ c # None /\ p.body = c.body /\ p.canonical = c.canonical /\ p.files \subseteq c.files
        /\ p.mode # "raw_large" => p = c

\* A large ZIP that is not a clone is unpacked in the end: a job that was
\* dropped, failed or lost is found again (Enqueue, recoverPending).
OriginalsUnpacked ==
    \A i \in Ids : (i \in Pending) ~> (i \in Committed /\ packages[i].mode # "raw_large")

\* So is every large ZIP, clones included ("any job dropped under backpressure
\* or lost to a restart is rediscovered by the periodic recovery scan").
AllUnpacked ==
    \A i \in Ids : (i \in Committed /\ packages[i].mode = "raw_large")
                   ~> (i \in Committed /\ packages[i].mode # "raw_large")

\* The row of a package that needs no unpacking any more agrees with its files,
\* for a clone that was completed later too: file_count is their number unless
\* the unpack failed, an error in the row has its file, and that of a large ZIP
\* is in the row (persistZipMembers, ingestSmallZIP, UpdatePackageAfterUnpack).
RowMatchesFiles ==
    \A i \in Committed : packages[i].mode # "raw_large" =>
        LET p == packages[i] IN
        /\ ErrFile \notin p.files => p.files = 0 .. p.count - 1
        /\ p.err => ErrFile \in p.files
        /\ Kind[p.body] = "large" /\ ErrFile \in p.files => p.err
=============================================================================
