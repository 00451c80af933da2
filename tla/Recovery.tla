------------------------------ MODULE Recovery ------------------------------
(***************************************************************************)
(* The two files that recovery.Rebuild reads, written by one shard.  A     *)
(* request that brings a new content enters it in the segment index        *)
(* (SegmentIndex) inside its transaction, and only after the commit        *)
(* journals its package (Journal).  Requests overlap: while one journals,  *)
(* another is in the index.  An error ends one call, a crash ends all.     *)
(***************************************************************************)
EXTENDS Naturals, Sequences, Functions

CONSTANTS
    MaxAppends, \* bound on calls of Append of either file
    MaxFaults,  \* bound on calls of either that do not finish
    Long        \* the journal entries that ReadJournal cannot read

ASSUME RecoveryAssumption == MaxAppends \in Nat /\ MaxFaults \in Nat /\ Long \subseteq Nat

VARIABLES
    idxFile, idxPc, idxCalls, kept, atEnd, appended, interrupted, idxFaults,
    logFile, logPc, logCalls, acked, resumed, logFaults,
    live,  \* index entries whose request has not journaled yet
    of     \* of[n]: the index entry of the package in journal entry n

idxVars == <<idxFile, idxPc, idxCalls, kept, atEnd, appended, interrupted, idxFaults>>
logVars == <<logFile, logPc, logCalls, acked, resumed, logFaults>>
vars == <<idxVars, logVars, live, of>>

Index == INSTANCE SegmentIndex WITH
    file <- idxFile, pc <- idxPc, calls <- idxCalls, faults <- idxFaults

Log == INSTANCE Journal WITH
    file <- logFile, pc <- logPc, calls <- logCalls, faults <- logFaults

Init == Index!Init /\ Log!Init /\ live = {} /\ of = << >>

-----------------------------------------------------------------------------

\* storeNew calls SegmentIndex.Append; the request goes on if it succeeds.
StoreNew ==
    /\ Index!Next
    /\ live' = live \cup (Range(appended') \ Range(appended))
    /\ UNCHANGED <<logVars, of>>

\* Mutant: the package is journaled before its content is in the index.
JournalFirst ==
    /\ Log!Begin
    /\ \E n \in (1 .. idxCalls) \ Range(of) : of' = Append(of, n) /\ live' = live \ {n}
    /\ UNCHANGED idxVars

\* loadAndJournal, behind the transaction.
JournalPackage ==
    /\ Log!Begin
    /\ \E n \in live : of' = Append(of, n) /\ live' = live \ {n}
    /\ UNCHANGED idxVars

\* Journal.Append goes on, or fails.
JournalAppend ==
    /\ Log!WriteLine \/ Log!WriteNewline \/ Log!Interrupt
    /\ UNCHANGED <<idxVars, live, of>>

Crash ==
    /\ Index!Interrupt
    /\ Log!Interrupt \/ (logPc = "idle" /\ UNCHANGED logVars)
    /\ live' = {}
    /\ UNCHANGED of

Next == StoreNew \/ JournalPackage \/ JournalAppend \/ Crash

Spec == Init /\ [][Next]_vars

-----------------------------------------------------------------------------
(* Properties.                                                             *)

\* The types of the variables.
TypeOK ==
    /\ Index!TypeOK /\ Log!TypeOK
    /\ live \subseteq 1 .. idxCalls /\ Len(of) = logCalls /\ Range(of) \subseteq 1 .. idxCalls

\* Index!IndexExact: without an interrupted write the index file holds exactly
\* what was appended (SegmentIndex.Append).
IndexExact == Index!IndexExact

\* Index!ReadersSeePrefix: nor does a reader in the middle of an Append get
\* anything else than the first entries (ReadIndexFile).
ReadersSeePrefix == Index!ReadersSeePrefix

\* Log!JournalComplete: what is left of an interrupted line hides no entry
\* that was acknowledged (ReadJournal).
JournalComplete == Log!JournalComplete

\* Every package that Rebuild reads from the journal, acknowledged or left by a
\* crash, finds its content in the index file, as long as no write to the
\* index was cut short and the journal can be read.
RestoredHaveContents ==
    ~interrupted /\ idxPc = "idle" /\ ~Log!Refused =>
        {of[n] : n \in Log!ReadJournal} \subseteq Range(Index!ReadIndexFile(idxFile))
=============================================================================
