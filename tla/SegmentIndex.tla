---------------------------- MODULE SegmentIndex ----------------------------
(***************************************************************************)
(* One segment_NNNN.idx file: SegmentIndex.Append removes the footer by      *)
(* rewriting the file, appends an entry and writes a new footer.  A file     *)
(* without a footer is opened without O_APPEND, so that the entry goes to    *)
(* its start.  Each system call is a step; it may fail or the process may    *)
(* die in the middle of it, with a part of what it writes in the file.       *)
(*                                                                         *)
(* A file is a sequence of cells: an entry of 60 bytes is two cells, the     *)
(* footer of 32 bytes one, which holds the cells its CRC was taken of, and   *)
(* a part of a footer one.                                                 *)
(***************************************************************************)
EXTENDS Naturals, Sequences

CONSTANTS
    MaxAppends, \* bound on calls of Append; the n-th call appends entry n
    MaxFaults   \* bound on calls that do not finish

VARIABLES
    file,        \* the cells of the file
    pc,          \* where Append is
    calls,       \* the number of calls of Append, the last of which is running
    kept,        \* what openAppend has read and writes back
    atEnd,       \* the file is open with O_APPEND
    appended,    \* the entries whose Append has returned without an error
    interrupted, \* some call did not finish what it had begun to write
    faults

vars == <<file, pc, calls, kept, atEnd, appended, interrupted, faults>>

Entry(n) == << [entry |-> n, half |-> 1], [entry |-> n, half |-> 2] >>
Footer(cells) == [entry |-> 0, half |-> 0, of |-> cells]
Torn == [entry |-> 0, half |-> 3]
IsFooter(c) == c.half = 0

\* decodeIndexFooter looks at the end of the file.
HasFooter(cells) == cells # << >> /\ IsFooter(cells[Len(cells)])
Entries(cells) == IF HasFooter(cells) THEN SubSeq(cells, 1, Len(cells) - 1) ELSE cells

\* A write at the end or, without O_APPEND, after the first p cells.
Written(cells, p) ==
    IF atEnd THEN file \o cells
    ELSE SubSeq(file, 1, p) \o cells \o SubSeq(file, p + Len(cells) + 1, Len(file))

-----------------------------------------------------------------------------
(* Append.                                                                 *)

OpenAppend ==
    /\ pc = "idle" /\ calls < MaxAppends
    /\ calls' = calls + 1
    /\ IF HasFooter(file)
       THEN pc' = "truncate" /\ kept' = Entries(file) /\ UNCHANGED atEnd
       ELSE pc' = "entry" /\ atEnd' = FALSE /\ UNCHANGED kept
    /\ UNCHANGED <<file, appended, interrupted, faults>>

\* os.WriteFile: the file is emptied, then written.
Truncate ==
    /\ pc = "truncate"
    /\ file' = << >> /\ pc' = "rewrite"
    /\ UNCHANGED <<calls, kept, atEnd, appended, interrupted, faults>>

\* Mutant: the footer is written back.
RewriteAll ==
    /\ pc = "rewrite"
    /\ file' = Append(kept, Footer(kept)) /\ atEnd' = TRUE /\ pc' = "entry"
    /\ kept' = << >>
    /\ UNCHANGED <<calls, appended, interrupted, faults>>

Rewrite ==
    /\ pc = "rewrite"
    /\ file' = kept /\ atEnd' = TRUE /\ pc' = "entry"
    /\ kept' = << >>
    /\ UNCHANGED <<calls, appended, interrupted, faults>>

\* Mutant: the entry of another call.
WriteNextEntry ==
    /\ pc = "entry"
    /\ file' = Written(Entry(calls + 1), 0) /\ pc' = "footer"
    /\ UNCHANGED <<calls, kept, atEnd, appended, interrupted, faults>>

WriteEntry ==
    /\ pc = "entry"
    /\ file' = Written(Entry(calls), 0) /\ pc' = "footer"
    /\ UNCHANGED <<calls, kept, atEnd, appended, interrupted, faults>>

\* Mutant: the CRC is taken of the new entry only.
FooterOfEntry ==
    /\ pc = "footer"
    /\ file' = Written(<<Footer(Entry(calls))>>, Len(Entry(calls)))
    /\ pc' = "idle" /\ appended' = Append(appended, calls)
    /\ UNCHANGED <<calls, kept, atEnd, interrupted, faults>>

WriteFooter ==
    /\ pc = "footer"
    /\ file' = Written(<<Footer(Entries(file))>>, Len(Entry(calls)))
    /\ pc' = "idle" /\ appended' = Append(appended, calls)
    /\ UNCHANGED <<calls, kept, atEnd, interrupted, faults>>

\* What a write that does not come to its end may leave in the file.
Partial ==
    CASE pc = "rewrite" -> {SubSeq(kept, 1, n) : n \in 0 .. Len(kept)}
      [] pc = "entry" -> {file, Written(<<Entry(calls)[1]>>, 0), Written(Entry(calls), 0)}
      [] pc = "footer" -> {file, Written(<<Torn>>, Len(Entry(calls))),
                           Written(<<Footer(Entries(file))>>, Len(Entry(calls)))}
      [] OTHER -> {file}

\* A call fails or the process dies: the next Append opens the file anew.
Interrupt ==
    /\ faults < MaxFaults
    /\ faults' = faults + 1
    /\ file' \in Partial
    /\ interrupted' = (interrupted \/ pc \notin {"idle", "truncate"})
    /\ pc' = "idle" /\ kept' = << >> /\ atEnd' = FALSE
    /\ UNCHANGED <<calls, appended>>

Init ==
    /\ file = << >> /\ pc = "idle" /\ calls = 0 /\ kept = << >> /\ atEnd = FALSE
    /\ appended = << >> /\ interrupted = FALSE /\ faults = 0

Next == OpenAppend \/ Truncate \/ Rewrite \/ WriteEntry \/ WriteFooter \/ Interrupt

Spec == Init /\ [][Next]_vars

-----------------------------------------------------------------------------
(* ReadIndexFile: the entries, or a refusal of the whole file.             *)

Refused(cells) ==
    \/ Len(Entries(cells)) % 2 # 0
    \/ HasFooter(cells) /\ cells[Len(cells)].of # Entries(cells)

\* An entry of two halves that do not belong together decodes to garbage, 0.
Decode(a, b) == IF a.entry = b.entry /\ a.half = 1 /\ b.half = 2 THEN a.entry ELSE 0

ReadIndexFile(cells) ==
    LET e == Entries(cells) IN [i \in 1 .. Len(e) \div 2 |-> Decode(e[2 * i - 1], e[2 * i])]

-----------------------------------------------------------------------------
(* Properties.                                                             *)

\* The types of the variables.
TypeOK ==
    /\ pc \in {"idle", "truncate", "rewrite", "entry", "footer"}
    /\ calls \in 0 .. MaxAppends /\ faults \in 0 .. MaxFaults
    /\ atEnd \in BOOLEAN /\ interrupted \in BOOLEAN
    /\ \A i \in DOMAIN appended : appended[i] \in 1 .. calls
    /\ \A i \in DOMAIN file : file[i].entry \in 0 .. calls

\* As long as every call of Append that has touched the file has run to its end,
\* with failed calls and restarts between them, the file holds exactly the entries appended, in their order.
IndexExact ==
    ~interrupted /\ pc = "idle" => ~Refused(file) /\ ReadIndexFile(file) = appended

\* A reader that comes in the middle of an Append (Rebuild, a replica that
\* downloads the file) is never refused and never gets a wrong entry: it reads
\* the first entries, up to some one, as long as no write was cut short.
ReadersSeePrefix ==
    ~interrupted =>
        /\ ~Refused(file)
        /\ \E n \in 0 .. Len(appended) + 1 :
               ReadIndexFile(file) = SubSeq(Append(appended, calls), 1, n)
=============================================================================
