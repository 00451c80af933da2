------------------------------ MODULE Journal ------------------------------
(***************************************************************************)
(* ingest_journal.ndjson: Journal.Append writes a line and then its newline  *)
(* and syncs; ReadJournal takes the lines apart again.  The file is opened   *)
(* with O_APPEND and what is in it is not looked at.  A write may be cut    *)
(* short by the death of the process or by an error.                       *)
(*                                                                         *)
(* A file is a sequence of tokens: the text of entry n, a prefix of it, a    *)
(* newline.  j.mu makes Append a critical section; the process runs one at   *)
(* a time.                                                                 *)
(***************************************************************************)
EXTENDS Naturals, Sequences

CONSTANTS
    MaxAppends, \* bound on calls of Append; the n-th call appends entry n
    MaxFaults,  \* bound on calls that do not finish
    Long        \* the entries whose line exceeds the buffer of ReadJournal

VARIABLES
    file,     \* the tokens of the file
    pc,       \* where Append is
    calls,    \* the number of calls of Append, the last of which is running
    acked,    \* the entries whose Append has returned without an error
    resumed,  \* some call began on a line that was not ended
    faults

vars == <<file, pc, calls, acked, resumed, faults>>

Text(n) == [kind |-> "text", entry |-> n]
Prefix(n) == [kind |-> "prefix", entry |-> n]
Newline == [kind |-> "newline", entry |-> 0]

Ended == file = << >> \/ file[Len(file)] = Newline

Begin ==
    /\ pc = "idle" /\ calls < MaxAppends
    /\ calls' = calls + 1 /\ pc' = "line"
    /\ resumed' = (resumed \/ ~Ended)
    /\ UNCHANGED <<file, acked, faults>>

WriteLine ==
    /\ pc = "line"
    /\ file' = Append(file, Text(calls)) /\ pc' = "newline"
    /\ UNCHANGED <<calls, acked, resumed, faults>>

WriteNewline ==
    /\ pc = "newline"
    /\ file' = Append(file, Newline) /\ pc' = "idle"
    /\ acked' = acked \cup {calls}
    /\ UNCHANGED <<calls, resumed, faults>>

\* A call of Append ends early, maybe in the middle of the line or with only
\* the sync missing.
Interrupt ==
    /\ pc # "idle" /\ faults < MaxFaults
    /\ faults' = faults + 1 /\ pc' = "idle"
    /\ file' \in {file} \cup 
                 (IF pc = "line" THEN {Append(file, Prefix(calls)), Append(file, Text(calls))}
                                 ELSE {Append(file, Newline)})
    /\ UNCHANGED <<calls, acked, resumed>>

Init == file = << >> /\ pc = "idle" /\ calls = 0 /\ acked = {} /\ resumed = FALSE /\ faults = 0

Next == Begin \/ WriteLine \/ WriteNewline \/ Interrupt

Spec == Init /\ [][Next]_vars

-----------------------------------------------------------------------------
(* ReadJournal.                                                            *)

\* The lines that are not empty: line <<a, b>> has the tokens a .. b, between
\* newlines or the ends of the file.
Lines ==
    {l \in (DOMAIN file) \X (DOMAIN file) :
        /\ l[1] <= l[2] /\ \A i \in l[1] .. l[2] : file[i] # Newline
        /\ l[1] = 1 \/ file[l[1] - 1] = Newline
        /\ l[2] = Len(file) \/ file[l[2] + 1] = Newline}

Parses(line) == line[1] = line[2] /\ file[line[1]].kind = "text"

\* The scanner's buffer ends at 4 MiB, which the line of a package with very
\* many members exceeds.
TooLong(line) == \E i \in line[1] .. line[2] : \E n \in Long : file[i] = Text(n)

\* Mutant: an incomplete line is an error wherever it is.
RefusedStrictly == \E line \in Lines : TooLong(line) \/ ~Parses(line)

\* A line that does not parse is an error unless it is the last, and a line
\* that is too long is one anywhere.  The last line may have its newline.
Refused ==
    \E line \in Lines : TooLong(line) \/ (~Parses(line) /\ line[2] + 1 < Len(file))

\* The entries of the lines that parse.
ReadJournal == {file[line[1]].entry : line \in {l \in Lines : Parses(l)}}

-----------------------------------------------------------------------------
(* Properties.                                                             *)

\* The types of the variables.
TypeOK ==
    /\ pc \in {"idle", "line", "newline"} /\ calls \in 0 .. MaxAppends /\ faults \in 0 .. MaxFaults
    /\ acked \subseteq 1 .. calls /\ resumed \in BOOLEAN
    /\ \A i \in DOMAIN file : file[i].entry \in 0 .. calls

\* As long as no entry was appended to an unfinished line, the journal has
\* every entry that was acknowledged, whatever is left of the last one, and
\* can be read, unless it has a line that is too long: Append writes it all
\* the same, and then no entry can be read (Append, ReadJournal).
JournalComplete ==
    ~resumed =>
        /\ acked \subseteq ReadJournal
        /\ Refused <=> \E i \in DOMAIN file : \E n \in Long : file[i] = Text(n)
=============================================================================
