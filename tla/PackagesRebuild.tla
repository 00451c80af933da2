-------------------------- MODULE PackagesRebuild --------------------------
(***************************************************************************)
(* recovery.Rebuild: the journal of Packages applied to empty tables from   *)
(* its first entry.  An entry overwrites the row and adds to the files.     *)
(* The foreign key of a clone refuses it until its canonical package is     *)
(* there, and that error ends Rebuild.                                     *)
(***************************************************************************)
EXTENDS Packages

Refused(tables, e) == e.package.canonical # 0 /\ tables[e.package.canonical] = None

\* Mutant: the files of an earlier entry are dropped.
RestoredAnew(tables, e) == e.package

Restored(tables, e) ==
    [e.package EXCEPT !.files = @ \cup (IF tables[e.id] = None THEN {} ELSE tables[e.id].files)]

RestoreEntry(run, e) ==
    IF ~run.ok \/ Refused(run.tables, e)
    THEN [run EXCEPT !.ok = FALSE]
    ELSE [run EXCEPT !.tables[e.id] = Restored(run.tables, e)]

\* The tables after the first n entries.
Run[n \in 0 .. Len(journal)] ==
    IF n = 0 THEN [ok |-> TRUE, tables |-> [i \in Ids |-> None]]
    ELSE RestoreEntry(Run[n - 1], journal[n])

Rebuilt == Run[Len(journal)]

-----------------------------------------------------------------------------
(* Properties.                                                             *)

\* Rebuild, if no entry is refused, restores every package that was answered,
\* with every file that some entry of the journal has and no other, although
\* entries of one package were written in any order (restoreJournalEntry).
RebuildSound ==
    LET run == Rebuilt IN
    run.ok =>
        /\ \A r \in Requests : HasJournal /\ req[r].pc = "done" => run.tables[req[r].id] # None
        /\ \A n \in DOMAIN journal :
               LET t == run.tables[journal[n].id] IN
               journal[n].package.files \subseteq t.files /\ t.files \subseteq packages[journal[n].id].files
=============================================================================
