---------------------------- MODULE PackageTable ----------------------------
(***************************************************************************)
(* What the package table promises to a reader, without the requests, the   *)
(* queue and the workers behind it.  A package is new or a clone; a clone   *)
(* is its canonical package, or a part of it that waits to be completed;     *)
(* and a package changes once at most, all at a time.                       *)
(***************************************************************************)
EXTENDS Naturals

CONSTANTS Ids, Row, None

VARIABLE table \* table[i]: the row and the files of package i, or None

Present(i) == table[i] # None
Waits(p) == p.mode = "raw_large"
Root(i) == Present(i) /\ table[i].canonical = 0

\* Package i, and no other, is written.
Write(i) == table'[i] \in Row /\ table' = [table EXCEPT ![i] = table'[i]]

Create(i) ==
    /\ ~Present(i)
    /\ Write(i) /\ table'[i].canonical = 0

Clone(i) ==
    /\ ~Present(i)
    /\ Write(i)
    /\ \E c \in Ids :
           /\ Root(c) /\ c < i
           /\ table'[i].canonical = c /\ table'[i].body = table[c].body
           /\ table'[i].files \subseteq table[c].files
           /\ ~Waits(table'[i]) => table'[i] = [table[c] EXCEPT !.canonical = c]

Unpack(i) ==
    /\ Root(i) /\ Waits(table[i])
    /\ Write(i) /\ table'[i].canonical = 0 /\ table'[i].body = table[i].body
    /\ ~Waits(table'[i]) /\ table[i].files \subseteq table'[i].files

Complete(i) ==
    /\ Present(i) /\ ~Root(i) /\ Waits(table[i])
    /\ LET c == table[i].canonical IN
       /\ Root(c) /\ ~Waits(table[c])
       /\ table' = [table EXCEPT ![i] = [table[c] EXCEPT !.canonical = c]]

Init == table = [i \in Ids |-> None]

Next == \E i \in Ids : Create(i) \/ Clone(i) \/ Unpack(i) \/ Complete(i)

Spec == Init /\ [][Next]_table
=============================================================================
