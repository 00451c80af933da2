----------------------------- MODULE Dictionary -----------------------------
(***************************************************************************)
(* The compression dictionary of a shard: BootstrapEncoder                 *)
(* (internal/compress/bootstrap.go) with its Sidecar                       *)
(* (internal/compress/sidecar.go) and the table compression_dictionary.     *)
(*                                                                         *)
(* A primary takes the dictionary of its sidecar, else the latest row of    *)
(* the table, else it trains one.  A sidecar is two files: the dictionary,  *)
(* synced, and current.json, which points to it and is renamed into place   *)
(* without a sync.  Every statement and every file is a step; it may fail,  *)
(* and the process may die or lose its power between two of them.  The      *)
(* replica runs the same code on the same table: what the primary sees of   *)
(* it is a row, at any time after a start that found none.                 *)
(***************************************************************************)
EXTENDS Naturals, Sequences

CONSTANTS
    Dicts,     \* what a training may result in
    MaxRows,   \* bound on the rows that Rebuild adds to
    MaxErrors, \* bound on failed steps, crashes and power losses
    None,      \* no dictionary; for a record: compressed without one
    Torn       \* a current.json that cannot be parsed

ASSUME DictionaryAssumption ==
    /\ MaxRows \in Nat /\ MaxErrors \in Nat
    /\ None \notin Dicts /\ Torn \notin Dicts /\ None # Torn

VARIABLES
    rows,     \* compression_dictionary, in the order of its ids
    saved,    \* the dictionaries that have a .zdict file
    current,  \* what current.json points to
    fresh,    \* current.json is not on stable storage yet
    boot,     \* where BootstrapEncoder is, "down" or "ready"
    dict,     \* the dictionary in hand, that of the Encoder when ready
    stored,   \* the dictionaries of the records in the segment files
    bare,     \* the primary has run without a sidecar, or lost it
    replica,  \* the replica may yet save a dictionary of its own
    errors

fileVars == <<saved, current, fresh>>
dictionaryVars == <<rows, fileVars, boot, dict, stored, bare, replica, errors>>

\* The process ends: main exits when BootstrapEncoder returns an error.
Exit ==
    /\ errors < MaxErrors /\ errors' = errors + 1
    /\ boot' = "down" /\ dict' = None

-----------------------------------------------------------------------------
(* BootstrapEncoder.                                                       *)

\* LoadCurrent.  A pointer that cannot be parsed, or leads nowhere, ends the
\* start, now and at every later time.
Loadable == current = None \/ current \in saved

LoadCurrent ==
    /\ boot = "down" /\ Loadable
    /\ IF current = None
       THEN boot' = "latest" /\ UNCHANGED dict
       ELSE boot' = "ready" /\ dict' = current
    /\ UNCHANGED <<rows, fileVars, stored, bare, replica, errors>>

GetLatestDictionary ==
    /\ boot = "latest"
    /\ IF rows = << >>
       THEN boot' = "train" /\ UNCHANGED dict
       ELSE boot' = "mirrorFile" /\ dict' = rows[Len(rows)]
    /\ UNCHANGED <<rows, fileVars, stored, bare, replica, errors>>

\* TrainDictionary finds too little in the examples, or makes a dictionary.
Train ==
    /\ boot = "train"
    /\ \/ boot' = "ready" /\ UNCHANGED dict
       \/ boot' = "row" /\ dict' \in Dicts
    /\ UNCHANGED <<rows, fileVars, stored, bare, replica, errors>>

\* Mutant: the dictionary is kept in the sidecar only.
SaveNoRow ==
    /\ boot = "row"
    /\ boot' = "file"
    /\ UNCHANGED <<rows, fileVars, dict, stored, bare, replica, errors>>

SaveDictionary ==
    /\ boot = "row"
    /\ rows' = Append(rows, dict) /\ boot' = "file"
    /\ UNCHANGED <<fileVars, dict, stored, bare, replica, errors>>

\* Mutant: current.json is written before the file it points to.
SavePointerFirst ==
    /\ boot \in {"file", "mirrorFile"}
    /\ current' = dict /\ fresh' = TRUE
    /\ boot' = IF boot = "file" THEN "pointer" ELSE "mirrorPointer"
    /\ UNCHANGED <<rows, saved, dict, stored, bare, replica, errors>>

\* Sidecar.Save writes, syncs and renames the dictionary ...
SaveFile ==
    /\ boot \in {"file", "mirrorFile"}
    /\ saved' = saved \cup {dict}
    /\ boot' = IF boot = "file" THEN "pointer" ELSE "mirrorPointer"
    /\ UNCHANGED <<rows, current, fresh, dict, stored, bare, replica, errors>>

\* Mutant: the pointer is left to the next start.
SkipPointer ==
    /\ boot \in {"pointer", "mirrorPointer"}
    /\ boot' = "ready"
    /\ UNCHANGED <<rows, fileVars, dict, stored, bare, replica, errors>>

\* ... and then renames current.json into its place.
SavePointer ==
    /\ boot \in {"pointer", "mirrorPointer"}
    /\ current' = dict /\ fresh' = TRUE
    /\ boot' = "ready"
    /\ UNCHANGED <<rows, saved, dict, stored, bare, replica, errors>>

\* The copy of a row to the sidecar may fail: the error is ignored.
MirrorFails ==
    /\ boot \in {"mirrorFile", "mirrorPointer"}
    /\ errors < MaxErrors /\ errors' = errors + 1
    /\ boot' = "ready" /\ bare' = TRUE
    /\ UNCHANGED <<rows, fileVars, dict, stored, replica>>

-----------------------------------------------------------------------------
(* The life of a server.                                                   *)

\* Any other step of the start fails, or the process crashes.
Crash ==
    /\ boot # "down"
    /\ Exit
    /\ UNCHANGED <<rows, fileVars, stored, bare, replica>>

\* encodeRecord: a record is compressed with the dictionary of the encoder.
Store ==
    /\ boot = "ready"
    /\ stored' = stored \cup {dict}
    /\ UNCHANGED <<rows, fileVars, boot, dict, bare, replica, errors>>

\* The system writes current.json out in its own time.
Flushed ==
    /\ fresh /\ fresh' = FALSE
    /\ UNCHANGED <<rows, saved, current, boot, dict, stored, bare, replica, errors>>

\* The power goes before that: the pointer may be gone, or empty.
PowerLoss ==
    /\ fresh /\ fresh' = FALSE
    /\ current' \in {None, Torn} /\ bare' = TRUE
    /\ Exit
    /\ UNCHANGED <<rows, saved, stored, replica>>

\* A replica that found no row when it started saves what it has trained.
ReplicaTrains ==
    /\ replica /\ replica' = FALSE
    /\ \E d \in Dicts : rows' = Append(rows, d)
    /\ UNCHANGED <<fileVars, boot, dict, stored, bare, errors>>

\* Rebuild, while the server is down, puts the dictionary of the sidecar into
\* the table again.
Rebuild ==
    /\ boot = "down" /\ Len(rows) < MaxRows
    /\ current \in saved
    /\ rows' = Append(rows, current)
    /\ UNCHANGED <<fileVars, boot, dict, stored, bare, replica, errors>>

DictionaryInit ==
    /\ rows = << >> /\ saved = {} /\ current = None /\ fresh = FALSE
    /\ boot = "down" /\ dict = None /\ stored = {} /\ bare = FALSE
    /\ replica = TRUE /\ errors = 0

BootStep ==
    \/ LoadCurrent \/ GetLatestDictionary \/ Train
    \/ SaveDictionary \/ SaveFile \/ SavePointer

-----------------------------------------------------------------------------
(* Properties.                                                             *)

\* The types of the variables.
DictionaryTypeOK ==
    /\ rows \in Seq(Dicts) /\ saved \subseteq Dicts
    /\ current \in Dicts \cup {None, Torn} /\ fresh \in BOOLEAN
    /\ boot \in {"down", "latest", "train", "row", "file", "pointer",
                 "mirrorFile", "mirrorPointer", "ready"}
    /\ dict \in Dicts \cup {None} /\ stored \subseteq Dicts \cup {None}
    /\ bare \in BOOLEAN /\ replica \in BOOLEAN /\ errors \in 0 .. MaxErrors

\* A frame without a dictionary is decoded by every encoder.
Decodable == \A d \in stored : d = None \/ d = dict

\* Every record in the segment files can be decoded by the primary that runs,
\* through failed starts, crashes and restarts, with a replica that trains a
\* dictionary of its own into the same table, as long as the primary has
\* never run without its sidecar (BootstrapEncoder, Sidecar.Save).
SidecarDecodes == boot = "ready" /\ ~bare => Decodable

\* Without its sidecar too, as long as the table has one dictionary only
\* (SaveDictionary, GetLatestDictionary).
TableDecodes == boot = "ready" /\ (\A i, j \in DOMAIN rows : rows[i] = rows[j]) => Decodable
=============================================================================
