------------------------------ MODULE MCBlobs -------------------------------
(* Small instances of Blobs: requests that share members in opposite orders. *)
EXTENDS Blobs, TLC

CONSTANTS t1, t2, a, b, e

\* t1 is a ZIP a with the member b, t2 a ZIP b with the members a and a.
MCTxs == {t1, t2}
MCContents == {a, b, e}
MCOriginal == (t1 :> a) @@ (t2 :> b)
MCMembers == (t1 :> <<b>>) @@ (t2 :> <<a, a>>)
=============================================================================
