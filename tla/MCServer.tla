------------------------------ MODULE MCServer ------------------------------
(* Two dictionaries, one request, a disk of four sizes.                     *)
EXTENDS Server

CONSTANTS d1, d2, r1

MCDicts == {d1, d2}
MCPosts == {r1}
=============================================================================
