----------------------------- MODULE MCRegistry -----------------------------
\* Instances of Registry for TLC.
EXTENDS Registry, TLC

CONSTANTS loop, admin, client, start

MCThree == 1 :> "active" @@ 2 :> "standby" @@ 3 :> "none"
MCTwo == 1 :> "active" @@ 2 :> "standby"

MCOps == loop :> {"check"} @@ admin :> {"rotate", "seal", "promote"}
           @@ client :> {"post"} @@ start :> {"register"}
=============================================================================
