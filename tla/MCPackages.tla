----------------------------- MODULE MCPackages -----------------------------
\* Instances of Packages for TLC.
EXTENDS PackagesRebuild, PackagesTable, TLC

CONSTANTS r1, r2, r3, w1, w2, zip, big, xml

\* zip is a small ZIP in some instances and a second large one in others.
MCKind == big :> "large" @@ zip :> "small" @@ xml :> "xml"
MCLargeKinds == big :> "large" @@ zip :> "large" @@ xml :> "xml"
MCMembersOne == big :> 1 @@ zip :> 1 @@ xml :> 0
MCMembers == big :> 1 @@ zip :> 2 @@ xml :> 0

\* Requests are alike.
SameRequests == Permutations(Requests)
=============================================================================
