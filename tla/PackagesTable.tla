--------------------------- MODULE PackagesTable ---------------------------
(***************************************************************************)
(* Packages as an implementation of PackageTable: what is committed is the  *)
(* table.                                                                  *)
(***************************************************************************)
EXTENDS Packages

Table == INSTANCE PackageTable WITH table <- packages, Row <- PackageRow

\* Every request, every worker, every failure and every restart does to the
\* committed packages what one step of PackageTable does, or nothing
\* (ProcessPackage, UnpackLargePackage, propagateUnpackToClones).
ImplementsTable == Table!Spec
=============================================================================
