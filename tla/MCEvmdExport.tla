------------------------------ MODULE MCEvmdExport ------------------------------
(* The instances of EvmdExport that TLC checks.                            *)
EXTENDS EvmdExport, TLC

\* No action tells one validator from another.
ValSymmetry == Permutations(Val)
=============================================================================
