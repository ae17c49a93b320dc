------------------------------ MODULE MCGoogle ------------------------------
(* Small instances of the reconciliation of a Play purchase.                *)
EXTENDS GoogleProperties, TLC

WorkerSymmetry == Permutations(Workers)
=============================================================================
