------------------------------ MODULE MCReview ------------------------------
(* Small instances of the review pipeline.                                  *)
EXTENDS ReviewProperties, TLC

=============================================================================
