---- MODULE MCProofReview ----
(* The request ids are interchangeable.                                     *)
EXTENDS ProofReview

Symmetry == Permutations(Requests)
====
