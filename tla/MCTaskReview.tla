---- MODULE MCTaskReview ----
(* Proposals for TLC of two sources: with two variants under one id, or with *)
(* one from the next version of a source.                                    *)
EXTENDS TaskReview, TLC

Proposal(id, source, version, title, owner) ==
    [id |-> id, source |-> source, version |-> version,
     values |-> [f \in {"title", "owner"} |-> IF f = "title" THEN title ELSE owner]]

VariantProposed ==
    "a" :> Proposal("a", "A", 1, "u", "u") @@
    "variant" :> Proposal("a", "A", 1, "u", "w") @@
    "b" :> Proposal("b", "B", 1, "w", "w")

StackProposed ==
    "a" :> Proposal("a", "A", 1, "u", "u") @@
    "b" :> Proposal("b", "B", 1, "w", "w") @@
    "new" :> Proposal("new", "A", 2, "u", "w")
====
