---- MODULE MCFeedbackMemory ----
(* Two entries for one term.                                                *)
EXTENDS FeedbackMemory

Terms == [c \in {"one", "two"} |-> "term"]
====
