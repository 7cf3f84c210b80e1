---- MODULE MCGraphRun ----
(* Workspaces for TLC: the indexed notes as they were, one of them edited,  *)
(* and a note added that no index lists yet.                                *)
EXTENDS GraphRun

Three == {[notes |-> "t", added |-> FALSE], [notes |-> "u", added |-> FALSE],
          [notes |-> "t", added |-> TRUE]}
====
