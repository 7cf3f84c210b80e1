---- MODULE MCSourceIngestion ----
(* A version of two segments and one that does not parse.                   *)
EXTENDS SourceIngestion

Lengths == [v \in {"parsed", "unparsed"} |-> IF v = "parsed" THEN 2 ELSE 0]
====
