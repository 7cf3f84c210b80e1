---- MODULE MCDecisionMemory ----
(* Claims for TLC about one slot.                                          *)
EXTENDS DecisionMemory

Said(value, from, until, source, version, quoted) ==
    [value |-> value, from |-> from, until |-> until, source |-> source, version |-> version,
     quoted |-> quoted, span |-> 1, decisive |-> TRUE, trusted |-> "repeated"]
First == Said("x", 2, 4, "s", "v1", {"v1"})

\* A decision, the same said by another source, which the policy trusts and may
\* revalidate it, a bounded decision it replaces before its end, and another
\* reading of the first words, which decides nothing.
Claims == [c \in {"first", "again", "bounded", "aside"} |->
    CASE c = "first" -> First
      [] c = "again" -> [First EXCEPT !.source = "t", !.trusted = "always"]
      [] c = "bounded" -> Said("y", 1, 3, "t", "v1", {"v1", "v2"})
      [] c = "aside" -> [First EXCEPT !.value = "z", !.decisive = FALSE]]

\* Two open decisions of two sources.
OpenClaims == [c \in {"old", "new"} |->
    CASE c = "old" -> First [] c = "new" -> Said("y", 3, 4, "t", "v1", {"v1"})]
====
