---- MODULE MCDurableLoop ----
EXTENDS DurableLoop
====
