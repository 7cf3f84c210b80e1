------------------------------ MODULE AtMostOnce ------------------------------
(***************************************************************************)
(* What the durable checkpoint protocol promises of external effects, be   *)
(* they provider requests or tool executions: an effect is promised in the *)
(* journal before it is performed, it is performed at most once, and a     *)
(* promise may be withdrawn only while the effect has not been performed.  *)
(***************************************************************************)
EXTENDS Naturals

CONSTANT Actions      \* the effects that may ever be performed

VARIABLES
    promised,         \* effects the journal announces
    performed         \* how often each was performed

vars == <<promised, performed>>

Init ==
    /\ promised = {}
    /\ performed = [a \in Actions |-> 0]

\* The journal promises other effects, or withdraws promises not yet kept.
Revise ==
    /\ promised' \in SUBSET Actions
    /\ \A a \in Actions : performed[a] > 0 => a \in promised'
    /\ UNCHANGED performed

Perform(a) ==
    /\ a \in promised
    /\ performed[a] = 0
    /\ performed' = [performed EXCEPT ![a] = 1]
    /\ UNCHANGED promised

Next == Revise \/ \E a \in Actions : Perform(a)

Spec == Init /\ [][Next]_vars
===============================================================================
