----------------------------- MODULE RerankBudget -----------------------------
(***************************************************************************)
(* The charged requests of JevReranker (rerank/jev.py): each rerank reserves *)
(* the most a request can cost, hands it to a thread of its own and waits    *)
(* until a deadline; the thread may still send, and be charged, afterwards.  *)
(* What the provider reports as used is what it charges.                     *)
(***************************************************************************)
EXTENDS Integers, FiniteSets

CONSTANTS
    Requests,  \* the calls of rerank
    Amount,    \* _MAX_REQUEST_INPUT_TOKENS * _PRICE
    Budget,    \* budget_usd
    None

ASSUME RerankAssumption ==
    /\ IsFiniteSet(Requests) /\ None \notin Requests \cup {"ok", "error"}
    /\ Amount \in Nat /\ Budget \in Nat

VARIABLES
    cost, reserved, uncertain,  \* _cost, _reserved, _uncertain
    latest,     \* whose events _inflight_done and _cancel_active are
    caller,     \* where each rerank is
    sender,     \* where its sending thread is
    started, cancelled,         \* the requests whose event is set
    result,     \* what the thread puts in the queue
    holding,    \* history: requests whose reservation is counted in reserved
    settled     \* history: requests whose charge is counted in cost

vars == <<cost, reserved, uncertain, latest, caller, sender, started, cancelled, result,
          holding, settled>>
money == <<cost, reserved, holding, settled>>

\* finished is not set yet
Flying(r) == sender[r] \in {"ready", "checked", "sent"}

-----------------------------------------------------------------------------
(* The caller.                                                             *)

\* Mutant of Affordable: what is reserved is not counted.
AffordableByCost == cost + Amount <= Budget
Affordable == cost + reserved + Amount <= Budget

\* _reserve; refused, the call ends without a trace.
Reserve(r) ==
    /\ caller[r] = "idle" /\ ~uncertain /\ Affordable
    /\ reserved' = reserved + Amount /\ holding' = holding \cup {r}
    /\ caller' = [caller EXCEPT ![r] = "reserved"]
    /\ UNCHANGED <<cost, uncertain, latest, sender, started, cancelled, result, settled>>

Release(r) ==
    /\ reserved' = reserved - Amount /\ holding' = holding \ {r}
    /\ UNCHANGED <<cost, settled>>

Busy == latest # None /\ Flying(latest)

\* request_in_progress
TurnAway(r) ==
    /\ caller[r] = "reserved" /\ Busy
    /\ Release(r) /\ caller' = [caller EXCEPT ![r] = "done"]
    /\ UNCHANGED <<uncertain, latest, sender, started, cancelled, result>>

Launch(r) ==
    /\ caller[r] = "reserved" /\ ~Busy
    /\ latest' = r /\ caller' = [caller EXCEPT ![r] = "waiting"]
    /\ sender' = [sender EXCEPT ![r] = "ready"]
    /\ UNCHANGED <<money, uncertain, started, cancelled, result>>

\* An answer in time, with a usage that can be settled ...
Settle(r, used) ==
    /\ caller[r] = "waiting" /\ result[r] = "ok"
    /\ reserved' = reserved - Amount /\ holding' = holding \ {r}
    /\ cost' = cost + used /\ settled' = settled \cup {r}
    /\ caller' = [caller EXCEPT ![r] = "done"]
    /\ UNCHANGED <<uncertain, latest, sender, started, cancelled, result>>

\* ... or with none (usage_unavailable): the reservation stays.
Unsettled(r) ==
    /\ caller[r] = "waiting" /\ result[r] = "ok"
    /\ uncertain' = TRUE /\ caller' = [caller EXCEPT ![r] = "done"]
    /\ UNCHANGED <<money, latest, sender, started, cancelled, result>>

\* A failure: before the request was started nothing can have been charged.
\* Mutant of Failed: any failed request is taken for one that was not sent.
FailedReleased(r) ==
    /\ caller[r] = "waiting" /\ result[r] = "error"
    /\ Release(r)
    /\ caller' = [caller EXCEPT ![r] = "done"]
    /\ UNCHANGED <<uncertain, latest, sender, started, cancelled, result>>
Failed(r) ==
    /\ caller[r] = "waiting" /\ result[r] = "error"
    /\ IF r \in started THEN uncertain' = TRUE /\ UNCHANGED money
                        ELSE Release(r) /\ UNCHANGED uncertain
    /\ caller' = [caller EXCEPT ![r] = "done"]
    /\ UNCHANGED <<latest, sender, started, cancelled, result>>

\* queue.Empty: the thread is told, then the accounting.
TimeOut(r) ==
    /\ caller[r] = "waiting" /\ result[r] = None
    /\ cancelled' = cancelled \cup {r} /\ caller' = [caller EXCEPT ![r] = "late"]
    /\ UNCHANGED <<money, uncertain, latest, sender, started, result>>
GiveUp(r) ==
    /\ caller[r] = "late"
    /\ uncertain' = TRUE /\ caller' = [caller EXCEPT ![r] = "done"]
    /\ UNCHANGED <<money, latest, sender, started, cancelled, result>>

\* close
Cancel ==
    /\ latest # None /\ cancelled' = cancelled \cup {latest}
    /\ UNCHANGED <<money, uncertain, latest, caller, sender, started, result>>

-----------------------------------------------------------------------------
(* The sending thread.                                                     *)

accounts == <<money, uncertain, latest, caller, cancelled>>

Check(r) ==
    /\ sender[r] = "ready" /\ r \notin cancelled
    /\ sender' = [sender EXCEPT ![r] = "checked"]
    /\ UNCHANGED <<accounts, started, result>>

\* started is set, then the transport is called.
Send(r) ==
    /\ sender[r] = "checked"
    /\ sender' = [sender EXCEPT ![r] = "sent"] /\ started' = started \cup {r}
    /\ UNCHANGED <<accounts, result>>

\* The response, an exception (of a request cancelled before it was sent, or
\* for want of a client, too): finished is set ...
Land(r) ==
    /\ sender[r] \in {"ready", "sent"}
    /\ sender' = [sender EXCEPT ![r] =
          IF sender[r] = "ready" THEN "failed" ELSE "answered"]
    /\ UNCHANGED <<accounts, started, result>>

\* ... before the caller gets the result.
Deliver(r) ==
    /\ \/ sender[r] = "failed" /\ result' = [result EXCEPT ![r] = "error"]
       \/ sender[r] = "answered" /\ \E x \in {"ok", "error"} : result' = [result EXCEPT ![r] = x]
    /\ sender' = [sender EXCEPT ![r] = "ended"]
    /\ UNCHANGED <<accounts, started>>

-----------------------------------------------------------------------------

Init ==
    /\ cost = 0 /\ reserved = 0 /\ uncertain = FALSE /\ latest = None
    /\ caller = [r \in Requests |-> "idle"] /\ sender = [r \in Requests |-> "none"]
    /\ started = {} /\ cancelled = {} /\ result = [r \in Requests |-> None]
    /\ holding = {} /\ settled = {}

Call(r) ==
    \/ Reserve(r) \/ TurnAway(r) \/ Launch(r)
    \/ \E used \in 0..Amount : Settle(r, used)
    \/ Unsettled(r) \/ Failed(r) \/ TimeOut(r) \/ GiveUp(r)
Thread(r) == Check(r) \/ Send(r) \/ Land(r) \/ Deliver(r)

Next == Cancel \/ \E r \in Requests : Call(r) \/ Thread(r)

Spec == Init /\ [][Next]_vars

-----------------------------------------------------------------------------
(* Properties.                                                             *)

TypeOK ==
    /\ cost \in Nat /\ reserved \in Int /\ uncertain \in BOOLEAN
    /\ latest \in Requests \cup {None}
    /\ caller \in [Requests -> {"idle", "reserved", "waiting", "late", "done"}]
    /\ sender \in [Requests ->
          {"none", "ready", "checked", "sent", "failed", "answered", "ended"}]
    /\ result \in [Requests -> {None, "ok", "error"}]
    /\ started \subseteq Requests /\ cancelled \subseteq Requests
    /\ holding \subseteq Requests /\ settled \subseteq Requests

\* Requests the provider may charge, or have charged, beyond what cost knows.
Chargeable == started \ settled

\* Whatever the requests at large turn out to cost, the budget covers it: the
\* answer may come after its deadline, or never (jev.py: _reserve, _request,
\* _settle).
BudgetCovers == cost + Amount * Cardinality(Chargeable) <= Budget

\* One request at a time is on its way, even when its caller has given up.
SingleFlight == \A r \in Requests : Flying(r) => r = latest

-----------------------------------------------------------------------------
(* The inductive invariant.                                                *)

Accounted ==
    /\ reserved = Amount * Cardinality(holding)
    /\ cost + reserved <= Budget

\* A reservation is given back by its own call, and not once the request is
\* on its way.
Reserved ==
    \A r \in Requests :
        /\ caller[r] \in {"reserved", "waiting", "late"} => r \in holding
        /\ caller[r] \in {"idle", "reserved"} =>
              sender[r] = "none" /\ r \notin started /\ r \notin settled
        /\ caller[r] = "idle" => r \notin holding
        /\ caller[r] \in {"waiting", "late"} => r \notin settled
        /\ sender[r] # "none" /\ Flying(r) => r \notin settled /\ r \in holding

\* The events tell how far the thread is.
Threaded ==
    \A r \in Requests :
        /\ sender[r] \in {"none", "ready", "checked", "failed"} => r \notin started
        /\ sender[r] \in {"sent", "answered"} => r \in started
        /\ sender[r] # "ended" <=> result[r] = None
        /\ result[r] = "ok" => r \in started

Covered == Chargeable \subseteq holding /\ holding \cap settled = {}

IInv == TypeOK /\ SingleFlight /\ Accounted /\ Reserved /\ Threaded /\ Covered
=============================================================================
