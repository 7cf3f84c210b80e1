---------------------------- MODULE DecisionMemory ----------------------------
(***************************************************************************)
(* The temporal decision memory of one workspace and one decision slot:     *)
(* the review workflow of candidates (semantic_ingestion/materialization.py),*)
(* the decision versions and receipts they become and the reconciliation    *)
(* with the sources (decision_memory/store.py, reconciliation.py), driven by *)
(* the requests of ProductApplication (ui/product.py, ui/revalidation.py).  *)
(*                                                                         *)
(* Requests hold the application's store lock, so they never interleave;    *)
(* but each is a sequence of transactions, and the process may die, or the  *)
(* request fail, between any two of them.  A restart reconciles.            *)
(***************************************************************************)
EXTENDS Naturals, FiniteSets

CONSTANTS
    Candidates,  \* the claims extraction finds; a decision has its candidate's name
    Claim,       \* what each candidate says and where it is found (see ClaimOf)
    Sources, Versions,
    None, Removed,  \* no record; the version of a source that is deleted
    Forever,     \* the end of an open validity interval, later than every time
    MaxChanges   \* bound: changes of sources

ClaimOf(c) ==
    /\ Claim[c].from \in Nat /\ Claim[c].until \in Nat
    /\ Claim[c].from < Claim[c].until /\ Claim[c].until <= Forever
    /\ Claim[c].source \in Sources /\ Claim[c].version \in Versions
    /\ Claim[c].quoted \subseteq Versions     \* versions in which its quote occurs
    /\ Claim[c].version \in Claim[c].quoted
    /\ Claim[c].decisive \in BOOLEAN          \* a DECISION or FACT, not a proposal
    \* what the calibrated policy authorizes of it by itself: nothing of an agent's
    \* result, nor without a calibration; only what is valid already below its thresholds
    /\ Claim[c].trusted \in {"never", "repeated", "always"}
    /\ {"value", "span"} \subseteq DOMAIN Claim[c]

ASSUME DecisionAssumption ==
    /\ Forever \in Nat /\ MaxChanges \in Nat /\ None \notin Candidates /\ Removed \notin Versions
    /\ \A c \in Candidates : ClaimOf(c)
    /\ Sources \cap {"none", "restart"} = {}     \* a source is not one of the other requests

Reviewable == {"PENDING_REVIEW", "CONFLICT"}
Authorized == {"APPROVED", "POLICY_AUTHORIZED"}
Queried == {"ACTIVE", "SUPERSEDED"}     \* the memory states get_as_of reads
States == Reviewable \cup Authorized
          \cup {"MATERIALIZED", "DUPLICATE", "SUPPORTING_ONLY", "REJECTED", "STALE", "INVALIDATED"}
Records == [status : {"CURRENT", "SUPERSEDED"}, memory : Queried \cup {"STALE", "INVALIDATED"},
            until : 1..Forever, supersedes : Candidates \cup {None}]

\* A row that is there is not the missing one.
ASSUME NoneAssumption ==
    /\ None \notin States /\ None \notin Records
    /\ None \notin [decision : Candidates, result : {"MATERIALIZED", "DUPLICATE"}]

VARIABLES
    content,    \* each source: its current version, or Removed
    workflow,   \* each candidate: its workflow_state, or None
    grant,      \* each candidate: its authorization event
    decision,   \* each candidate: the decision record made from it, or None
    receipt,    \* each candidate: its materialization receipt, or None
    request,    \* the transactions left to do: of a source change, or a restart
    reconciled, \* the last reconciliation was committed
    restored,   \* history: decisions a reconciliation made valid again
    changes     \* history: source changes so far

vars == <<content, workflow, grant, decision, receipt, request, reconciled, restored, changes>>
others == <<request, reconciled, restored, changes>>

-----------------------------------------------------------------------------
(* Sources.                                                                *)

\* The registry holds the evidence of the current versions ...
Verified(c) == content[Claim[c].source] = Claim[c].version
\* ... and source_inventory also old evidence whose quote still occurs.
Present(c) == content[Claim[c].source] \in Claim[c].quoted

-----------------------------------------------------------------------------
(* Decision versions.                                                      *)

Written == {d \in Candidates : decision[d] # None}
Valid(d) == decision[d].memory \in Queried
From(d) == Claim[d].from
ValidAt(t) == {d \in Written : Valid(d) /\ From(d) <= t /\ t < decision[d].until}

\* get_as_of: ORDER BY valid_from DESC.
AsOf(t) ==
    IF ValidAt(t) = {} THEN None
    ELSE CHOOSE d \in ValidAt(t) : \A e \in ValidAt(t) : From(e) <= From(d)

SameValue(c, d) == Claim[c].value = Claim[d].value
SameSpan(c, d) ==
    /\ Claim[c].source = Claim[d].source /\ Claim[c].version = Claim[d].version
    /\ Claim[c].span = Claim[d].span

\* The unique index ux_decision_current_subject: one open ACTIVE record.
OpenActive(records) ==
    {d \in Candidates : records[d] # None /\ records[d].until = Forever
                                          /\ records[d].memory = "ACTIVE"}
Indexed(records) == Cardinality(OpenActive(records)) <= 1

\* get_decision_revalidation_links: closed by the receipt of a human approval.
Revalidated ==
    {r \in Written : \E c \in Candidates :
        receipt[c] # None /\ grant[c].by = "human" /\ grant[c].revalidates = r
                          /\ receipt[c].decision # r}

-----------------------------------------------------------------------------
(* Candidates under review.                                                *)

\* What the policy makes of a claim beside the decision known at its time.
Disposition(c) ==
    LET prior == AsOf(From(c))
    IN  IF ~Claim[c].decisive THEN "SUPPORTING_ONLY"
        ELSE IF prior # None /\ ~SameValue(prior, c) THEN "CONFLICT"
        ELSE "PENDING_REVIEW"

\* capture: saving the candidate and disposing of it are two transactions;
\* a replay of a saved candidate changes nothing any more.
Capture(c) ==
    /\ request = "none" /\ workflow[c] = None /\ Verified(c)
    /\ \E state \in {"PENDING_REVIEW", Disposition(c)} :
          workflow' = [workflow EXCEPT ![c] = state]
    /\ UNCHANGED <<content, grant, decision, receipt, others>>

Eligible(c) == Verified(c) /\ Claim[c].decisive

\* DecisionRevalidation.inspect: the decision may be revalidated.
Open(r) ==
    /\ r \in Written /\ decision[r].memory = "STALE" /\ decision[r].until = Forever
    /\ r \notin Revalidated

\* approve, as an ordinary review (r = None) or as the revalidation of r.
Approve(c, r) ==
    /\ request = "none" /\ workflow[c] \in Reviewable /\ Eligible(c)
    /\ r # None => Open(r) /\ From(c) >= From(r)
    /\ workflow' = [workflow EXCEPT ![c] = "APPROVED"]
    /\ grant' = [grant EXCEPT ![c] = [by |-> "human", revalidates |-> r]]
    /\ UNCHANGED <<content, decision, receipt, others>>

Reject(c) ==
    /\ request = "none" /\ workflow[c] \in Reviewable
    /\ workflow' = [workflow EXCEPT ![c] = "REJECTED"]
    /\ UNCHANGED <<content, grant, decision, receipt, others>>

AuthorizeByPolicy(c) ==
    /\ request = "none" /\ workflow[c] = "PENDING_REVIEW" /\ Eligible(c)
    /\ LET prior == AsOf(From(c)) IN
       IF prior = None THEN Claim[c].trusted = "always"
       ELSE SameValue(prior, c) /\ Claim[c].trusted # "never"
    /\ workflow' = [workflow EXCEPT ![c] = "POLICY_AUTHORIZED"]
    /\ grant' = [grant EXCEPT ![c] = [by |-> "policy", revalidates |-> None]]
    /\ UNCHANGED <<content, decision, receipt, others>>

-----------------------------------------------------------------------------
(* Materialization.                                                        *)

\* An earlier receipt for the same claim whose decision still stands.
Duplicates(c) ==
    {r \in Candidates : /\ receipt[r] # None /\ Valid(receipt[r].decision)
                        /\ SameSpan(r, c) /\ SameValue(r, c) /\ From(r) = From(c)}
Later(c) == {d \in Written : Valid(d) /\ From(d) > From(c)}

\* A decision that says the same is reused only as it is, interval included.
Reusable(d, c) ==
    /\ From(d) = From(c) /\ decision[d].until = Claim[c].until /\ Verified(d)

NewRecord(c, prior) ==
    [status |-> "CURRENT", memory |-> "ACTIVE", until |-> Claim[c].until, supersedes |-> prior]
\* Mutant of Closed: a predecessor that ends by itself keeps its end.
ClosedAtItsEnd(d, t) ==
    [decision[d] EXCEPT !.status = "SUPERSEDED", !.memory = "SUPERSEDED",
                        !.until = IF @ = Forever THEN t ELSE @]
Closed(d, t) == [decision[d] EXCEPT !.status = "SUPERSEDED", !.memory = "SUPERSEDED", !.until = t]
\* _write_decision_locked
WithNew(c, prior) ==
    [d \in Candidates |-> IF d = c THEN NewRecord(c, prior)
                          ELSE IF d = prior THEN Closed(d, From(c)) ELSE decision[d]]

Materialize(c) ==
    /\ request = "none" /\ workflow[c] \in Authorized /\ receipt[c] = None /\ Eligible(c)
    /\ LET prior == AsOf(From(c))
           same == prior # None /\ SameValue(prior, c)
           known == IF Duplicates(c) # {} THEN {receipt[r].decision : r \in Duplicates(c)}
                    ELSE IF same THEN {prior} ELSE {}
       IN  \/ /\ known # {} /\ (same => Reusable(prior, c))
              /\ \E d \in known : receipt' =
                    [receipt EXCEPT ![c] = [decision |-> d, result |-> "DUPLICATE"]]
              /\ workflow' = [workflow EXCEPT ![c] = "DUPLICATE"]
              /\ UNCHANGED decision
           \/ /\ known = {} /\ Later(c) = {}
              /\ prior # None => From(prior) < From(c)
              /\ Indexed(WithNew(c, prior))
              /\ decision' = WithNew(c, prior)
              /\ receipt' = [receipt EXCEPT ![c] = [decision |-> c, result |-> "MATERIALIZED"]]
              /\ workflow' = [workflow EXCEPT ![c] = "MATERIALIZED"]
    /\ UNCHANGED <<content, grant, others>>

\* materialize of an authorization whose source has moved on.
Lapse(c) ==
    /\ request = "none" /\ workflow[c] \in Authorized /\ receipt[c] = None /\ ~Verified(c)
    /\ workflow' = [workflow EXCEPT ![c] = "STALE"]
    /\ UNCHANGED <<content, grant, decision, receipt, others>>

\* record_extraction_correction: another extraction of the same span is right.
Correct(bad, good) ==
    /\ request = "none" /\ bad # good /\ SameSpan(bad, good)
    /\ workflow[bad] \notin {None, "INVALIDATED"} /\ workflow[good] # None
    /\ workflow' = [workflow EXCEPT ![bad] = "INVALIDATED"]
    /\ decision' = IF receipt[bad] = None THEN decision
                   ELSE [decision EXCEPT ![receipt[bad].decision].memory = "INVALIDATED"]
    /\ UNCHANGED <<content, grant, receipt, others>>

-----------------------------------------------------------------------------
(* Sources change, and the reconciliation follows.                         *)

\* update_source and delete_source, up to their commit.
ChangeSource(s, v) ==
    /\ request = "none" /\ content[s] \notin {v, Removed} /\ changes < MaxChanges
    /\ content' = [content EXCEPT ![s] = v]
    /\ request' = s /\ changes' = changes + 1
    /\ UNCHANGED <<workflow, grant, decision, receipt, reconciled, restored>>

\* _stale_review_candidates, one transaction per candidate.
ToWithdraw(c) ==
    /\ request = Claim[c].source /\ ~Verified(c)
    /\ workflow[c] \in Reviewable \cup Authorized
Withdraw(c) ==
    /\ ToWithdraw(c)
    /\ workflow' = [workflow EXCEPT ![c] = "STALE"]
    /\ UNCHANGED <<content, grant, decision, receipt, others>>

DesiredBySource(d) ==
    IF d \in Revalidated \/ ~Present(d) THEN "STALE"
    ELSE IF decision[d].status = "SUPERSEDED" THEN "SUPERSEDED" ELSE "ACTIVE"
\* Mutants of Desired: only the current version is checked; the original of a
\* revalidation comes back with its source.
DesiredIfCurrent(d) ==
    IF decision[d].memory \in {"INVALIDATED", "SUPERSEDED"} THEN decision[d].memory
    ELSE DesiredBySource(d)
DesiredByQuote(d) ==
    IF decision[d].memory = "INVALIDATED" THEN "INVALIDATED"
    ELSE IF ~Present(d) THEN "STALE"
    ELSE IF decision[d].status = "SUPERSEDED" THEN "SUPERSEDED" ELSE "ACTIVE"
Desired(d) ==
    IF decision[d].memory = "INVALIDATED" THEN "INVALIDATED" ELSE DesiredBySource(d)

\* Records are updated one by one in the order of their valid_from: an update
\* that makes a second open record ACTIVE breaks the index, and all is undone.
Blocked ==
    \E d, e \in Written :
        /\ d # e /\ decision[d].until = Forever /\ decision[e].until = Forever
        /\ decision[d].memory # "ACTIVE" /\ Desired(d) = "ACTIVE"
        /\ "ACTIVE" = IF From(e) < From(d) THEN Desired(e) ELSE decision[e].memory

\* Mutant of Synchronized: what comes back counts as materialized.
SynchronizedAsNew(c) ==
    IF receipt[c] = None THEN workflow[c]
    ELSE LET desired == Desired(receipt[c].decision)
         IN  IF desired \in {"STALE", "INVALIDATED"} THEN desired
             ELSE IF workflow[c] = "STALE" THEN "MATERIALIZED" ELSE workflow[c]
\* The workflow states of a decision's candidates follow its state.
Synchronized(c) ==
    IF receipt[c] = None THEN workflow[c]
    ELSE LET desired == Desired(receipt[c].decision)
         IN  IF desired \in {"STALE", "INVALIDATED"} THEN desired
             ELSE IF workflow[c] = "STALE" THEN receipt[c].result ELSE workflow[c]

MayReconcile ==
    request \in Sources => \A c \in Candidates : ~ToWithdraw(c)

\* At the end of an import, an update or a removal, and at every start.
Reconcile ==
    /\ MayReconcile /\ ~Blocked
    /\ decision' = [d \in Candidates |-> IF decision[d] = None THEN None
                                        ELSE [decision[d] EXCEPT !.memory = Desired(d)]]
    /\ workflow' = [c \in Candidates |-> Synchronized(c)]
    /\ restored' = restored \cup {d \in Written : ~Valid(d) /\ Desired(d) \in Queried}
    /\ reconciled' = TRUE /\ request' = "none"
    /\ UNCHANGED <<content, grant, receipt, changes>>

\* The request fails; an application that starts does not come up.
ReconcileFails ==
    /\ MayReconcile /\ Blocked
    /\ reconciled' = FALSE
    /\ request' = IF request = "restart" THEN "restart" ELSE "none"
    /\ UNCHANGED <<content, workflow, grant, decision, receipt, restored, changes>>

Crash ==
    /\ request # "restart" /\ request' = "restart"
    /\ UNCHANGED <<content, workflow, grant, decision, receipt, reconciled, restored, changes>>

Init ==
    /\ content \in [Sources -> Versions]
    /\ workflow = [c \in Candidates |-> None]
    /\ grant = [c \in Candidates |-> [by |-> None, revalidates |-> None]]
    /\ decision = [c \in Candidates |-> None]
    /\ receipt = [c \in Candidates |-> None]
    /\ request = "none" /\ reconciled = TRUE
    /\ restored = {} /\ changes = 0

Next ==
    \/ \E c \in Candidates :
          \/ Capture(c) \/ Reject(c) \/ AuthorizeByPolicy(c)
          \/ Materialize(c) \/ Lapse(c) \/ Withdraw(c)
          \/ \E r \in Candidates \cup {None} : Approve(c, r)
          \/ \E good \in Candidates : Correct(c, good)
    \/ \E s \in Sources, v \in Versions \cup {Removed} : ChangeSource(s, v)
    \/ Reconcile \/ ReconcileFails \/ Crash

Spec == Init /\ [][Next]_vars

-----------------------------------------------------------------------------
(* Properties.                                                             *)

Receipts == [decision : Written, result : {"MATERIALIZED", "DUPLICATE"}]

\* Type correctness; a receipt names a decision that was written, and says how
\* its candidate came to it.
TypeOK ==
    /\ content \in [Sources -> Versions \cup {Removed}]
    /\ workflow \in [Candidates -> States \cup {None}]
    /\ grant \in [Candidates -> [by : {None, "human", "policy"}, revalidates : Candidates \cup {None}]]
    /\ decision \in [Candidates -> Records \cup {None}]
    /\ receipt \in [Candidates -> Receipts \cup {None}]
    /\ \A c \in Candidates : workflow[c] \in {"MATERIALIZED", "DUPLICATE"} =>
          receipt[c] # None /\ receipt[c].result = workflow[c]
    /\ request \in Sources \cup {"none", "restart"} /\ reconciled \in BOOLEAN
    /\ restored \subseteq Candidates /\ changes \in 0..MaxChanges

\* The slot has one valid version at a time, whatever was superseded, found
\* duplicate, corrected or withdrawn in between, in any order (store.py:
\* materialize_semantic_candidate), except around an old version that came back
\* with its source: a version written while it was away is superseded past it.
\* And a superseded one ends where the decision that superseded it begins
\* (_write_decision_locked): no interval is left that nobody answers for.
OneVersionAtATime ==
    /\ \A d, e \in Written \ restored :
          d # e /\ Valid(d) /\ Valid(e) /\ From(d) <= From(e) =>
             \/ decision[d].until <= From(e)
             \/ \E r \in restored : From(d) <= From(r) /\ From(r) <= From(e)
    /\ \A d \in Written : decision[d].status = "SUPERSEDED" =>
          \E e \in Written : decision[e].supersedes = d /\ From(e) = decision[d].until

\* Between requests every version that queries read rests on a source that
\* still has its quote (reconciliation.py), unless the last reconciliation
\* failed.
RestsOnSource ==
    request = "none" /\ reconciled => \A d \in Written : Valid(d) => Present(d)

\* A decision's own candidate holds its receipt, and its interval is not empty:
\* no superseding decision closed it before it began.
Receipted ==
    \A d \in Written : /\ receipt[d] # None /\ receipt[d].decision = d
                       /\ From(d) < decision[d].until

\* The inductive invariant: what the steps above keep, as one formula.
IInv == TypeOK /\ Receipted /\ OneVersionAtATime /\ RestsOnSource

\* A corrected extraction is never valid again; nor is the original of a
\* completed revalidation once it is stale, even when its source comes back
\* (reconciliation.py: "Reintroducing an old quote cannot reuse the original
\* approval").
NoRevival ==
    [][\A d \in Written :
          /\ decision[d].memory = "INVALIDATED" => decision'[d].memory = "INVALIDATED"
          /\ d \in Revalidated /\ decision[d].memory = "STALE" =>
                decision'[d].memory \notin Queried]_vars

\* What docs/requirements/stale-decision-revalidation/SPEC.md says: "New
\* source updates still invalidate the new decision normally".  Violated: an
\* old version that is restored beside the new one makes every later
\* reconciliation fail.
UpdatesInvalidate ==
    request = "none" => \A d \in Written : Valid(d) => Present(d)
=============================================================================
