----------------------------- MODULE TaskReview -----------------------------
(***************************************************************************)
(* Human review of extracted task candidates: TaskReviewService            *)
(* (tasks/review.py), TaskMergeService (tasks/merge.py) and the tables they *)
(* share with TaskStore (tasks/store.py): task rows, their events, review   *)
(* audits, claims on candidates, and merge operations.                      *)
(*                                                                         *)
(* Every request runs in one BEGIN IMMEDIATE transaction over all these     *)
(* tables, so an action is one request; a request that is refused or fails  *)
(* changes nothing, unless it first found an approval lapsed and commits    *)
(* that (Observe).  The meeting catalogue changes between requests.  One    *)
(* reviewer is slow: what is previewed may be submitted much later.         *)
(***************************************************************************)
EXTENDS Naturals, Sequences, FiniteSets

CONSTANTS
    Proposed,       \* what extraction may propose: a function to records
                    \* [id, source, version, values]
    Fields,         \* task fields a candidate proposes: title, owner, deadline
    Values,         \* their values
    Edited,         \* bound: the fields reviewers type values for
    MaxTasks,       \* bound: tasks created
    MaxEpoch,       \* bound: changes of one source
    MaxReviews,     \* bound: audits of all tasks together
    MaxEvents,      \* bound: events of one task
    SlowReviewer    \* whether previews are held and submitted later

Proposals == DOMAIN Proposed
IdOf(p) == Proposed[p].id
SourceOf(p) == Proposed[p].source
VersionOf(p) == Proposed[p].version
Ids == {IdOf(p) : p \in Proposals}
Sources == {SourceOf(p) : p \in Proposals}
Versions == {VersionOf(p) : p \in Proposals}
Statuses == {"open", "done"}
Columns == Fields \cup {"status"}
Tasks == 1..MaxTasks

ASSUME ReviewAssumption ==
    /\ \A p \in Proposals :
          Proposed[p] \in [id : Ids, source : Sources, version : Nat \ {0},
                           values : [Fields -> Values]]
    /\ "status" \notin Fields /\ Edited \subseteq Fields
    /\ "none" \notin Values \cup Statuses     \* what a row without a task has
    /\ {MaxTasks, MaxEpoch, MaxReviews, MaxEvents} \subseteq Nat
    /\ SlowReviewer \in BOOLEAN

VARIABLES
    catalogue,  \* the meeting sources: current version, active, change epoch
    published,  \* the proposals extraction has stored
    row,        \* the task rows
    events,     \* task_event: for each task the column changes, one entry
                \* per transaction
    reviews,    \* task_review_event, for each task
    claims,     \* task_candidate_assignment, for each candidate
    merges,     \* task_merge_operation, for each task
    hold        \* the preview a slow reviewer is looking at

ledger == <<row, events, reviews, claims, merges>>
vars == <<catalogue, published, ledger, hold>>

-----------------------------------------------------------------------------
(* Candidates and their fingerprints.                                      *)

Listed ==
    {p \in published : LET s == catalogue[SourceOf(p)]
                       IN  s.active /\ s.version = VersionOf(p)}

\* A fingerprint binds the proposal, the durable change epoch of its source
\* and all variants proposed under the same candidate id.
Fingerprint(p) ==
    [of    |-> p,
     epoch |-> catalogue[SourceOf(p)].epoch,
     among |-> {q \in Listed : IdOf(q) = IdOf(p)}]

Fingerprints == [of : Proposals, epoch : 0..MaxEpoch, among : SUBSET Proposals]
Current(fp) == fp.of \in Listed /\ Fingerprint(fp.of) = fp

-----------------------------------------------------------------------------
(* Tables.                                                                 *)

Last(s) == s[Len(s)]
Created(t) == reviews[t] # <<>>
Latest(t) == Last(reviews[t])
Merged(t) == merges[t] # <<>>
Tip(i) == Last(claims[i])
\* Mutant of Free: whoever looks for any release, not for the latest entry.
FreeOnceReleased(i) == claims[i] # <<>> => \E c \in DOMAIN claims[i] : claims[i][c].op = "release"
Free(i) == claims[i] # <<>> => Tip(i).op = "release"
ClaimedBy(i, t) == claims[i] # <<>> /\ Tip(i).op = "claim" /\ Tip(i).task = t
ValuesIn(r) == [f \in Fields |-> r[f]]
Source(p, fp) == [origin |-> p, fp |-> fp]

\* The fingerprints an audit of a task depends on: before the first merge its
\* own only, afterwards those of every field.
Dependencies(audit, merged) ==
    {audit.fp} \cup IF merged THEN {audit.sources[f].fp : f \in Fields} ELSE {}
Valid(audit, merged) == \A fp \in Dependencies(audit, merged) : Current(fp)

\* Mutant of Lapsed: compares proposals and not fingerprints, so that a source
\* changed and changed back looks untouched.
LapsedByListing(t) ==
    /\ Latest(t).status = "approved"
    /\ \E fp \in Dependencies(Latest(t), Merged(t)) : fp.of \notin Listed

\* _refresh: an approval whose dependencies are no longer current.
Lapsed(t) ==
    /\ Latest(t).status = "approved"
    /\ \/ ~Valid(Latest(t), Merged(t))
       \/ Merged(t) /\ Latest(t).values # ValuesIn(row[t])
\* Mutant of Withdrawn: the new audit inherits the events of the lapsed one.
WithdrawnWithEvents(audit) ==
    [audit EXCEPT !.action = "needs_review", !.status = "needs_review", !.by = "system"]
Withdrawn(audit) ==
    [audit EXCEPT !.action = "needs_review", !.status = "needs_review",
                  !.events = {}, !.by = "system"]

Audits == Cardinality(UNION {{t} \X DOMAIN reviews[t] : t \in Tasks})
Room(t) == Audits < MaxReviews /\ Len(events[t]) < MaxEvents
Submitted == UNCHANGED <<catalogue, published, hold>>

\* The columns a new row changes, and the log with their events.
ChangedColumns(old, new) == {c \in Columns : old[c] # new[c]}
WithEvents(t, new) ==
    LET S == ChangedColumns(row[t], new)
        entry == [c \in S |-> [old |-> row[t][c], new |-> new[c]]]
    IN  IF S = {} THEN events[t] ELSE Append(events[t], entry)
NewEvents(t, new) ==
    (DOMAIN WithEvents(t, new)) \ (DOMAIN events[t])

Write(t, new) ==
    /\ row' = [row EXCEPT ![t] = new]
    /\ events' = [events EXCEPT ![t] = WithEvents(t, new)]

Audit(action, status, fp, r, sources, evs) ==
    [action |-> action, status |-> status, fp |-> fp, values |-> ValuesIn(r),
     sources |-> sources, events |-> evs, by |-> "human"]
Record(t, audit) == reviews' = [reviews EXCEPT ![t] = Append(@, audit)]

Claim(fp, t, action) ==
    claims' = [claims EXCEPT ![IdOf(fp.of)] =
                  Append(@, [op |-> "claim", task |-> t, action |-> action, fp |-> fp])]

\* What a reviewer's patch may hold.
Patches == UNION {[S -> Values] : S \in SUBSET Edited}
Patched(r, patch) == [c \in Columns |-> IF c \in DOMAIN patch THEN patch[c] ELSE r[c]]
\* Mutant of Origins: an edited field keeps its source.
OriginsKept(sources, patch, fp) == sources

\* _origins: patched fields become human statements.
Origins(sources, patch, fp) ==
    [f \in Fields |-> IF f \in DOMAIN patch THEN Source("human", fp) ELSE sources[f]]

-----------------------------------------------------------------------------
NoTask == [c \in Columns |-> "none"]
Nothing == [kind |-> "none"]

Init ==
    /\ catalogue = [s \in Sources |-> [version |-> 1, active |-> TRUE, epoch |-> 0]]
    /\ published = {}
    /\ row = [t \in Tasks |-> NoTask]
    /\ events = [t \in Tasks |-> <<>>]
    /\ reviews = [t \in Tasks |-> <<>>]
    /\ claims = [i \in Ids |-> <<>>]
    /\ merges = [t \in Tasks |-> <<>>]
    /\ hold = Nothing

\* A source is uploaded again, with new or with earlier content; the trigger
\* task_review_source_epoch counts the change.  The catalogue numbers contents
\* as they come; here one may be skipped, which only adds behaviours.
Upload(s, v) ==
    /\ ~(catalogue[s].active /\ catalogue[s].version = v)
    /\ catalogue[s].epoch < MaxEpoch
    /\ catalogue' = [catalogue EXCEPT
          ![s] = [version |-> v, active |-> TRUE, epoch |-> @.epoch + 1]]
    /\ UNCHANGED <<published, ledger, hold>>

Remove(s) ==
    /\ catalogue[s].active
    /\ catalogue[s].epoch < MaxEpoch
    /\ catalogue' = [catalogue EXCEPT ![s].active = FALSE, ![s].epoch = @ + 1]
    /\ UNCHANGED <<published, ledger, hold>>

\* GeneratedTaskBatchStore.save: only for the current version of a source.
Publish(p) ==
    /\ p \notin published
    /\ catalogue[SourceOf(p)].active
    /\ catalogue[SourceOf(p)].version = VersionOf(p)
    /\ published' = published \cup {p}
    /\ UNCHANGED <<catalogue, ledger, hold>>

-----------------------------------------------------------------------------
(* Review of one candidate.                                                *)

\* get_task, list_tasks, list_candidates, preview_rebind, and an edit or a
\* re-confirmation that comes too late: the lapse is recorded, and latches.
Observe(t) ==
    /\ Created(t)
    /\ Lapsed(t)
    /\ Room(t)
    /\ Record(t, Withdrawn(Latest(t)))
    /\ Submitted
    /\ UNCHANGED <<row, events, claims, merges>>

Confirm(t, p, patch) ==
    LET fp == Fingerprint(p)
        proposed == [c \in Columns |-> IF c = "status" THEN "open" ELSE Proposed[p].values[c]]
        new == Patched(proposed, patch)
        sources == Origins([f \in Fields |-> Source("source", fp)], patch, fp)
    IN
    /\ ~Created(t) /\ \A u \in 1..(t - 1) : Created(u)
    /\ Room(t)
    /\ p \in Listed
    /\ Free(IdOf(p))
    /\ Write(t, new)
    /\ Claim(fp, t, "create")
    /\ Record(t, Audit("confirm", "approved", fp, new, sources, {1}))
    /\ Submitted
    /\ UNCHANGED merges

Reject(p) ==
    /\ p \in Listed
    /\ Free(IdOf(p))
    /\ Claim(Fingerprint(p), 0, "reject")
    /\ Submitted
    /\ UNCHANGED <<row, events, reviews, merges>>

\* confirm of a candidate whose approval lapsed.
Reconfirm(t, p, patch) ==
    LET fp == Fingerprint(p)
        new == Patched(row[t], patch)
        audit == Audit("reconfirm", "approved", fp, new,
                       Origins(Latest(t).sources, patch, fp), NewEvents(t, new))
    IN
    /\ Created(t) /\ Room(t)
    /\ p \in Listed
    /\ ClaimedBy(IdOf(p), t)
    /\ IdOf(Latest(t).fp.of) = IdOf(p)
    /\ Latest(t).status = "needs_review"
    /\ Merged(t) => Valid(audit, TRUE)
    /\ Write(t, new)
    /\ Record(t, audit)
    /\ Submitted
    /\ UNCHANGED <<claims, merges>>

EditFields(t, patch) ==
    LET fp == Latest(t).fp
        new == Patched(row[t], patch)
    IN
    /\ Created(t) /\ Room(t)
    /\ ~Lapsed(t)
    /\ Latest(t).status = "approved"
    /\ Write(t, new)
    /\ Record(t, Audit("edit", "approved", fp, new,
                       Origins(Latest(t).sources, patch, fp), NewEvents(t, new)))
    /\ Submitted
    /\ UNCHANGED <<claims, merges>>

\* TaskStore.set_status: an event, and no audit.
SetStatus(t, status) ==
    /\ Created(t) /\ Room(t)
    /\ row[t]["status"] # status
    /\ Write(t, [row[t] EXCEPT !["status"] = status])
    /\ Submitted
    /\ UNCHANGED <<reviews, claims, merges>>

-----------------------------------------------------------------------------
(* Binding a task to a newer version of its source, or declaring it gone.   *)

Sighted(t) == Created(t) /\ Latest(t).status = "needs_review"
Basis(t) == Latest(t).fp.of
Differing(t, p) == {f \in Fields : row[t][f] # Proposed[p].values[f]}

Chosen(t, p, choices, f) ==
    CASE choices[f] = "current" -> row[t][f]
      [] choices[f] = "candidate" -> Proposed[p].values[f]
      [] OTHER -> choices[f]
ByHuman(t, p, choices) ==
    {f \in DOMAIN choices : choices[f] \in Values \/ (choices[f] = "current" /\ f \in Differing(t, p))}

Rebind(t, p, choices) ==
    LET fp == Fingerprint(p)
        human == ByHuman(t, p, choices)
        new == [c \in Columns |-> IF c \in DOMAIN choices THEN Chosen(t, p, choices, c)
                                                         ELSE row[t][c]]
        sources == [f \in Fields |->
            IF f \in human THEN Source("human", fp)
            ELSE IF f \in DOMAIN choices /\ choices[f] = "candidate" THEN Source("source", fp)
            ELSE Latest(t).sources[f]]
        audit == Audit("rebind", "approved", fp, new, sources, NewEvents(t, new))
    IN
    /\ Sighted(t) /\ Room(t)
    /\ p \in Listed /\ Free(IdOf(p))
    /\ SourceOf(p) = SourceOf(Basis(t)) /\ VersionOf(p) > VersionOf(Basis(t))
    /\ Differing(t, p) \subseteq DOMAIN choices
    /\ Merged(t) => Valid(audit, TRUE)
    /\ Write(t, new)
    /\ Claim(fp, t, "merge")
    /\ Record(t, audit)
    /\ Submitted
    /\ UNCHANGED merges

Invalidate(t) ==
    /\ Sighted(t) /\ Room(t)
    /\ LET s == catalogue[SourceOf(Basis(t))]
       IN  s.active /\ s.version > VersionOf(Basis(t))
    /\ Record(t, Audit("invalidate", "invalidated", Latest(t).fp, row[t],
                       Latest(t).sources, {}))
    /\ Submitted
    /\ UNCHANGED <<row, events, claims, merges>>

UndoInvalidation(t) ==
    /\ Created(t) /\ Room(t)
    /\ Latest(t).status = "invalidated"
    /\ Record(t, Audit("needs_review", "needs_review", Latest(t).fp, row[t],
                       Latest(t).sources, {}))
    /\ Submitted
    /\ UNCHANGED <<row, events, claims, merges>>

-----------------------------------------------------------------------------
(* Merging a further candidate into a task, and undoing merges in reverse.  *)

Undone(t) == {m \in DOMAIN merges[t] : \E u \in DOMAIN merges[t] : merges[t][u].target = m}
Active(t) == {m \in DOMAIN merges[t] \ Undone(t) : merges[t][m].op = "merge"}
\* Mutant of Top: the latest operation, undone merges and undos included.
TopOfHistory(t) == Len(merges[t])
Top(t) == IF Active(t) = {} THEN 0
          ELSE CHOOSE m \in Active(t) : \A n \in Active(t) : n <= m

MayMerge(t, p) ==
    /\ Created(t)
    /\ ~Lapsed(t)
    /\ Latest(t).status = "approved"
    /\ p \in Listed
    /\ Free(IdOf(p))

\* What the preview shows the reviewer; its digest is the preview token.
MergePreview(t, p, fields) ==
    [kind |-> "merge", task |-> t, candidate |-> p, fields |-> fields,
     fp |-> Fingerprint(p), row |-> row[t], revision |-> Len(reviews[t]),
     tail |-> Len(events[t]), claim |-> Len(claims[IdOf(p)]), parent |-> Top(t)]

\* _view looks again, now with the dependencies of a merged task.
SeenAgain(audit) ==
    IF Valid(audit, TRUE) THEN <<audit>> ELSE <<audit, Withdrawn(audit)>>

ApplyMerge(t, p, fields) ==
    LET fp == Fingerprint(p)
        new == [c \in Columns |-> IF c \in fields THEN Proposed[p].values[c] ELSE row[t][c]]
        sources == [f \in Fields |-> IF f \in fields THEN Source("source", fp)
                                                    ELSE Latest(t).sources[f]]
        audit == Audit("rebind", "approved", fp, new, sources, NewEvents(t, new))
        seen == SeenAgain(audit)
    IN
    /\ MayMerge(t, p)
    /\ Room(t) /\ Audits + Len(seen) <= MaxReviews
    /\ Merged(t) => Valid(audit, TRUE)
    /\ Write(t, new)
    /\ Claim(fp, t, "merge")
    /\ reviews' = [reviews EXCEPT ![t] = @ \o seen]
    /\ merges' = [merges EXCEPT ![t] = Append(@,
          [op |-> "merge", target |-> 0, parent |-> Top(t), audit |-> Len(reviews[t]) + 1,
           fp |-> fp, claim |-> Len(claims[IdOf(p)]) + 1, before |-> row[t], after |-> new,
           was |-> Len(reviews[t]), fields |-> fields, tail |-> Len(events[t]),
           events |-> audit.events])]
    /\ UNCHANGED <<catalogue, published>>

\* _prepare_undo: the blockers.
LaterOps(t, m) == {k \in DOMAIN merges[t] : k >= m}
ReviewBlockers(t, m) ==
    {a \in DOMAIN reviews[t] :
        /\ a > merges[t][m].audit
        /\ a \notin {merges[t][k].audit : k \in LaterOps(t, m)}
        /\ ~(reviews[t][a].action = "needs_review" /\ reviews[t][a].by = "system")}
EventBlockers(t, m) ==
    {e \in DOMAIN events[t] :
        /\ e > merges[t][m].tail
        /\ e \notin UNION {merges[t][k].events : k \in LaterOps(t, m)}}
StateAsMerged(t, m) ==
    LET after == reviews[t][merges[t][m].audit]
    IN  row[t] = merges[t][m].after /\ Latest(t).fp = after.fp /\ Latest(t).sources = after.sources
StillClaimed(t, m) ==
    LET claim == claims[IdOf(merges[t][m].fp.of)]
    IN  Last(claim).op = "claim" /\ Len(claim) = merges[t][m].claim

MayUndo(t, m) ==
    /\ Created(t)
    /\ m # 0 /\ m = Top(t)
    /\ ReviewBlockers(t, m) = {} /\ EventBlockers(t, m) = {}
    /\ StateAsMerged(t, m)
    /\ StillClaimed(t, m)

RestoredStatus(t, m) ==
    IF Valid(reviews[t][merges[t][m].was], TRUE) THEN "approved" ELSE "needs_review"

UndoPreview(t, m) ==
    [kind |-> "undo", task |-> t, merge |-> m, row |-> row[t], revision |-> Len(reviews[t]),
     tail |-> Len(events[t]), claim |-> Len(claims[IdOf(merges[t][m].fp.of)]),
     operation |-> Len(merges[t]), restored |-> RestoredStatus(t, m)]

\* Mutants of RestoredAudit: the undo always re-confirms; or it keeps the
\* field sources the merge brought.
RestoredAuditReconfirmed(t, m) ==
    Audit("reconfirm", RestoredStatus(t, m), reviews[t][merges[t][m].was].fp, merges[t][m].before,
          reviews[t][merges[t][m].was].sources, NewEvents(t, merges[t][m].before))
RestoredAuditOfMerge(t, m) ==
    Audit("needs_review", "needs_review", reviews[t][merges[t][m].was].fp, merges[t][m].before,
          Latest(t).sources, NewEvents(t, merges[t][m].before))

\* The audit of an undo: binding and field sources of the audit before the merge.
RestoredAudit(t, m) ==
    LET old == reviews[t][merges[t][m].was]
        before == merges[t][m].before
        status == RestoredStatus(t, m)
    IN  Audit(IF status = "approved" THEN "reconfirm" ELSE "needs_review", status,
              old.fp, before, old.sources, NewEvents(t, before))

ApplyUndo(t, m) ==
    LET target == merges[t][m]
        id == IdOf(target.fp.of)
        audit == RestoredAudit(t, m)
    IN
    /\ MayUndo(t, m)
    /\ Room(t)
    /\ Write(t, target.before)
    /\ claims' = [claims EXCEPT ![id] =
          Append(@, [op |-> "release", task |-> t, action |-> Tip(id).action, fp |-> Tip(id).fp])]
    /\ Record(t, audit)
    /\ merges' = [merges EXCEPT ![t] = Append(@,
          [target EXCEPT !.op = "undo", !.target = m, !.audit = Len(reviews[t]) + 1,
                         !.claim = Len(claims[id]) + 1, !.before = row[t],
                         !.after = target.before, !.was = Len(reviews[t]),
                         !.tail = Len(events[t]), !.events = audit.events])]
    /\ UNCHANGED <<catalogue, published>>

Merge(t, p, fields) == ApplyMerge(t, p, fields) /\ UNCHANGED hold
Undo(t, m) == ApplyUndo(t, m) /\ UNCHANGED hold

(* The slow reviewer.                                                       *)

PreviewMerge(t, p, fields) ==
    /\ SlowReviewer /\ hold = Nothing
    /\ MayMerge(t, p)
    /\ hold' = MergePreview(t, p, fields)
    /\ UNCHANGED <<catalogue, published, ledger>>

PreviewUndo(t, m) ==
    /\ SlowReviewer /\ hold = Nothing
    /\ MayUndo(t, m)
    /\ hold' = UndoPreview(t, m)
    /\ UNCHANGED <<catalogue, published, ledger>>

\* Mutant of MergeFresh: the merge is possible, but the token is not compared.
MergePossible(t, p, fields) == MayMerge(t, p)

\* The request prepares again and compares token and review revision.
MergeFresh(t, p, fields) ==
    MayMerge(t, p) /\ MergePreview(t, p, fields) = hold
UndoFresh(t, m) == MayUndo(t, m) /\ UndoPreview(t, m) = hold

SubmitMerge ==
    /\ hold.kind = "merge"
    /\ MergeFresh(hold.task, hold.candidate, hold.fields)
    /\ ApplyMerge(hold.task, hold.candidate, hold.fields)
    /\ hold' = Nothing

SubmitUndo ==
    /\ hold.kind = "undo"
    /\ UndoFresh(hold.task, hold.merge)
    /\ ApplyUndo(hold.task, hold.merge)
    /\ hold' = Nothing

\* Refused as stale, or the reviewer gives up.
Discard ==
    /\ hold # Nothing
    /\ hold' = Nothing
    /\ UNCHANGED <<catalogue, published, ledger>>

-----------------------------------------------------------------------------
Choices ==
    {choices \in UNION {[S -> {"current", "candidate"} \cup Values] : S \in SUBSET Fields} :
        \A f \in DOMAIN choices : choices[f] \in Values => f \in Edited}

Next ==
    \/ \E s \in Sources : Remove(s) \/ \E v \in Versions : Upload(s, v)
    \/ \E p \in Proposals : Publish(p) \/ Reject(p)
    \/ \E t \in Tasks, p \in Proposals, patch \in Patches :
          Confirm(t, p, patch) \/ Reconfirm(t, p, patch)
    \/ \E t \in Tasks, patch \in Patches : EditFields(t, patch)
    \/ \E t \in Tasks, status \in Statuses : SetStatus(t, status)
    \/ \E t \in Tasks, p \in Proposals, choices \in Choices : Rebind(t, p, choices)
    \/ \E t \in Tasks : Observe(t) \/ Invalidate(t) \/ UndoInvalidation(t)
    \/ \E t \in Tasks, p \in Proposals, fields \in SUBSET Fields :
          Merge(t, p, fields) \/ PreviewMerge(t, p, fields)
    \/ \E t \in Tasks : \E m \in DOMAIN merges[t] : Undo(t, m) \/ PreviewUndo(t, m)
    \/ SubmitMerge \/ SubmitUndo \/ Discard

Spec == Init /\ [][Next]_vars

-----------------------------------------------------------------------------
(* Properties.                                                             *)

Origin == [origin : {"source", "human"}, fp : Fingerprints]
Rows == [Columns -> Values \cup Statuses \cup {"none"}]
Entries == UNION {[S -> [old : Values \cup Statuses \cup {"none"}, new : Values \cup Statuses]] :
                     S \in SUBSET Columns}
TaskRows ==
    {r \in [Columns -> Values \cup Statuses] :
        r["status"] \in Statuses /\ \A f \in Fields : r[f] \in Values}
AuditRecords ==
    [action : {"confirm", "reconfirm", "edit", "rebind", "needs_review", "invalidate"},
     status : {"approved", "needs_review", "invalidated"}, by : {"human", "system"},
     fp : Fingerprints, values : [Fields -> Values], sources : [Fields -> Origin],
     events : SUBSET (1..MaxEvents)]
ClaimRecords == [op : {"claim", "release"}, task : 0..MaxTasks,
                 action : {"create", "merge", "reject"}, fp : Fingerprints]
Operations ==
    [op : {"merge", "undo"}, target : Nat, parent : Nat, audit : Nat, fp : Fingerprints,
     claim : Nat, before : TaskRows, after : TaskRows, was : Nat, fields : SUBSET Fields,
     tail : Nat, events : SUBSET (1..MaxEvents)]

\* An audit's action and its review status belong together.
Verdict(audit) ==
    \/ audit.status = "approved" /\ audit.by = "human"
       /\ audit.action \in {"confirm", "reconfirm", "edit", "rebind"}
    \/ audit.status = "needs_review" /\ audit.action = "needs_review"
    \/ audit.status = "invalidated" /\ audit.action = "invalidate" /\ audit.by = "human"

HoldTypeOK ==
    /\ hold.kind \in {"none", "merge", "undo"} /\ (hold.kind = "none" => hold = Nothing)
    /\ hold.kind = "merge" => hold.task \in Tasks /\ hold.fields \subseteq Fields
    /\ hold.kind = "undo" => hold.task \in Tasks

\* The tables keep the shapes their schemas and readers require, and the bounds
\* hold; a task that was not created has nothing in any of them.
TypeOK ==
    /\ catalogue \in [Sources -> [version : Versions \cup {1}, active : BOOLEAN, epoch : 0..MaxEpoch]]
    /\ published \subseteq Proposals
    /\ row \in [Tasks -> Rows] /\ events \in [Tasks -> Seq(Entries)]
    /\ reviews \in [Tasks -> Seq(AuditRecords)]
    /\ claims \in [Ids -> Seq(ClaimRecords)] /\ merges \in [Tasks -> Seq(Operations)]
    /\ Audits <= MaxReviews
    /\ \A t \in Tasks :
          /\ Len(events[t]) <= MaxEvents
          /\ \A a \in DOMAIN reviews[t] :
                Verdict(reviews[t][a]) /\ reviews[t][a].events \subseteq DOMAIN events[t]
          /\ Created(t) => row[t] \in TaskRows
          /\ ~Created(t) => row[t] = NoTask /\ events[t] = <<>> /\ merges[t] = <<>>
    /\ HoldTypeOK

\* Every field change is listed by exactly one audit, an audit's values follow
\* from its predecessor's by the events it lists, and the latest audit holds
\* what the row holds.
Explained(r, log, audits) ==
    /\ \A e \in DOMAIN log : DOMAIN log[e] # {"status"} =>
          \E a \in DOMAIN audits : \A b \in DOMAIN audits : e \in audits[b].events <=> b = a
    /\ \A a \in DOMAIN audits, f \in Fields :
          LET told == {e \in audits[a].events : f \in DOMAIN log[e]}
          IN  IF told # {} THEN \A e \in told :
                                  /\ audits[a].values[f] = log[e][f].new
                                  /\ a > 1 => audits[a - 1].values[f] = log[e][f].old
              ELSE a > 1 /\ audits[a].values[f] = audits[a - 1].values[f]
    /\ Last(audits).values = ValuesIn(r)

\* The audits explain the events and the row (tasks/review.py, storage.append
\* after every _write_task).
AuditedHistory ==
    \A t \in Tasks : Created(t) => Explained(row[t], events[t], reviews[t])

\* A field that is said to come from a source has the value which the proposal
\* named by its fingerprint gives it ...
Truthful(sources, r) ==
    \A f \in Fields : sources[f].origin = "source" =>
                          r[f] = Proposed[sources[f].fp.of].values[f]

\* ... through edits, re-confirmations under another variant, rebinding, merges
\* and their undoing.
Provenance == \A t \in Tasks : Created(t) => Truthful(Latest(t).sources, row[t])

\* Every candidate that a task's binding or one of its fields rests on is
\* consumed by that task: no candidate supports two tasks, and none that an
\* undo released, or that somebody rejected, supports one.
BindingClaimed ==
    \A t \in Tasks : Created(t) =>
        \A fp \in Dependencies(Latest(t), TRUE) : ClaimedBy(IdOf(fp.of), t)

\* The merges in force before operation k of a list of operations; the last.
InForce(ops, k) ==
    {m \in 1..(k - 1) : ops[m].op = "merge" /\ \A u \in 1..(k - 1) : ops[u].target # m}
Highest(S) == IF S = {} THEN 0 ELSE CHOOSE m \in S : \A n \in S : n <= m

Stacked(t) ==
    \A k \in DOMAIN merges[t] :
        LET op == merges[t][k]
            top == Highest(InForce(merges[t], k))
        IN
        /\ op.op = "merge" => op.parent = top
        /\ op.op = "undo" => op.target = top /\ op.parent = merges[t][top].parent
        /\ k \in Active(t) => StillClaimed(t, k) /\ ClaimedBy(IdOf(op.fp.of), t)

\* The active merges of a task form a stack whose entries still hold their
\* claim: _active_stack never raises, and candidate_assignment_changed never
\* blocks an undo.
StackWellFormed == \A t \in Tasks : Stacked(t)

\* What an undo goes back to: every audit's field sources are truthful, ...
AuditsTruthful ==
    \A t \in Tasks : \A a \in DOMAIN reviews[t] :
        Truthful(reviews[t][a].sources, reviews[t][a].values)

\* ... an operation knows the audit and the row it started from, and what of it
\* a merge left alone, ...
Recorded(t) ==
    \A k \in DOMAIN merges[t] : LET op == merges[t][k] IN
        /\ op.was \in DOMAIN reviews[t] /\ reviews[t][op.was].values = ValuesIn(op.before)
        /\ op.target \in 0..(k - 1) /\ (op.op = "merge" <=> op.target = 0)
        /\ op.op = "merge" => \A c \in Columns \ op.fields : op.after[c] = op.before[c]

\* ... and what the audit below an active merge rests on is still claimed, and
\* will be when that merge and those above it have released their candidates.
Reversible(t) ==
    \A k \in Active(t) :
        /\ \A j \in Active(t) \ {k} : IdOf(merges[t][j].fp.of) # IdOf(merges[t][k].fp.of)
        /\ \A fp \in Dependencies(reviews[t][merges[t][k].was], TRUE) :
              /\ ClaimedBy(IdOf(fp.of), t)
              /\ \A j \in Active(t) : j >= k => IdOf(merges[t][j].fp.of) # IdOf(fp.of)

\* The inductive invariant.
IInv ==
    /\ TypeOK /\ AuditedHistory /\ AuditsTruthful
    /\ BindingClaimed /\ StackWellFormed
    /\ \A t \in Tasks : Recorded(t) /\ Reversible(t)

\* Whatever step leaves a task with a new approval, the sources of its binding
\* - of every field, once something was merged into it - are current in that
\* same transaction.
ApprovedOnCurrentSources ==
    [][\A t \in Tasks :
          (reviews'[t] # reviews[t] /\ Last(reviews'[t]).status = "approved") =>
              Valid(Last(reviews'[t]), Merged(t)')]_vars

\* Undoing a merge touches only what the merge changed: each merged field gets
\* its value from before, the rest of the row, the status included, keeps
\* what people made of it, the field sources are those from before, and the
\* candidate can be decided again.
UndoRestores ==
    [][\A t \in Tasks :
          (merges'[t] # merges[t] /\ Last(merges'[t]).op = "undo") =>
              LET target == merges[t][Last(merges'[t]).target] IN
              /\ \A c \in Columns : row'[t][c] = IF c \in target.fields THEN target.before[c]
                                                                       ELSE row[t][c]
              /\ Last(reviews'[t]).sources = reviews[t][target.was].sources
              /\ Last(claims'[IdOf(target.fp.of)]).op = "release"]_vars

\* What a reviewer submits after a while is written as it was previewed, or
\* not at all, whatever the others did meanwhile.
WrittenAsPreviewed ==
    [][(hold # Nothing /\ hold' = Nothing /\ merges' # merges) =>
          LET t == hold.task
              op == Last(merges'[t])
          IN
          /\ merges'[t] # merges[t]
          /\ op.before = hold.row
          /\ hold.kind = "merge" =>
                /\ op.op = "merge" /\ op.fp = hold.fp /\ op.parent = hold.parent
                /\ \A c \in Columns : row'[t][c] = IF c \in hold.fields
                                                   THEN Proposed[hold.candidate].values[c]
                                                   ELSE hold.row[c]
          /\ hold.kind = "undo" =>
                /\ op.op = "undo" /\ op.target = hold.merge
                /\ row'[t] = merges[t][hold.merge].before
                /\ Last(reviews'[t]).status = hold.restored]_vars
=============================================================================
