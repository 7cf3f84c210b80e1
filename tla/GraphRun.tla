------------------------------ MODULE GraphRun ------------------------------
(***************************************************************************)
(* The linear graph run of RuntimeEngine (runtime/graph.py): start, resume, *)
(* retry and the loop _execute with its three nodes, over the append-only   *)
(* checkpoints of one thread (runtime/checkpoint.py).                       *)
(*                                                                         *)
(* Each command is a process of its own (a client): it reads the newest     *)
(* checkpoint once, then works on its copy of the state and saves it        *)
(* boundary by boundary.  It may be lost between any two saves: a crash,    *)
(* and a CheckpointWriteError too, which _execute turns into a reported     *)
(* failure that no row records.  Meanwhile notes are edited and added, and  *)
(* the index is rebuilt or deleted.                                         *)
(***************************************************************************)
EXTENDS Naturals, Sequences, FiniteSets, SequencesExt

CONSTANTS
    Clients,    \* the processes that call the engine
    Budgets,    \* what requests give as max_steps
    MaxRuns,    \* bound: runs of the thread, the first and its retries
    Workspaces  \* bound: the workspaces edits lead to: records [notes, added] of
                \* the bytes of the indexed notes and whether one was added

ASSUME GraphRunAssumption == Budgets \subseteq Nat \ {0} /\ MaxRuns \in Nat \ {0}
                             /\ \A w \in Workspaces : DOMAIN w = {"notes", "added"}

Runs == 1..MaxRuns
Nodes == {"resolve_source", "retrieve_context", "emit_result"}
Settled == {"paused", "completed", "failed", "stale", "rejected"}

Missing == [notes |-> "none", added |-> FALSE]
NotPublished == [notes |-> "unpublished", added |-> FALSE]

VARIABLES
    rows,       \* the checkpoints of the thread, in rowid order
    published,  \* results/<run_id>/result.json: the index it was built from
    vault,      \* the workspace now
    index,      \* the workspace the index file describes, or Missing
    client,     \* each client: where it is, its state, the node it executes
    raced,      \* history: runs whose sources moved while the service read them
    lost        \* history: a client was lost with its run unfinished

vars == <<rows, published, vault, index, client, raced, lost>>
sources == <<vault, index, raced>>

-----------------------------------------------------------------------------
(* Checkpoints.                                                            *)

\* get_latest: ORDER BY step_seq DESC, rowid DESC.
Newest ==
    rows[CHOOSE i \in DOMAIN rows : \A j \in DOMAIN rows :
            rows[j].seq < rows[i].seq \/ (rows[j].seq = rows[i].seq /\ j <= i)]
Saved == rows # <<>>

Idle == [at |-> "idle"]
Taken == {rows[i].run : i \in DOMAIN rows}
         \cup {client[c].state.run : c \in {d \in Clients : client[d].at # "idle"}}
Fresh == 1 + Max(Taken)

\* The client works on state s, which it saves before it goes on at next.
ToSave(c, s, node, next) ==
    client' = [client EXCEPT ![c] = [at |-> "save", state |-> s, node |-> node, next |-> next]]
At(c, place) == client[c].at = place
State(c) == client[c].state

Step(s, status, step) == [s EXCEPT !.status = status, !.step = step, !.seq = @ + 1]
Fails(s, status) == Step(s, status, s.step)
\* Mutant of Attempted: the record names the step the node moved on to.
AttemptedNext(s, node, error) ==
    [s EXCEPT !.attempts = Append(@, [run |-> s.run, node |-> s.step, error |-> error])]
\* _append_attempt
Attempted(s, node, error) ==
    [s EXCEPT !.attempts = Append(@, [run |-> s.run, node |-> node, error |-> error])]
ErrorOf(s) == IF s.status \in {"failed", "stale"} THEN "failed" ELSE "none"

-----------------------------------------------------------------------------
(* Commands.                                                               *)

Start(c) ==
    /\ At(c, "idle") /\ ~Saved /\ index # Missing
    /\ \E n \in Budgets :
          ToSave(c, [run |-> 1, parent |-> 0, status |-> "running", step |-> "resolve_source",
                     seq |-> 1, max |-> n, src |-> index, attempts |-> <<>>, waiting |-> 0],
                 "none", "loop")
    /\ UNCHANGED <<rows, published, lost, sources>>

\* resume: the answer to the interrupt of the newest checkpoint.  What the
\* caller answered is kept as "resume" even when the sources forbid to go on.
Resume(c, response) ==
    /\ At(c, "idle") /\ Saved
    /\ Newest.status = "paused"
    /\ LET s == [Newest EXCEPT !.waiting = 0]
           status == IF response = "reject" THEN "rejected"
                     ELSE IF index = Missing THEN "failed"
                     ELSE IF index # s.src THEN "stale" ELSE "running"
       IN  ToSave(c, Fails(s, status), "none", IF status = "running" THEN "loop" ELSE "idle")
    /\ UNCHANGED <<rows, published, lost, sources>>

\* Mutants of Retried: the run id is kept, as if a retry were a resumption;
\* the step counter starts again with the new run.
RetriedInPlace(s, r) == [Step(s, "running", s.step) EXCEPT !.parent = r]
RetriedFromOne(s, r) == [s EXCEPT !.status = "running", !.seq = 1, !.run = Fresh, !.parent = r]
Retried(s, r) == [Step(s, "running", s.step) EXCEPT !.run = Fresh, !.parent = r]

\* Mutant of Retriable: whatever is not running or waiting may be retried.
RetriableUnlessActive(s) == s.status \in {"failed", "rejected", "stale"}
Retriable(s) == s.status = "failed"

\* retry: any run of the thread names it; the newest state is what continues.
Retry(c, r) ==
    /\ At(c, "idle") /\ Saved /\ Fresh <= MaxRuns
    /\ \E i \in DOMAIN rows : rows[i].run = r
    /\ Retriable(Newest)
    /\ ToSave(c, Retried(Newest, r), "none", "loop")
    /\ UNCHANGED <<rows, published, lost, sources>>

-----------------------------------------------------------------------------
(* The loop.                                                               *)

\* After the save: on to the next node, a pause, the attempt record, or out.
Save(c) ==
    LET s == State(c)  to == client[c].next  cid == Len(rows) + 1
    IN  /\ At(c, "save")
        /\ rows' = Append(rows, s)
        /\ \/ to = "idle" /\ client' = [client EXCEPT ![c] = Idle]
           \/ to = "loop" /\ client' = [client EXCEPT ![c] = [at |-> "loop", state |-> s]]
           \/ to = "settle" /\ client' = [client EXCEPT ![c] =
                    IF s.status = "running" THEN [at |-> "loop", state |-> s] ELSE Idle]
           \/ /\ to \in {"attempt", "pause"}
              /\ ToSave(c, Attempted(s, client[c].node, ErrorOf(s)), "none", "settle")
           \/ /\ to = "pause"           \* engine option pause_after
              /\ ToSave(c, [Fails(s, "paused") EXCEPT !.waiting = cid],
                        client[c].node, "attempt")
        /\ UNCHANGED <<published, lost, sources>>

InBudget(c) == At(c, "loop") /\ State(c).seq <= State(c).max
Node(c, node) == InBudget(c) /\ State(c).step = node

\* Mutant of OverBudget: the loop is left without a terminal checkpoint.
OverBudgetUnsaved(c) ==
    /\ At(c, "loop") /\ State(c).seq > State(c).max
    /\ client' = [client EXCEPT ![c] = Idle]
    /\ UNCHANGED <<rows, published, lost, sources>>
OverBudget(c) ==
    /\ At(c, "loop") /\ State(c).seq > State(c).max
    /\ ToSave(c, Attempted(Fails(State(c), "failed"), State(c).step, "budget"), "none", "idle")
    /\ UNCHANGED <<rows, published, lost, sources>>

\* The failure an engine was told to inject (fail_at).
InjectedFailure(c) ==
    /\ InBudget(c)
    /\ ToSave(c, Attempted(Fails(State(c), "failed"), State(c).step, "failed"), "none", "idle")
    /\ UNCHANGED <<rows, published, lost, sources>>

\* Any node may fail to read a note, the index or the request it stored.
NodeFails(c) ==
    /\ InBudget(c)
    /\ ToSave(c, Fails(State(c), "failed"), State(c).step, "attempt")
    /\ UNCHANGED <<rows, published, lost, sources>>

\* VaultReader.read_notes succeeds: the indexed notes have the indexed bytes.
Readable == index # Missing /\ index.notes = vault.notes

ResolveSource(c) ==
    /\ Node(c, "resolve_source") /\ Readable
    /\ ToSave(c, [Step(State(c), "running", "retrieve_context") EXCEPT !.src = index],
              "resolve_source", "attempt")
    /\ UNCHANGED <<rows, published, lost, sources>>

RetrieveContext(c) ==
    /\ Node(c, "retrieve_context") /\ Readable
    /\ ToSave(c, Step(State(c), "running", "emit_result"), "retrieve_context", "pause")
    /\ UNCHANGED <<rows, published, lost, sources>>

\* Mutant of Unchanged: the index agrees with the workspace, whichever it is.
UnchangedFresh(s) == index = vault
\* _node_emit_result: the index of the checkpoint, and it is fresh.
Unchanged(s) == index = s.src /\ index = vault

EmitChecked(c) ==
    /\ Node(c, "emit_result") /\ Unchanged(State(c))
    /\ client' = [client EXCEPT ![c].at = "serve"]
    /\ UNCHANGED <<rows, published, lost, sources>>

EmitStale(c) ==             \* a read error is reported as a stale source too
    /\ Node(c, "emit_result")
    /\ ToSave(c, Fails(State(c), "stale"), "emit_result", "attempt")
    /\ UNCHANGED <<rows, published, lost, sources>>

\* AskService.run / ConnectService.run read index and notes again, then write
\* result.json and the report; either write may fail.
Serve(c) ==
    /\ At(c, "serve")
    /\ \/ /\ Readable
          /\ published' = [published EXCEPT ![State(c).run] = index]
          /\ ToSave(c, Step(State(c), "completed", "none"), "emit_result", "attempt")
       \/ /\ Readable
          /\ published' = [published EXCEPT ![State(c).run] = index]
          /\ ToSave(c, Fails(State(c), "failed"), "emit_result", "attempt")
       \/ /\ ToSave(c, Fails(State(c), "failed"), "emit_result", "attempt")
          /\ UNCHANGED published
    /\ UNCHANGED <<rows, lost, sources>>

Lose(c) ==
    /\ ~At(c, "idle")
    /\ client' = [client EXCEPT ![c] = Idle]
    /\ lost' = TRUE
    /\ UNCHANGED <<rows, published, sources>>

-----------------------------------------------------------------------------
(* The workspace.                                                          *)

Reading == {client[c].state.run : c \in {d \in Clients : At(d, "serve")}}

Changes ==
    /\ \/ \E w \in Workspaces \ {vault} : vault' = w /\ UNCHANGED index
       \/ index # vault /\ index' = vault /\ UNCHANGED vault
       \/ index # Missing /\ index' = Missing /\ UNCHANGED vault
    /\ raced' = raced \cup Reading
    /\ UNCHANGED <<rows, published, client, lost>>

Init ==
    /\ rows = <<>>
    /\ published = [r \in Runs |-> NotPublished]
    /\ vault \in Workspaces /\ ~vault.added /\ index = vault
    /\ client = [c \in Clients |-> Idle]
    /\ raced = {} /\ lost = FALSE

Proceed(c) ==
    \/ Save(c) \/ OverBudget(c) \/ InjectedFailure(c) \/ NodeFails(c)
    \/ ResolveSource(c) \/ RetrieveContext(c)
    \/ EmitChecked(c) \/ EmitStale(c) \/ Serve(c)

Next ==
    \/ \E c \in Clients :
          \/ Start(c)
          \/ \E response \in {"resume", "reject"} : Resume(c, response)
          \/ \E r \in Runs : Retry(c, r)
          \/ Proceed(c)
          \/ Lose(c)
    \/ Changes

Spec == Init /\ [][Next]_vars

\* A process that is not lost runs on; nobody has to start, answer or retry.
FairSpec == Spec /\ \A c \in Clients : WF_vars(Proceed(c))

-----------------------------------------------------------------------------
(* Properties.                                                             *)

Attempts == [run : Runs, node : Nodes, error : {"none", "failed", "budget"}]
States ==
    {s \in [run : Runs, parent : 0..MaxRuns, status : Settled \cup {"running"},
            step : Nodes \cup {"none"}, seq : Nat, max : Budgets, src : Workspaces,
            attempts : Seq(Attempts), waiting : Nat] :
        s.step = "none" => s.status = "completed"}

\* What is still to be recorded of a node that was executed.
Recording(c) == At(c, "save") /\ client[c].next \in {"attempt", "pause"}
Working(c) ==
    \/ /\ client[c] \in [at : {"loop", "serve"}, state : States]
       /\ State(c).status = "running"
    \/ /\ client[c] \in [at : {"save"}, state : States, node : Nodes \cup {"none"},
                         next : {"idle", "loop", "settle", "attempt", "pause"}]
       /\ Recording(c) => client[c].node \in Nodes
       /\ client[c].next \in {"loop", "pause"} => State(c).status = "running"

\* Type correctness of the checkpoints, the results and the clients.
TypeOK ==
    /\ rows \in Seq(States)
    /\ published \in [Runs -> Workspaces \cup {NotPublished}]
    /\ vault \in Workspaces /\ index \in Workspaces \cup {Missing}
    /\ DOMAIN client = Clients /\ \A c \in Clients : client[c] = Idle \/ Working(c)
    /\ raced \subseteq Runs /\ lost \in BOOLEAN

\* A completed run has a result, and it was built from the index its
\* checkpoint names, whatever was edited, rescanned, paused and retried on the
\* way (graph.py: _node_emit_result), except when the sources moved between
\* the last check and the service's own read.
PublishedAsChecked ==
    \A i \in DOMAIN rows : rows[i].status = "completed" =>
        published[rows[i].run] = rows[i].src \/ rows[i].run \in raced

\* Nothing is published past an interrupt unless it was answered "resume":
\* neither a rejection nor a lost process opens a way around it (graph.py:
\* resume and retry).
AnsweredBeforePublished ==
    \A i \in DOMAIN rows : \A r \in Runs :
        rows[i].status = "paused" /\ r >= rows[i].run /\ published[r] # NotPublished =>
            \E j \in DOMAIN rows : rows[j].seq = rows[i].seq + 1
                                   /\ rows[j].status \in {"running", "failed"}

\* The step budget spans the whole thread: retries and resumptions together
\* execute no more nodes, failed ones included, than max_steps (graph.py:
\* _execute).
Executed(s) == Cardinality({a \in DOMAIN s.attempts : s.attempts[a].error # "budget"})
StepBudget == \A i \in DOMAIN rows : Executed(rows[i]) <= rows[i].max

\* A result is written once: no retry writes over what an earlier run wrote
\* (graph.py: "result artifacts from the failed run are never overwritten").
ResultsKept ==
    [][\A r \in Runs : published[r] # NotPublished => published'[r] = published[r]]_vars

\* A run that was started, resumed or retried comes to a terminal or paused
\* checkpoint, unless its process is lost.
Settles ==
    (Saved /\ Newest.status = "running") ~> (lost \/ (Saved /\ Newest.status \in Settled))

\* Every copy of the state has executed fewer nodes than it has boundaries,
\* the one it is recording included.
Within(s, recording) ==
    /\ Executed(s) + recording <= s.max
    /\ Executed(s) + recording < s.seq
WithinBudget ==
    /\ \A i \in DOMAIN rows : Within(rows[i], 0)
    /\ \A c \in Clients : ~At(c, "idle") =>
          /\ Within(State(c), IF Recording(c) THEN 1 ELSE 0)
          /\ At(c, "serve") => State(c).seq <= State(c).max

\* One command at a time, as the UI calls the engine.
OneCommand == \A c, d \in Clients : c = d

\* How the state that is saved next may follow the newest checkpoint.
Follows(s, last) ==
    \/ s.seq = last.seq /\ s.run = last.run /\ s.status = last.status /\ s.src = last.src
    \/ /\ s.seq = last.seq + 1 /\ s.run = last.run
       /\ \/ last.status = "running"
          \/ last.status = "paused" /\ s.status \in {"running", "failed", "stale", "rejected"}
    \/ /\ s.seq = last.seq + 1 /\ s.run > last.run
       /\ last.status = "failed" /\ s.status = "running"

\* What one command has in hand continues the newest checkpoint, and the run
\* it may still publish is not published yet.
InHand(c) ==
    LET s == State(c)  last == rows[Len(rows)]
    IN  /\ At(c, "loop") \/ At(c, "serve") =>
              Saved /\ s = last
        /\ At(c, "serve") => index = s.src \/ s.run \in raced
        /\ At(c, "save") => IF Saved THEN Follows(s, last) ELSE s.run = 1 /\ s.status = "running"
        /\ s.status \in {"running", "paused"} => published[s.run] = NotPublished
        /\ s.status = "completed" => published[s.run] = s.src \/ s.run \in raced

\* The newest checkpoint is the last one; nothing follows a completed run, only
\* a retry under a later number follows a failed one, and a paused one waits
\* for its answer.
Linear ==
    \A i \in DOMAIN rows :
        LET last == rows[Len(rows)] IN
        /\ rows[i].seq <= last.seq /\ rows[i].run <= last.run
        /\ rows[i].status = "completed" => last.status = "completed"
        /\ rows[i].status = "paused" =>
              \/ last.status = "paused" /\ last.seq = rows[i].seq
              \/ last.status \in {"stale", "rejected"}
              \/ \E j \in DOMAIN rows : rows[j].seq = rows[i].seq + 1
                                        /\ rows[j].status \in {"running", "failed"}

PublishedByRows ==
    /\ \A r \in Runs : published[r] # NotPublished => Saved /\ r <= rows[Len(rows)].run
    /\ Saved /\ rows[Len(rows)].status = "paused" =>
          published[rows[Len(rows)].run] = NotPublished

\* The inductive invariant.
IInv ==
    /\ TypeOK /\ WithinBudget
    /\ OneCommand =>
          /\ \A c \in Clients : ~At(c, "idle") => InHand(c)
          /\ Linear /\ PublishedByRows /\ PublishedAsChecked /\ AnsweredBeforePublished
=============================================================================
