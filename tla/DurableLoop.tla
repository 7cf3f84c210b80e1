----------------------------- MODULE DurableLoop -----------------------------
(***************************************************************************)
(* One durable agent run: RuntimeEngine.start_multi_agent and              *)
(* resume_multi_agent (runtime/graph.py) driving SingleAgentModelLoop      *)
(* (runtime/model_loop.py), which calls a model provider and, through      *)
(* ToolRuntime (tools/runtime.py), tools, and appends a snapshot of its    *)
(* state to the checkpoint store before and after every external effect.   *)
(*                                                                         *)
(* A process may stop between any two steps; a later process reads the     *)
(* newest checkpoint and continues, or refuses to.  A save may raise; what *)
(* it raised for may or may not have reached the disk.                     *)
(*                                                                         *)
(* Three protocols drive the same lifecycle: an adapter with complete()    *)
(* that answers with V2 proposals, one that answers with single V1         *)
(* actions, and a legacy adapter with decide(), which answers with V1      *)
(* actions too.                                                            *)
(***************************************************************************)
EXTENDS Naturals, FiniteSets

CONSTANTS
    Protocol,       \* "proposal", "action" or "decide"
    Fallback,       \* workflow "ask" or "connect": a run may complete without
                    \* the retrieval loop's answer (Coordinator.run)
    MaxRequests,    \* policy.max_provider_requests
    MaxSteps,       \* policy.max_steps, also the retrieval task's max_steps
    MaxCalls,       \* ToolCallPolicy.max_calls
    MaxOrd,         \* longest tool-call list of one proposal
    ToolOutcomes,   \* what a tool that ran may produce
    PreOutcomes,    \* what a call that is never started may produce
    Faults,         \* which faults the environment may inject
    MaxFaults,      \* bound: faults injected in one behaviour
    MaxCrashes      \* bound: process deaths in one behaviour

\* ok: progress; empty: a search without new evidence; fail: the executor
\* raised; fatal: an error recovery_policy.py terminates on; invalid: the
\* arguments were rejected.
ASSUME LimitsAssumption ==
    /\ Protocol \in {"proposal", "action", "decide"}
    /\ Fallback \in BOOLEAN
    /\ MaxRequests \in Nat \ {0}
    /\ MaxSteps \in Nat \ {0}
    /\ MaxCalls \in Nat
    /\ MaxOrd \in Nat \ {0}
    /\ Protocol # "proposal" => MaxOrd = 1
    /\ MaxFaults \in Nat
    /\ MaxCrashes \in Nat

ASSUME OutcomesAssumption ==
    /\ ToolOutcomes \subseteq {"ok", "empty", "fail", "fatal", "invalid"}
    /\ PreOutcomes \subseteq {"fatal", "invalid"}
    /\ Faults \subseteq {"lost", "ambiguous", "trace", "artifact", "adapter"}

VARIABLES
    db,        \* the newest checkpoint of the thread
    pc,        \* where the process is; "off" when there is none
    mem,       \* the loop's working state (current_state and its lists)
    cursor,    \* state_cursor: the last snapshot whose save returned
    left,      \* model steps this process may still take
    fresh,     \* started by start_multi_agent rather than resumed
    resp,      \* the provider's response in hand
    out,       \* the tool result in hand
    invoked,   \* how often the provider was called for a turn
    ran,       \* how often the executor ran for a call
    faults,    \* faults injected so far
    crashes    \* process deaths so far

vars == <<db, pc, mem, cursor, left, fresh, resp, out, invoked, ran, faults, crashes>>

-----------------------------------------------------------------------------
Turns == 1..MaxRequests
Ordinals == 1..MaxOrd
Calls == Turns \X Ordinals

TurnStatus == {"none", "request_durable", "request_sent", "response_obtained",
               "response_durable", "tool_results_partial",
               "tool_results_durable", "completed", "failed"}
Kinds == {"none", "final", "error", "tools"}
Responses == [kind : Kinds, n : 0..MaxOrd]
Results == ToolOutcomes \cup PreOutcomes \cup {"budget", "repeat"}
Settled == ToolOutcomes
LedgerStatus == {"none", "pending"} \cup Settled

\* A RuntimeState as the checkpoint store keeps it: the turns used so far,
\* their model_executions records, and the tool ledger.
Snapshots ==
    [seq   : Nat,
     run   : {"none", "running", "completed", "failed"},
     step  : {"none", "multi_agent", "model_loop"},
     term  : {"running", "completed", "failed", "budget_exhausted"},
     turns : 0..MaxRequests,
     st    : [Turns -> TurnStatus],
     kind  : [Turns -> Kinds],
     n     : [Turns -> 0..MaxOrd],
     refs  : [Turns -> 0..MaxOrd],
     res   : [Calls -> Results \cup {"none"}],
     led   : [Calls -> LedgerStatus]]

Blank(seq, run) ==
    [seq   |-> seq,
     run   |-> run,
     step  |-> IF run = "none" THEN "none" ELSE "multi_agent",
     term  |-> "running",
     turns |-> 0,
     st    |-> [t \in Turns |-> "none"],
     kind  |-> [t \in Turns |-> "none"],
     n     |-> [t \in Turns |-> 0],
     refs  |-> [t \in Turns |-> 0],
     res   |-> [c \in Calls |-> "none"],
     led   |-> [c \in Calls |-> "none"]]

NoResponse == [kind |-> "none", n |-> 0]

-----------------------------------------------------------------------------
(* Progress and recovery policy: pure functions of a snapshot.             *)

Before(c, d) == c[1] < d[1] \/ (c[1] = d[1] /\ c[2] < d[2])

\* What assess_progress sees of a call: its recorded result, or a ledger
\* outcome not yet recorded.  A reused search is not an event.
Event(s, c) ==
    IF s.res[c] # "none" THEN s.res[c]
    ELSE IF s.led[c] \in Settled THEN s.led[c] ELSE "none"

Events(s, t) == {c \in Calls : c[1] < t /\ Event(s, c) \notin {"none", "repeat"}}

LatestIs(s, E, kind) ==
    \E c \in E : Event(s, c) = kind /\ \A d \in E : ~Before(c, d)

\* Two events of one kind with none of the breaking kinds after the first.
Twice(s, E, kind, breaking) ==
    \E c, d \in E :
        /\ Before(c, d)
        /\ Event(s, c) = kind
        /\ Event(s, d) = kind
        /\ \A e \in E : Before(c, e) => Event(s, e) \notin breaking

\* decide_recovery(...).action = "TERMINATE"
Terminates(s) ==
    LET E == Events(s, MaxRequests + 1) IN
    \/ LatestIs(s, E, "fatal")
    \/ Twice(s, E, "fail", {"ok", "budget", "fatal"})
    \/ Twice(s, E, "invalid", {"ok", "empty", "fail", "budget", "fatal"})

\* decide_recovery(...).action = "STOP_SEARCH_STRATEGY" for a call of turn t
SearchStalled(s, t) ==
    LET E == Events(s, t) IN
    /\ LatestIs(s, E, "empty")
    /\ Twice(s, E, "empty", {"ok", "invalid", "budget", "fatal"})

Pending(s) == {c \in Calls : s.led[c] = "pending"}
Used(s) == {c \in Calls : s.led[c] # "none"}
Spent(s) == {t \in Turns : s.st[t] \notin {"none", "request_durable"}}
\* Mutant of Eligible: off by one.
EligibleAtLimit(s) == Cardinality(Used(s)) <= MaxCalls

Eligible(s) == Cardinality(Used(s)) < MaxCalls
NextCall(s) == <<s.turns, s.refs[s.turns] + 1>>
HasResult(s, c) == Event(s, c) # "none"

Least(a, b) == IF a < b THEN a ELSE b

-----------------------------------------------------------------------------
(* Saving.  Readers take the row with the greatest step_seq and, among     *)
(* equals, the one written last.                                           *)

Newest(row) == IF row.seq >= db.seq THEN row ELSE db

Fault(kind) ==
    /\ kind \in Faults
    /\ faults < MaxFaults
    /\ faults' = faults + 1

\* The save returned.
Acknowledged(row) ==
    /\ db' = Newest(row)
    /\ UNCHANGED faults

\* The save raised: before the commit took effect, or after.
Raised(row) ==
    \/ Fault("lost") /\ UNCHANGED db
    \/ Fault("ambiguous") /\ db' = Newest(row)

\* RuntimeState projected from the working state (_project_state).
Projected(m) == [m EXCEPT !.seq = @ + 1, !.step = "model_loop"]

\* publish: current_state advances before the save.
Publish(m, next, onError) ==
    /\ mem' = Projected(m)
    /\ \/ /\ Acknowledged(Projected(m))
          /\ cursor' = Projected(m)
          /\ pc' = next
       \/ /\ Raised(Projected(m))
          /\ pc' = onError
          /\ UNCHANGED cursor

\* Mutant of Commit: state_cursor is not advanced.
CommitStaleCursor(m, next) ==
    \/ /\ Acknowledged(Projected(m))
       /\ mem' = Projected(m)
       /\ pc' = next
       /\ UNCHANGED cursor
    \/ /\ Raised(Projected(m))
       /\ mem' = m
       /\ pc' = "aborting"
       /\ UNCHANGED cursor

\* commit_provider_checkpoint: current_state advances only after the save; an
\* error ends the loop without another save (blocked_result).
Commit(m, next) ==
    \/ /\ Acknowledged(Projected(m))
       /\ mem' = Projected(m)
       /\ cursor' = Projected(m)
       /\ pc' = next
    \/ /\ Raised(Projected(m))
       /\ mem' = m
       /\ pc' = "aborting"
       /\ UNCHANGED cursor

\* publish_model_boundary of the model turn, and of the tool results.
TurnBoundary(m, next) ==
    IF Protocol = "decide" THEN Publish(m, next, "failing") ELSE Commit(m, next)
ToolBoundary(m, next) ==
    IF Protocol = "proposal" THEN Commit(m, next) ELSE Publish(m, next, "failing")

\* No process is left: its volatile state is gone.
Gone ==
    /\ pc' = "off"
    /\ mem' = db'
    /\ cursor' = db'
    /\ left' = 0
    /\ fresh' = FALSE
    /\ resp' = NoResponse
    /\ out' = "none"

Effects == <<invoked, ran>>
Held == <<resp, out>>
Process == <<left, fresh, crashes>>

-----------------------------------------------------------------------------
Init ==
    /\ db = Blank(0, "none")
    /\ pc = "off"
    /\ mem = db
    /\ cursor = db
    /\ left = 0
    /\ fresh = FALSE
    /\ resp = NoResponse
    /\ out = "none"
    /\ invoked = [t \in Turns |-> 0]
    /\ ran = [c \in Calls |-> 0]
    /\ faults = 0
    /\ crashes = 0

\* start_multi_agent up to the model loop: the first checkpoint, then the
\* request budget of a fresh run.
Start ==
    /\ pc = "off"
    /\ db.run = "none"
    /\ mem' = Blank(1, "running")
    /\ cursor' = Blank(1, "running")
    /\ fresh' = TRUE
    /\ left' = Least(MaxSteps, MaxRequests)
    /\ \/ Acknowledged(Blank(1, "running")) /\ pc' = "top"
       \/ Raised(Blank(1, "running")) /\ pc' = "rescuing"
    /\ UNCHANGED <<Effects, Held, crashes>>

\* decide_model_resume on a run that has not terminated.
Decision(s) ==
    LET t == s.turns
        call == s.led[NextCall(s)]
    IN
    CASE s.st[t] = "request_durable" -> "safe_to_invoke_model"
      [] s.st[t] \in {"request_sent", "response_obtained"} -> "requires_verification"
      [] s.st[t] = "completed" -> "already_terminal"
      [] s.st[t] = "response_durable" /\ s.kind[t] # "tools" -> "reuse_durable_model_response"
      [] s.kind[t] = "tools" /\ s.refs[t] = s.n[t] -> "resume_from_tool_results"
      [] s.kind[t] = "tools" /\ s.refs[t] < s.n[t] /\ call = "pending" -> "requires_verification"
      [] s.kind[t] = "tools" /\ s.refs[t] < s.n[t] /\ call # "pending" ->
            IF Protocol = "proposal" THEN "resume_durable_proposal"
            ELSE IF call = "none" THEN "reuse_durable_model_response"
            ELSE "resume_from_tool_results"
      [] OTHER -> "requires_manual_decision"

\* resume_multi_agent's preconditions and the decisions it goes on with.
Resumable(s) ==
    /\ s.run = "running"
    /\ s.step = "model_loop"
    /\ s.term = "running"
    /\ s.turns > 0
    /\ Decision(s) \in {"safe_to_invoke_model", "resume_from_tool_results",
                        "resume_durable_proposal", "reuse_durable_model_response"}

\* RetrievalAgent._has_durable_final
DurableFinal(s) ==
    s.st[s.turns] = "response_durable" /\ s.kind[s.turns] = "final"

\* Model steps a resumed process may take: every record counts against the
\* request budget, every record past request_durable against the step budget.
Slots(s) ==
    LET spent == Cardinality(Spent(s))
        steps == IF MaxSteps > spent THEN MaxSteps - spent ELSE 0
    IN  Least(MaxRequests - s.turns, steps)

\* A proposal's complete results are bound again before the recovery policy
\* is asked; an action's result is only loaded as the next observation.
RebindsResults(s) ==
    Protocol = "proposal" /\ Decision(s) = "resume_from_tool_results"

\* Mutant of StopsAtOnce: complete results are not put to the policy.
StopsUnlessComplete(s) == Terminates(s) /\ Decision(s) # "resume_from_tool_results"

\* The recovery policy ends a resumed loop before it takes a step.
StopsAtOnce(s) == Terminates(s) /\ ~RebindsResults(s)

\* resume_multi_agent: rejected attempts change nothing and are not steps.
Resume ==
    /\ pc = "off"
    /\ Resumable(db)
    /\ mem' = db
    /\ cursor' = db
    /\ fresh' = FALSE
    /\ \/ /\ Slots(db) = 0
          /\ ~DurableFinal(db)
          /\ left' = 0
          /\ pc' = "aborting"
       \/ /\ Slots(db) > 0 \/ DurableFinal(db)
          /\ LET slots == IF Slots(db) > 0 THEN Slots(db) ELSE 1 IN
             IF StopsAtOnce(db)
             THEN left' = slots /\ pc' = "failing"
             ELSE CASE Decision(db) = "safe_to_invoke_model" ->
                         left' = slots - 1 /\ pc' = "sending"
                    [] Decision(db) = "reuse_durable_model_response" ->
                         left' = slots /\ pc' = "dispatch"
                    [] Decision(db) = "resume_durable_proposal" \/ RebindsResults(db) ->
                         left' = slots /\ pc' = "binding"
                    [] OTHER ->
                         left' = slots /\ pc' = "top"
    /\ UNCHANGED <<db, Effects, Held, faults, crashes>>

-----------------------------------------------------------------------------
(* The model turn: request_durable, request_sent, invocation,              *)
(* response_obtained, response_durable.                                    *)

\* Mutant of WriteRequest: the step budget is not checked.
WriteRequestUnbounded ==
    /\ pc = "top"
    /\ left' = left - 1
    /\ LET t == mem.turns + 1
           m == [mem EXCEPT !.turns = t, !.st[t] = "request_durable"]
       IN  TurnBoundary(m, "sending")
    /\ UNCHANGED <<Effects, Held, fresh, crashes>>

\* A new turn: the request artifact, then the request_durable checkpoint.
WriteRequest ==
    /\ pc = "top"
    /\ left > 0
    /\ left' = left - 1
    /\ LET t == mem.turns + 1
           m == [mem EXCEPT !.turns = t, !.st[t] = "request_durable"]
       IN  TurnBoundary(m, "sending")
    /\ UNCHANGED <<Effects, Held, fresh, crashes>>

\* Mutant of ExhaustSteps: running out of steps counts as an answer.
ExhaustAnswered ==
    /\ pc = "top"
    /\ left = 0
    /\ Publish([mem EXCEPT !.term = "budget_exhausted"], "completing", "failing")
    /\ UNCHANGED <<Effects, Held, Process>>

\* The loop is out of steps.
ExhaustSteps ==
    /\ pc = "top"
    /\ left = 0
    /\ Publish([mem EXCEPT !.term = "budget_exhausted"], "aborting", "failing")
    /\ UNCHANGED <<Effects, Held, Process>>

\* An artifact could not be written: the loop fails safely.
ArtifactFails ==
    /\ pc \in {"top", "storing", "keeping"}
    /\ pc = "top" => left > 0
    /\ Fault("artifact")
    /\ pc' = "failing"
    /\ UNCHANGED <<db, mem, cursor, Effects, Held, Process>>

\* Mutant of SendRequest: the request_sent checkpoint is left out.
SendUnrecorded ==
    /\ pc = "sending"
    /\ mem' = Projected([mem EXCEPT !.st[mem.turns] = "request_sent"])
    /\ pc' = "invoking"
    /\ UNCHANGED <<db, cursor, faults, Effects, Held, Process>>

SendRequest ==
    /\ pc = "sending"
    /\ TurnBoundary([mem EXCEPT !.st[mem.turns] = "request_sent"], "invoking")
    /\ UNCHANGED <<Effects, Held, Process>>

\* model.complete(): the provider is called and answers.
Invoke ==
    /\ pc = "invoking"
    /\ invoked' = [invoked EXCEPT ![mem.turns] = @ + 1]
    /\ \/ resp' \in [kind : {"final", "error"}, n : {0}]
       \/ resp' \in [kind : {"tools"}, n : Ordinals]
    /\ pc' = "obtained"
    /\ UNCHANGED <<db, mem, cursor, ran, out, Process, faults>>

\* model.complete() raises, or its answer does not bind to the turn.
InvokeFails ==
    /\ pc = "invoking"
    /\ Fault("adapter")
    /\ invoked' = [invoked EXCEPT ![mem.turns] = @ + 1]
    /\ mem' = [mem EXCEPT !.st[mem.turns] = "failed"]
    /\ pc' = "failing"
    /\ UNCHANGED <<db, cursor, ran, Held, Process>>

ObtainResponse ==
    /\ pc = "obtained"
    /\ TurnBoundary([mem EXCEPT !.st[mem.turns] = "response_obtained"], "storing")
    /\ UNCHANGED <<Effects, Held, Process>>

\* The response artifact, then the response_durable checkpoint.
StoreResponse ==
    /\ pc = "storing"
    /\ LET t == mem.turns
           m == [mem EXCEPT !.st[t] = "response_durable",
                            !.kind[t] = resp.kind,
                            !.n[t] = resp.n]
       IN  TurnBoundary(m, "dispatch")
    /\ resp' = NoResponse
    /\ UNCHANGED <<Effects, out, Process>>

\* A durable final answer ends the loop (terminal_proposal).  If that save
\* raises, the loop reports failure.
AcceptFinal ==
    /\ pc = "dispatch"
    /\ mem.kind[mem.turns] = "final"
    /\ Publish([mem EXCEPT !.st[mem.turns] = "completed", !.term = "completed"],
               "completing", "failing")
    /\ UNCHANGED <<Effects, Held, Process>>

\* A durable provider error ends the loop.
AcceptError ==
    /\ pc = "dispatch"
    /\ mem.kind[mem.turns] = "error"
    /\ mem' = [mem EXCEPT !.st[mem.turns] = "failed"]
    /\ pc' = "failing"
    /\ UNCHANGED <<db, cursor, Effects, Held, Process, faults>>

\* A durable tool proposal is executed (execute_tool_proposal).
AcceptTools ==
    /\ pc = "dispatch"
    /\ mem.kind[mem.turns] = "tools"
    /\ pc' = "binding"
    /\ UNCHANGED <<db, mem, cursor, Effects, Held, Process, faults>>

-----------------------------------------------------------------------------
(* execute_tool_proposal and ToolRuntime.execute: the calls of a proposal, *)
(* one by one, from the first without a durable result.                    *)

BindProposal ==
    /\ pc = "binding"
    /\ ToolBoundary(mem, "calls")
    /\ UNCHANGED <<Effects, Held, Process>>

\* Mutant of ProposalDone: rebound results are not put to the recovery policy.
ProposalDoneUnasked ==
    /\ pc = "calls"
    /\ mem.refs[mem.turns] = mem.n[mem.turns]
    /\ pc' = "top"
    /\ UNCHANGED <<db, mem, cursor, Effects, Held, Process, faults>>

ProposalDone ==
    /\ pc = "calls"
    /\ mem.refs[mem.turns] = mem.n[mem.turns]
    /\ pc' = IF Terminates(mem) THEN "failing" ELSE "top"
    /\ UNCHANGED <<db, mem, cursor, Effects, Held, Process, faults>>

AtCall(c) ==
    /\ pc = "calls"
    /\ mem.refs[mem.turns] < mem.n[mem.turns]
    /\ c = NextCall(mem)

\* tool_progress_stalled: the arguments decide, and are not modelled.
StopStalled(c) ==
    /\ IF Protocol = "proposal" THEN AtCall(c) ELSE pc = "binding" /\ c = NextCall(mem)
    /\ SearchStalled(mem, c[1])
    /\ Eligible(mem)
    /\ pc' = "failing"
    /\ UNCHANGED <<db, mem, cursor, Effects, Held, Process, faults>>

\* A terminal ledger record: its outcome is the result, nothing runs.
ReuseLedger(c) ==
    /\ AtCall(c)
    /\ mem.led[c] \in Settled
    /\ out' = mem.led[c]
    /\ pc' = "keeping"
    /\ UNCHANGED <<db, mem, cursor, Effects, resp, Process, faults>>

\* reusable_search_observation: an equal search of an earlier turn.
ReuseSearch(c) ==
    /\ AtCall(c)
    /\ mem.led[c] = "none"
    /\ Eligible(mem)
    /\ \E d \in Calls : d[1] < c[1] /\ mem.led[d] \in {"ok", "empty"}
    /\ out' = "repeat"
    /\ pc' = "keeping"
    /\ UNCHANGED <<db, mem, cursor, Effects, resp, Process, faults>>

\* Unknown tool, bad arguments, no permission, or no budget: an error
\* result, and no ledger record.
RefuseCall(c) ==
    /\ AtCall(c)
    /\ mem.led[c] = "none"
    /\ \/ out' \in PreOutcomes
       \/ ~Eligible(mem) /\ out' = "budget"
    /\ pc' = "keeping"
    /\ UNCHANGED <<db, mem, cursor, Effects, resp, Process, faults>>

\* Mutant of BeginCall: the executor does not wait for the checkpoint.
BeginUnrecorded(c) ==
    /\ AtCall(c)
    /\ mem.led[c] = "none"
    /\ Eligible(mem)
    /\ mem' = Projected([mem EXCEPT !.led[c] = "pending"])
    /\ pc' = "running"
    /\ UNCHANGED <<db, cursor, faults, Effects, Held, Process>>

\* record_pending and the pending checkpoint; the executor waits for it.
BeginCall(c) ==
    /\ AtCall(c)
    /\ mem.led[c] = "none"
    /\ Eligible(mem)
    /\ Publish([mem EXCEPT !.led[c] = "pending"], "running", "uncertain")
    /\ UNCHANGED <<Effects, Held, Process>>

\* The executor runs.
RunExecutor ==
    /\ pc = "running"
    /\ ran' = [ran EXCEPT ![NextCall(mem)] = @ + 1]
    /\ out' \in ToolOutcomes
    /\ pc' = "settling"
    /\ UNCHANGED <<db, mem, cursor, invoked, resp, Process, faults>>

\* record_completed or record_failed, and the terminal checkpoint.
SettleCall ==
    /\ pc = "settling"
    /\ Publish([mem EXCEPT !.led[NextCall(mem)] = out], "keeping", "uncertain")
    /\ UNCHANGED <<Effects, Held, Process>>

\* A pending or terminal checkpoint raised: what is durable is uncertain.  A
\* proposal stops without another save, an action fails the loop.
StopUncertain ==
    /\ pc = "uncertain"
    /\ mem' = [mem EXCEPT !.st[mem.turns] = "failed"]
    /\ pc' = IF Protocol = "proposal" THEN "aborting" ELSE "failing"
    /\ UNCHANGED <<db, cursor, Effects, Held, Process, faults>>

\* Mutant of KeepResult: the reference is kept, the observation is not.
KeepReferenceOnly ==
    /\ pc = "keeping"
    /\ LET t == mem.turns
           done == mem.refs[t] + 1 = mem.n[t]
           m == [mem EXCEPT !.refs[t] = @ + 1,
                            !.st[t] = IF done THEN "tool_results_durable"
                                              ELSE "tool_results_partial"]
       IN  ToolBoundary(m, IF Terminates(m) THEN "failing" ELSE "calls")
    /\ out' = "none"
    /\ UNCHANGED <<Effects, resp, Process>>

\* The result artifact, its reference in the record, and the checkpoint.
KeepResult ==
    /\ pc = "keeping"
    /\ LET t == mem.turns
           done == mem.refs[t] + 1 = mem.n[t]
           m == [mem EXCEPT !.res[NextCall(mem)] = out,
                            !.refs[t] = @ + 1,
                            !.st[t] = IF done THEN "tool_results_durable"
                                              ELSE "tool_results_partial"]
       IN  ToolBoundary(m, IF Terminates(m) THEN "failing" ELSE "calls")
    /\ out' = "none"
    /\ UNCHANGED <<Effects, resp, Process>>

-----------------------------------------------------------------------------
(* The end of the loop and of the process.                                 *)

\* failed_result: one more save, whose exception is swallowed.
FailLoop ==
    /\ pc = "failing"
    /\ Publish([mem EXCEPT !.term = "failed"], "aborting", "aborting")
    /\ UNCHANGED <<Effects, Held, Process>>

\* Mutant of Closed: the verdict is written without the loop's records.
ClosedWithoutRecords(verdict) ==
    [Blank(cursor.seq + 1, verdict) EXCEPT !.term = verdict]

Closed(verdict) ==
    [cursor EXCEPT !.seq = @ + 1,
                   !.run = verdict,
                   !.step = IF verdict = "completed" THEN "none" ELSE "multi_agent",
                   !.term = verdict]

\* _finish_multi_agent saves the verdict over the last acknowledged
\* snapshot.  If the save raises, start_multi_agent rescues the run and
\* resume_multi_agent lets the exception out.
Finish(verdict) ==
    \/ /\ Acknowledged(Closed(verdict))
       /\ pc' = "tracing"
       /\ UNCHANGED <<mem, cursor, Held, left, fresh>>
    \/ /\ Raised(Closed(verdict))
       /\ fresh
       /\ pc' = "rescuing"
       /\ UNCHANGED <<mem, cursor, Held, left, fresh>>
    \/ /\ Raised(Closed(verdict))
       /\ ~fresh
       /\ Gone

\* The loop returned a final answer; the reviewer may still reject it.
FinishAnswered ==
    /\ pc = "completing"
    /\ Finish("completed") \/ Finish("failed")
    /\ UNCHANGED <<Effects, crashes>>

\* Mutant of FinishFailed: the verdict is not saved.
FinishUnsaved ==
    /\ pc = "aborting"
    /\ UNCHANGED <<db, Effects, faults, crashes>>
    /\ Gone

FinishFailed ==
    /\ pc = "aborting"
    /\ Finish("failed") \/ (Fallback /\ Finish("completed"))
    /\ UNCHANGED <<Effects, crashes>>

\* The trace events and the manifest that follow the last save.
Trace ==
    /\ pc = "tracing"
    /\ UNCHANGED <<db, Effects, faults, crashes>>
    /\ Gone

\* The trace sink raises: a fresh run falls into the handler below.
TraceFails ==
    /\ pc = "tracing"
    /\ Fault("trace")
    /\ UNCHANGED <<db, Effects, crashes>>
    /\ \/ fresh /\ pc' = "rescuing" /\ UNCHANGED <<mem, cursor, Held, left, fresh>>
       \/ ~fresh /\ Gone

\* start_multi_agent's exception handler saves a failed state built from the
\* cursor, whatever the store holds by now.
Rescue ==
    /\ pc = "rescuing"
    /\ \/ Acknowledged(Closed("failed"))
       \/ Raised(Closed("failed"))
    /\ Gone
    /\ UNCHANGED <<Effects, crashes>>

Crash ==
    /\ pc # "off"
    /\ crashes < MaxCrashes
    /\ crashes' = crashes + 1
    /\ UNCHANGED <<db, Effects, faults>>
    /\ Gone

\* A call whose ledger record is pending is never reached: such a run is not
\* resumed, and a process that leaves one pending goes no further.
CallStep ==
    \E c \in Calls :
        \/ StopStalled(c) \/ ReuseLedger(c)
        \/ ReuseSearch(c) \/ RefuseCall(c) \/ BeginCall(c)

Step ==
    \/ WriteRequest \/ ExhaustSteps \/ ArtifactFails
    \/ SendRequest \/ Invoke \/ InvokeFails
    \/ ObtainResponse \/ StoreResponse
    \/ AcceptFinal \/ AcceptError \/ AcceptTools
    \/ BindProposal \/ ProposalDone \/ CallStep
    \/ RunExecutor \/ SettleCall \/ StopUncertain \/ KeepResult
    \/ FailLoop \/ FinishAnswered \/ FinishFailed
    \/ Trace \/ TraceFails \/ Rescue

Next == Start \/ Resume \/ Step \/ Crash

Spec == Init /\ [][Next]_vars

\* A process that runs takes its next step; a durable run that may be
\* resumed is.
FairSpec == Spec /\ WF_vars(Step) /\ WF_vars(Resume)

-----------------------------------------------------------------------------
(* Properties.                                                             *)

PC == {"off", "top", "sending", "invoking", "obtained", "storing", "dispatch",
       "binding", "calls", "running", "settling", "uncertain", "keeping",
       "failing", "completing", "aborting", "tracing", "rescuing"}

TypeOK ==
    /\ db \in Snapshots
    /\ mem \in Snapshots
    /\ cursor \in Snapshots
    /\ pc \in PC
    /\ left \in 0..MaxRequests
    /\ fresh \in BOOLEAN
    /\ resp \in Responses
    /\ out \in Results \cup {"none"}
    /\ invoked \in [Turns -> Nat]
    /\ ran \in [Calls -> Nat]
    /\ faults \in 0..MaxFaults
    /\ crashes \in 0..MaxCrashes

\* No turn's request reaches the provider twice, whatever crashes, failed
\* saves and resumptions come between (decide_model_resume refuses
\* request_sent and response_obtained).
ProviderAtMostOnce == \A t \in Turns : invoked[t] <= 1

\* No tool call's executor runs twice: a pending record stops a resumed
\* loop and a terminal one is reused.
ExecutorAtMostOnce == \A c \in Calls : ran[c] <= 1

\* Every effect was announced: the newest checkpoint records that the
\* request was sent, and has a ledger record for the call, even after the
\* engine has written its own snapshot over the loop's.
Announced(s) ==
    /\ \A t \in Turns : invoked[t] > 0 => s.st[t] \notin {"none", "request_durable"}
    /\ \A c \in Calls : ran[c] > 0 => s.led[c] # "none"
EffectsAnnounced == Announced(db)

\* The budgets of the run bound its effects over all its processes together.
BudgetsHold ==
    /\ Cardinality({t \in Turns : invoked[t] > 0}) <= Least(MaxSteps, MaxRequests)
    /\ Cardinality({c \in Calls : ran[c] > 0}) <= MaxCalls

\* A later effect rests on durable earlier results: a call runs only when
\* the results of the calls before it are in the newest checkpoint, a turn
\* is sent only when the previous turn's results all are.
Answered(s, t) ==
    s.kind[t] = "tools" /\ \A o \in 1..s.n[t] : HasResult(s, <<t, o>>)
ResultsBeforeProgress ==
    /\ \A c \in Calls : ran[c] > 0 => \A o \in 1..(c[2] - 1) : HasResult(db, <<c[1], o>>)
    /\ \A t \in Turns : t > 1 /\ invoked[t] > 0 => Answered(db, t - 1)

\* A completed run rests on a final answer that was requested once, on
\* complete proposals before it, on no tool call of unknown outcome, and on
\* results that agree with the ledger.
CompletedIsSettled ==
    db.run = "completed" =>
        /\ db.turns > 0
        /\ db.kind[db.turns] = "final"
        /\ invoked[db.turns] = 1
        /\ \A t \in 1..(db.turns - 1) : Answered(db, t)
        /\ Pending(db) = {}
        /\ \A c \in Calls :
              db.led[c] # "none" /\ db.res[c] # "none" => db.res[c] = db.led[c]

\* What an acknowledged checkpoint has recorded of an effect's outcome, no
\* later checkpoint changes or forgets: responses, ledger outcomes, results.
\* A row whose save raised may be written over by the engine's verdict; until
\* a fault happens nothing in the newest row is.
Kept(s, d) ==
    /\ \A t \in Turns : /\ s.kind[t] # "none" => d.kind[t] = s.kind[t]
                        /\ d.refs[t] >= s.refs[t]
    /\ \A c \in Calls : /\ s.led[c] \in Settled => d.led[c] = s.led[c]
                        /\ s.res[c] # "none" => d.res[c] = s.res[c]
HistoryKept ==
    [][Kept(cursor, db') /\ (faults = 0 => Kept(db, db'))]_db

\* Once the newest checkpoint holds a result the recovery policy terminates
\* on, no process, resumed or not, causes another effect.
NoEffectAfterTermination ==
    [][Terminates(db) => UNCHANGED <<invoked, ran>>]_vars

\* However it crashes and is resumed, the run comes to rest: no process
\* works on it and none could resume it.
Quiescence == <>[](pc = "off" /\ ~Resumable(db))

-----------------------------------------------------------------------------
(* The inductive invariant behind the theorems of DurableLoopProofs.       *)

\* Where a process is in the middle of a turn, at one of its calls, or still
\* able to save its own state.
InTurn == {"sending", "invoking", "obtained", "storing", "dispatch", "binding",
           "calls", "running", "settling", "uncertain", "keeping"}
AtOneCall == {"running", "settling", "keeping"}
Saving == InTurn \cup {"top", "failing"}

\* A snapshot that may be saved, restored or continued from: it announces
\* every effect so far and knows nothing of later turns.
Sound(s) ==
    /\ Announced(s)
    /\ \A t \in Turns : t > s.turns => s.st[t] = "none"

\* The working state, the cursor and the newest checkpoint are one.
InStep == db = mem /\ cursor = mem

\* Each copy of the state announces every effect, and an effect is caused
\* only where all copies agree and announce it for the first time.
IInv ==
    /\ TypeOK
    /\ Sound(db) /\ Sound(mem) /\ Sound(cursor)
    /\ pc # "off" => mem.run = "running" /\ cursor.run = "running"
    /\ db.run = "none" =>
          /\ db.seq = 0
          /\ pc \in {"off", "rescuing"}
          /\ \A t \in Turns : invoked[t] = 0
          /\ \A c \in Calls : ran[c] = 0
    /\ pc \in Saving => mem.seq >= db.seq
    /\ pc \in InTurn => mem.turns \in Turns
    /\ pc \in InTurn \cup {"top"} =>
          \/ left + mem.turns <= MaxRequests
          \/ pc = "dispatch" /\ mem.kind[mem.turns] = "final"
    /\ pc = "sending" => mem.st[mem.turns] = "request_durable"
    /\ pc = "invoking" =>
          InStep /\ mem.st[mem.turns] = "request_sent" /\ invoked[mem.turns] = 0
    /\ pc \in AtOneCall => mem.refs[mem.turns] < mem.n[mem.turns]
    /\ pc = "running" =>
          InStep /\ mem.led[NextCall(mem)] = "pending" /\ ran[NextCall(mem)] = 0
    /\ pc = "settling" => out \in ToolOutcomes
    /\ ProviderAtMostOnce
    /\ ExecutorAtMostOnce

-----------------------------------------------------------------------------
(* The inductive invariant behind the theorems of DurableHistoryProofs.    *)

\* A snapshot the loop may have written.  It knows nothing of later turns and
\* has all answers of earlier ones; a turn has been asked once when it has a
\* response.
TurnsInOrder(s) ==
    /\ \A t \in Turns : t > s.turns => s.kind[t] = "none"
    /\ \A t \in Turns : t < s.turns => Answered(s, t)
    /\ \A t \in Turns :
          /\ s.kind[t] # "none" => invoked[t] = 1
          /\ s.st[t] = "response_durable" => s.kind[t] # "none"
          /\ s.kind[t] # "tools" => s.n[t] = 0
          /\ s.refs[t] <= s.n[t]

\* Results are kept in the order of the calls, the ledger is at most one call
\* ahead of them, where a call may be pending, and agrees with them.
CallsInOrder(s) ==
    \A c \in Calls :
        /\ s.res[c] # "none" <=> c[2] <= s.refs[c[1]]
        /\ s.led[c] # "none" => c[2] <= s.n[c[1]] /\ c[2] <= s.refs[c[1]] + 1
        /\ s.led[c] = "pending" => c = NextCall(s)
        /\ s.led[c] # "none" /\ s.res[c] # "none" => s.res[c] = s.led[c]

WithinBudgets(s) ==
    /\ Cardinality(Used(s)) <= MaxCalls
    /\ Cardinality(Spent(s)) <= MaxSteps

Coherent(s) == TurnsInOrder(s) /\ CallsInOrder(s) /\ WithinBudgets(s)

\* The working state is at least as far as what a save would write over; the
\* cursor lags behind the store only when a save has raised.
Advancing ==
    /\ pc = "off" => cursor = db
    /\ pc \in Saving => Kept(db, mem) /\ Kept(cursor, mem)
    /\ faults = 0 => Kept(db, cursor)

Final(s) == s.turns > 0 /\ s.kind[s.turns] = "final"
VerdictOK ==
    /\ db.run = "none" => db.turns = 0
    /\ db.run = "completed" => Fallback \/ Final(db)

\* What the process has established about the turn and the call it is at.
Asking == {"sending", "invoking", "obtained", "storing"}
Calling == {"binding", "calls", "running", "settling", "uncertain", "keeping"}
Placed ==
    /\ pc = "top" => mem.turns = 0 \/ Answered(mem, mem.turns)
    /\ pc \in Asking => mem.kind[mem.turns] = "none"
    /\ pc \in {"obtained", "storing"} =>
          /\ invoked[mem.turns] = 1
          /\ resp.kind # "none" /\ (resp.kind # "tools" => resp.n = 0)
    /\ pc = "dispatch" => mem.kind[mem.turns] # "none"
    /\ pc \in Calling => mem.kind[mem.turns] = "tools"
    /\ pc = "settling" => mem.led[NextCall(mem)] = "pending"
    /\ pc = "keeping" => out # "none" /\ mem.led[NextCall(mem)] \in {"none", out}
    /\ pc = "completing" => Final(cursor)

\* The steps left, and the one a request about to be sent takes, fit into the
\* step budget beside those taken.
StepsLeft ==
    pc \in InTurn \cup {"top"} =>
        \/ left + Cardinality(Spent(mem)) + (IF pc = "sending" THEN 1 ELSE 0) <= MaxSteps
        \/ pc = "dispatch" /\ mem.kind[mem.turns] = "final"

\* On the way to an effect the recovery policy has been asked and goes on.
Unstopped ==
    /\ pc \in Asking \cup {"top", "dispatch", "running"} => ~Terminates(mem)
    /\ pc \in {"binding", "calls"} =>
          ~Terminates(mem) \/ mem.refs[mem.turns] = mem.n[mem.turns]

HInv ==
    /\ IInv
    /\ Coherent(db) /\ Coherent(mem) /\ Coherent(cursor)
    /\ Advancing /\ VerdictOK /\ Placed /\ StepsLeft /\ Unstopped

-----------------------------------------------------------------------------
(* The abstract promise, with the newest checkpoint as the journal.        *)

\* <<t, 0>> stands for the provider request of turn t, <<t, o>> for a call.
ExternalEffects == Turns \X (0..MaxOrd)
Promised ==
    {a \in ExternalEffects :
        IF a[2] = 0 THEN db.st[a[1]] \notin {"none", "request_durable"}
        ELSE db.led[a] # "none"}
Performed ==
    [a \in ExternalEffects |-> IF a[2] = 0 THEN invoked[a[1]] ELSE ran[a]]

Journal == INSTANCE AtMostOnce WITH
    Actions   <- ExternalEffects,
    promised  <- Promised,
    performed <- Performed

\* The run implements the at-most-once journal: its newest checkpoint
\* promises every request and every tool execution before it happens, never
\* withdraws one that happened, and none happens twice.
JournalSpec == Journal!Spec
=============================================================================
