---------------------------- MODULE SourceIngestion ----------------------------
(***************************************************************************)
(* One source of the product application: its imports, updates, retries and *)
(* removal, and the background ingestion that asks the provider about each   *)
(* segment of a version and captures candidates for review (ui/product.py), *)
(* while the application shuts down, dies and starts again (Shutdown).      *)
(***************************************************************************)
EXTENDS Shutdown, FiniteSets

CONSTANTS
    Versions,     \* contents the source may have
    Length        \* the number of segments of each: 0 when it does not parse

ASSUME IngestionAssumption ==
    /\ Length \in [Versions -> Nat]
    /\ None \notin {"INGESTING", "COMPLETE", "PARTIAL", "FAILED", "DELETED"}
    /\ None \notin {"PENDING", "RUNNING", "ACCEPTED"}

Segments(v) == 1..Length[v]
Busy == "INGESTING"

VARIABLES
    status,     \* ll_source.ingestion_status, or None before the import
    version,    \* current_version_id
    segment,    \* ll_ingestion_segment of each version: state, eligibility, attempts
    review,     \* accepted segments of each version whose candidates were captured
    request,    \* the import request: waiting for the lock, or what it committed
    worker,     \* the ingestion: what it has still to do and has gathered
    broken,     \* history: versions an ingestion of which raised half-way
    abandoned   \* history: the process died, or a request failed, while Busy

durable == <<status, version, segment, review>>
vars == <<shutdownVars, durable, request, worker, broken, abandoned>>

NoSegment == [state |-> None, retryable |-> FALSE, attempts |-> 0]
Idle == [at |-> "idle", next |-> 1, read |-> <<>>, fresh |-> {}, found |-> {}]

-----------------------------------------------------------------------------
(* Requests.  Each holds the store lock from its first read to its return.  *)

Eligible(row) == row.retryable /\ row.attempts < 2

\* set_retrying: segments, when there are any, must have an attempt left.
MayRetry ==
    \/ \A g \in Segments(version) : segment[version][g].state = None
    \/ \E g \in Segments(version) : Eligible(segment[version][g])

\* The source is marked as ingesting; reconciliation and ingestion follow.
Commit(v, reconciles) ==
    /\ status' = Busy /\ version' = v
    /\ request' = IF reconciles THEN "reconcile" ELSE "start"
    /\ lock' = "import"

Import(v) == status = None /\ Commit(v, TRUE)
Update(v) == status \notin {None, Busy, "DELETED"} /\ v # version /\ Commit(v, TRUE)
Retry == status \notin {None, Busy, "DELETED"} /\ MayRetry /\ Commit(version, FALSE)

Change ==
    /\ request = "waiting" /\ "import" \in live /\ lock = None
    /\ \/ \E v \in Versions : Import(v) \/ Update(v)
       \/ Retry
    /\ UNCHANGED <<accepting, live, closer, entered, closing, closed,
                   segment, review, worker, broken, abandoned>>

\* A removal, or a request that is turned down (SOURCE_BUSY and the like).
Answer ==
    /\ request = "waiting" /\ "import" \in live /\ lock = None
    /\ status' \in {status} \cup (IF status \in {None, Busy} THEN {} ELSE {"DELETED"})
    /\ live' = live \ {"import"}
    /\ UNCHANGED <<accepting, lock, closer, entered, closing, closed,
                   version, segment, review, request, worker, broken, abandoned>>

Reconcile ==
    /\ request = "reconcile" /\ request' = "start"
    /\ UNCHANGED <<shutdownVars, durable, worker, broken, abandoned>>

\* The reconciliation with the sources raises: the source stays as committed.
ReconcileFails ==
    /\ request = "reconcile"
    /\ request' = "waiting" /\ lock' = None /\ live' = live \ {"import"}
    /\ abandoned' = TRUE
    /\ UNCHANGED <<accepting, closer, entered, closing, closed, durable, worker,
                   broken>>

\* _start_ingestion; refused, the request fails.
StartIngestion ==
    /\ request = "start" /\ request' = "waiting" /\ lock' = None
    /\ LET admitted == "ingest" \in accepting
       IN  /\ live' = (live \ {"import"}) \cup (IF admitted THEN {"ingest"} ELSE {})
           /\ worker' = [worker EXCEPT !.at = IF admitted THEN "begin" ELSE "idle"]
           /\ abandoned' = (abandoned \/ ~admitted)
    /\ UNCHANGED <<accepting, closer, entered, closing, closed, durable, broken>>

-----------------------------------------------------------------------------
(* The ingestion.                                                          *)

ingesting == <<accepting, closer, entered, closing, closed, request>>

\* What the loop does with a segment, from the row read at its start.
Plan(row) ==
    IF row.state = "ACCEPTED" THEN "replay"
    ELSE IF row.state = "PENDING" \/ Eligible(row) THEN "ask"
    ELSE "skip"

\* ensure_segments, and the states every later decision of the loop rests on.
ReadSegments ==
    /\ worker.at = "begin" /\ Length[version] > 0
    /\ LET rows == [g \in Segments(version) |->
               IF segment[version][g].state = None
               THEN [NoSegment EXCEPT !.state = "PENDING"] ELSE segment[version][g]]
       IN  /\ segment' = [segment EXCEPT ![version] = rows]
           /\ worker' = [worker EXCEPT !.at = "loop", !.read = [g \in Segments(version) |-> Plan(rows[g])]]
    /\ UNCHANGED <<ingesting, live, lock, status, version, review, broken, abandoned>>

Current(what) ==
    worker.at = "loop" /\ worker.next \in Segments(version) /\ worker.read[worker.next] = what
Next1 == [worker EXCEPT !.next = @ + 1]

\* A saved extraction is used again, a segment out of attempts passed over.
Replay ==
    /\ Current("replay")
    /\ worker' = [Next1 EXCEPT !.found = @ \cup {worker.next}]
    /\ UNCHANGED <<ingesting, live, lock, durable, broken, abandoned>>
Skip ==
    /\ Current("skip") /\ worker' = Next1
    /\ UNCHANGED <<ingesting, live, lock, durable, broken, abandoned>>

\* mark_segment_running, then the provider is asked.
Ask ==
    /\ Current("ask")
    /\ segment' = [segment EXCEPT ![version][worker.next].state = "RUNNING"]
    /\ worker' = [worker EXCEPT !.at = "asked", !.fresh = @ \cup {worker.next}]
    /\ UNCHANGED <<ingesting, live, lock, status, version, review, broken, abandoned>>

\* MALFORMED and FAILED differ in nothing that follows.
Outcomes == [state : {"FAILED"}, retryable : BOOLEAN]
            \cup {[state |-> "ACCEPTED", retryable |-> FALSE]}

\* save_segment_attempt: the second attempt is the last.
Saved(row, o) ==
    [state |-> o.state, retryable |-> o.retryable /\ row.attempts + 1 < 2,
     attempts |-> row.attempts + 1]
SaveAttempt ==
    /\ worker.at = "asked"
    /\ \E o \in Outcomes :
          /\ segment' = [segment EXCEPT ![version][worker.next] = Saved(@, o)]
          /\ worker' = [Next1 EXCEPT !.at = "loop",
                !.found = IF o.state = "ACCEPTED" THEN @ \cup {worker.next} ELSE @]
    /\ UNCHANGED <<ingesting, live, lock, status, version, review, broken, abandoned>>

\* Under the store lock: the candidates of the segments that were asked now.
BeginCapture ==
    /\ worker.at = "loop" /\ worker.next \notin Segments(version) /\ lock = None
    /\ lock' = "ingest" /\ worker' = [worker EXCEPT !.at = "capture"]
    /\ UNCHANGED <<ingesting, live, durable, broken, abandoned>>

\* Mutant of ToCapture: only what this run's last request found.
ToCaptureLast == (worker.found \cap worker.fresh \cap {Length[version]}) \ review[version]
ToCapture == (worker.found \cap worker.fresh) \ review[version]
Capture(g) ==
    /\ worker.at = "capture"
    /\ review' = [review EXCEPT ![version] = @ \cup {g}]
    /\ UNCHANGED <<ingesting, live, lock, status, version, segment, worker, broken, abandoned>>

\* A version with a failed segment is PARTIAL when it has any candidate: an accepted
\* segment may have given none, a failed one some, with claims left out.
Results ==
    IF \A g \in Segments(version) : segment[version][g].state = "ACCEPTED" THEN {"COMPLETE"}
    ELSE {"FAILED", "PARTIAL"}
\* Mutants of EndWith: the result is not recorded; the next ingestion goes on
\* where this one was.
EndWithoutResult(result) ==
    /\ worker' = Idle /\ lock' = None /\ live' = live \ {"ingest"}
    /\ UNCHANGED <<ingesting, status, version, segment, review, abandoned>>
EndWithoutReset(result) ==
    /\ status' = result /\ worker' = [worker EXCEPT !.at = "idle"]
    /\ lock' = None /\ live' = live \ {"ingest"}
    /\ UNCHANGED <<ingesting, version, segment, review, abandoned>>
\* set_ingestion_result; the ingestion ends.
EndWith(result) ==
    /\ status' = result /\ worker' = Idle /\ lock' = None /\ live' = live \ {"ingest"}
    /\ UNCHANGED <<ingesting, version, segment, review, abandoned>>
EndIngestion ==
    /\ worker.at = "capture" /\ ToCapture = {}
    /\ \E result \in Results : EndWith(result)
    /\ UNCHANGED broken

\* Any exception, or SOURCE_PARSE_FAILED: the segments keep what they have, the source has failed.
IngestionRaises ==
    /\ worker.at # "idle" /\ lock \in {None, "ingest"}
    /\ EndWith("FAILED")
    /\ broken' = IF worker.at = "begin" THEN broken ELSE broken \cup {version}

Ingesting ==
    \/ ReadSegments \/ Replay \/ Skip \/ Ask \/ SaveAttempt
    \/ BeginCapture \/ EndIngestion \/ \E g \in ToCapture : Capture(g)
    \/ worker.at = "begin" /\ Length[version] = 0 /\ IngestionRaises

-----------------------------------------------------------------------------

\* The process dies, or leaves after an orderly close; another one starts.
Restart ==
    /\ Renewed
    /\ request' = "waiting" /\ worker' = Idle
    /\ abandoned' = (abandoned \/ status = Busy)
    /\ UNCHANGED <<durable, broken>>

Init ==
    /\ ShutdownInit
    /\ status = None /\ version \in Versions
    /\ segment = [v \in Versions |-> [g \in Segments(v) |-> NoSegment]]
    /\ review = [v \in Versions |-> {}]
    /\ request = "waiting" /\ worker = Idle
    /\ broken = {} /\ abandoned = FALSE

product == <<durable, request, worker, broken, abandoned>>
Others == {"http", "start", "run", "send"}

Next ==
    \/ Change \/ Answer \/ Reconcile \/ ReconcileFails \/ StartIngestion
    \/ Ingesting \/ IngestionRaises \/ Restart
    \/ /\ \/ \E t \in Tasks \ {"ingest"} : Admit(t)
          \/ \E t \in Others : Finish(t)
          \/ \E c \in Closers : Closing(c) \/ TimesOut(c)
       /\ UNCHANGED product

Spec == Init /\ [][Next]_vars

\* Threads run and requests return; a run has finitely many turns and every
\* provider request an end; who closes tries again until it is done.
Fairness ==
    /\ WF_vars(Answer \/ Reconcile \/ StartIngestion) /\ WF_vars(Ingesting)
    /\ \A of \in {{"http", "start"}, {"run"}, {"send"}} :
          WF_vars((\E t \in of : Finish(t)) /\ UNCHANGED product)
    /\ \A c \in Closers : WF_vars(closing /\ Closing(c) /\ UNCHANGED product)
FairSpec == Spec /\ Fairness

-----------------------------------------------------------------------------
(* Properties.                                                             *)

Rows == [state : {None, "PENDING", "RUNNING", "ACCEPTED", "FAILED"},
         retryable : BOOLEAN, attempts : 0..2]
Plans == [Segments(version) -> {"ask", "replay", "skip"}]
Work(places, plans) ==
    [at : places, next : 1..(Length[version] + 1), read : plans,
     fresh : SUBSET Segments(version), found : SUBSET Segments(version)]
InLoop == worker.at \in {"loop", "asked", "capture"}

TypeOK ==
    /\ ShutdownTypeOK
    /\ status \in {None, Busy, "COMPLETE", "PARTIAL", "FAILED", "DELETED"} /\ version \in Versions
    /\ DOMAIN segment = Versions /\ DOMAIN review = Versions
    /\ \A v \in Versions :
          /\ segment[v] \in [Segments(v) -> Rows]
          /\ review[v] \subseteq Segments(v)
    /\ request \in {"waiting", "reconcile", "start"}
    /\ worker \in Work({"idle", "begin", "loop", "asked", "capture"}, {<<>>} \cup Plans)
    /\ InLoop => worker.read \in Plans
    /\ broken \subseteq Versions /\ abandoned \in BOOLEAN

\* A complete version had every segment accepted and its candidates brought to
\* review, over retries, updates back and forth, closes and restarts, unless
\* an ingestion of it raised (product.py: _ingest).
CompleteIsReviewed ==
    status = "COMPLETE" =>
        /\ \A g \in Segments(version) : segment[version][g].state = "ACCEPTED"
        /\ version \in broken \/ review[version] = Segments(version)

\* A busy source has somebody at work on it, unless a process died or a
\* request failed half-way: what makes it busy hands over to an ingestion,
\* which ends with a result whatever happens (product.py: _ingest).
Owned == request # "waiting" \/ worker.at # "idle"
BusyIsOwned == status = Busy => abandoned \/ Owned

\* What a refused update or removal is told: "Wait for the current source
\* ingestion to finish" (product.py: update_source).  Violated: after a crash,
\* or when the reconciliation fails, there is none.
BusyIsIngesting == status = Busy => Owned

-----------------------------------------------------------------------------
(* The inductive invariant behind the theorems of SourceIngestionProofs.    *)

\* A request past its commit and an ingestion are where they are admitted, and
\* keep the source busy; they are never both at work.
Placed ==
    /\ request # "waiting" => status = Busy /\ "import" \in live /\ worker.at = "idle"
    /\ worker.at # "idle" => status = Busy
    /\ worker.at # "idle" <=> "ingest" \in live
    /\ worker.at \in {"idle", "begin"} => worker = [Idle EXCEPT !.at = worker.at]

\* A segment has attempts left where the loop will ask about it.
Attempts ==
    /\ \A v \in Versions : \A g \in Segments(v) :
          /\ segment[v][g].state \in {None, "PENDING"} => segment[v][g].attempts = 0
          /\ segment[v][g].retryable => segment[v][g].attempts < 2
    /\ worker.at \in {"loop", "asked"} => \A g \in Segments(version) :
          g >= worker.next /\ worker.read[g] = "ask" => segment[version][g].attempts < 2
    /\ worker.at = "asked" =>
          /\ worker.next \in Segments(version) \cap worker.fresh
          /\ segment[version][worker.next].attempts < 2

Accepted(v) == {g \in Segments(v) : segment[v][g].state = "ACCEPTED"}

\* Nobody is in the middle of an ingestion of v, nor left one unfinished.
Settled(v) == v # version \/ status # Busy \/ request # "waiting" \/ worker.at = "begin"

\* Outside an ingestion what was accepted is captured; inside, it is, or the
\* ingestion has it in hand.
NothingForgotten ==
    /\ \A v \in Versions \ broken : Settled(v) => Accepted(v) \subseteq review[v]
    /\ InLoop /\ version \notin broken =>
          Accepted(version) \subseteq review[version] \cup (worker.found \cap worker.fresh)

IInv ==
    /\ TypeOK /\ ShutdownInv /\ Placed /\ Attempts /\ NothingForgotten
    /\ CompleteIsReviewed /\ BusyIsOwned
=============================================================================
