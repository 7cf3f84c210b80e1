------------------------- MODULE DurableHistoryProofs -------------------------
(***************************************************************************)
(* More theorems of DurableLoop: what the run's effects rest on, its       *)
(* budgets, what a completed run has behind it, what checkpoints never      *)
(* forget, and that nothing happens once the recovery policy has stopped.   *)
(*                                                                         *)
(* The argument is HInv: every copy of the state is a coherent history of   *)
(* turns and calls, the working state is never behind what a save would     *)
(* overwrite, and on the way to an effect the policy has been asked.  The   *)
(* invariant IInv of DurableLoopProofs is proved there and only used here.  *)
(***************************************************************************)
EXTENDS DurableLoopProofs

\* The conjuncts of HInv about the copies of the state.
Histories ==
    /\ Coherent(db) /\ Coherent(mem) /\ Coherent(cursor)
    /\ faults = 0 => Kept(db, cursor)

\* The working state is ahead of whatever a save would write over.
Ahead == Kept(db, mem) /\ Kept(cursor, mem)

\* Two snapshots that differ at most in the sequence number and the verdict.
Alike(s, d) ==
    /\ s.turns = d.turns /\ s.st = d.st /\ s.kind = d.kind /\ s.n = d.n
    /\ s.refs = d.refs /\ s.res = d.res /\ s.led = d.led

-----------------------------------------------------------------------------
(* The operators.                                                          *)

\* Nothing is forgotten by keeping a snapshot as it is, or step by step.
LEMMA KeptAlike ==
    ASSUME NEW s \in Snapshots, NEW d \in Snapshots, Alike(s, d)
    PROVE  Kept(s, d) /\ Kept(d, s)
  BY DEF Kept, Alike, Snapshots

LEMMA KeptOn ==
    ASSUME NEW s \in Snapshots, NEW d \in Snapshots, NEW e \in Snapshots,
           Kept(s, d), Kept(d, e)
    PROVE  Kept(s, e)
  <1>1. ASSUME NEW t \in Turns
        PROVE  s.refs[t] \in Nat /\ d.refs[t] \in Nat /\ e.refs[t] \in Nat
    BY LimitsAssumption DEF Snapshots
  <1>2. ASSUME NEW t \in Turns PROVE e.refs[t] >= s.refs[t]
    BY <1>1 DEF Kept
  <1>3. \A t \in Turns : s.kind[t] # "none" => e.kind[t] = s.kind[t]
    BY DEF Kept
  <1>4. ASSUME NEW c \in Calls, s.led[c] \in Settled PROVE e.led[c] = s.led[c]
    BY <1>4 DEF Kept
  <1>5. ASSUME NEW c \in Calls, s.res[c] # "none" PROVE e.res[c] = s.res[c]
    BY <1>5 DEF Kept
  <1> QED BY <1>2, <1>3, <1>4, <1>5 DEF Kept

\* What is coherent stays so when only the verdict is another.
LEMMA CoherentAlike ==
    ASSUME NEW s, NEW d, Alike(s, d), Coherent(s)
    PROVE  Coherent(d)
  <1>1. Used(s) = Used(d) /\ Spent(s) = Spent(d) /\ NextCall(s) = NextCall(d)
    BY DEF Alike, Used, Spent, NextCall
  <1>2. \A t \in Turns : Answered(s, t) <=> Answered(d, t)
    BY DEF Alike, Answered, HasResult, Event
  <1>3. TurnsInOrder(d)
    BY <1>2 DEF Coherent, TurnsInOrder, Alike
  <1>4. CallsInOrder(d)
    BY <1>1 DEF Coherent, CallsInOrder, Alike
  <1> QED BY <1>1, <1>3, <1>4 DEF Coherent, WithinBudgets

\* Saving replaces copies by a coherent one.
LEMMA CoherentCopies ==
    ASSUME Coherent(db), Coherent(mem), Coherent(cursor), NEW p, Coherent(p),
           NEW m, Coherent(m),
           db' \in {db, p}, mem' \in {mem, m, p}, cursor' \in {cursor, p},
           \A t \in Turns : invoked[t] = 1 => invoked'[t] = 1
    PROVE  Coherent(db)' /\ Coherent(mem)' /\ Coherent(cursor)'
  <1>1. ASSUME db' = db PROVE Coherent(db)'
    BY <1>1 DEF Coherent, TurnsInOrder, CallsInOrder, WithinBudgets, Answered,
                HasResult, Event, NextCall, Used, Spent
  <1>2. ASSUME mem' = mem PROVE Coherent(mem)'
    BY <1>2 DEF Coherent, TurnsInOrder, CallsInOrder, WithinBudgets, Answered,
                HasResult, Event, NextCall, Used, Spent
  <1>3. ASSUME cursor' = cursor PROVE Coherent(cursor)'
    BY <1>3 DEF Coherent, TurnsInOrder, CallsInOrder, WithinBudgets, Answered,
                HasResult, Event, NextCall, Used, Spent
  <1>4. ASSUME db' = p PROVE Coherent(db)'
    BY <1>4 DEF Coherent, TurnsInOrder, CallsInOrder, WithinBudgets, Answered,
                HasResult, Event, NextCall, Used, Spent
  <1>5. ASSUME mem' = p PROVE Coherent(mem)'
    BY <1>5 DEF Coherent, TurnsInOrder, CallsInOrder, WithinBudgets, Answered,
                HasResult, Event, NextCall, Used, Spent
  <1>6. ASSUME mem' = m PROVE Coherent(mem)'
    BY <1>6 DEF Coherent, TurnsInOrder, CallsInOrder, WithinBudgets, Answered,
                HasResult, Event, NextCall, Used, Spent
  <1>7. ASSUME cursor' = p PROVE Coherent(cursor)'
    BY <1>7 DEF Coherent, TurnsInOrder, CallsInOrder, WithinBudgets, Answered,
                HasResult, Event, NextCall, Used, Spent
  <1> QED BY <1>1, <1>2, <1>3, <1>4, <1>5, <1>6, <1>7

\* The recovery policy sees events only.
LEMMA TerminatesAlike ==
    ASSUME NEW s, NEW d, \A c \in Calls : Event(s, c) = Event(d, c)
    PROVE  Terminates(s) <=> Terminates(d)
  <1>1. \A t : Events(s, t) = Events(d, t) /\ Events(s, t) \subseteq Calls
    BY DEF Events
  <1> DEFINE E == Events(s, MaxRequests + 1)
  <1>2. E = Events(d, MaxRequests + 1) /\ E \subseteq Calls
    BY <1>1
  <1> HIDE DEF E
  <1>3. \A k : LatestIs(s, E, k) <=> LatestIs(d, E, k)
    BY <1>2 DEF LatestIs
  <1>4. \A k, b : Twice(s, E, k, b) <=> Twice(d, E, k, b)
    BY <1>2 DEF Twice
  <1> QED BY <1>2, <1>3, <1>4 DEF Terminates, E

-----------------------------------------------------------------------------
(* Saving.                                                                 *)

LEMMA ProjectedAlike ==
    ASSUME NEW m \in Snapshots
    PROVE  Alike(m, Projected(m)) /\ Projected(m).term = m.term
  BY DEF Alike, Projected, Snapshots

LEMMA ClosedAlike ==
    ASSUME cursor \in Snapshots, NEW verdict \in {"completed", "failed"}
    PROVE  Alike(cursor, Closed(verdict))
  BY DEF Alike, Closed, Snapshots

\* publish: a save that returned leaves all copies equal; one that raised may
\* leave the cursor behind the store, and is counted as a fault.
LEMMA PublishHistory ==
    ASSUME CopiesOK, Histories, faults \in Nat,
           NEW m \in Snapshots, Coherent(m), m.seq >= db.seq,
           Kept(db, m), Kept(cursor, m),
           NEW next, NEW onError,
           Publish(m, next, onError), UNCHANGED Effects
    PROVE  /\ Histories' /\ Ahead'
           /\ mem' = Projected(m) /\ Alike(m, mem')
           /\ db' \in {db, Projected(m)}
           /\ pc' = next => cursor' = Projected(m) \/ pc' = onError
           /\ pc' \in {next, onError}
  <1> DEFINE p == Projected(m)
  <1>1. /\ p \in Snapshots /\ Alike(m, p) /\ p.seq = m.seq + 1
        /\ m.seq \in Nat /\ db.seq \in Nat
        /\ db \in Snapshots /\ cursor \in Snapshots
    BY ProjectedFields, ProjectedAlike DEF CopiesOK, Snapshots
  <1>2. Coherent(p) /\ Kept(db, p) /\ Kept(cursor, p) /\ Kept(p, p)
    BY <1>1, CoherentAlike, KeptAlike, KeptOn DEF Alike
  <1>3. /\ mem' = p /\ cursor' \in {cursor, p} /\ db' \in {db, p}
        /\ pc' = next => cursor' = p \/ pc' = onError
        /\ pc' \in {next, onError}
    BY DEF Publish, Acknowledged, Raised, Newest, Fault
  <1>4. \/ faults' = faults /\ db' = p /\ cursor' = p
        \/ faults' = faults + 1
    BY <1>1 DEF Publish, Acknowledged, Raised, Newest, Fault
  <1> HIDE DEF p
  <1>5. Coherent(db)' /\ Coherent(mem)' /\ Coherent(cursor)'
    <2>1. \A t \in Turns : invoked[t] = 1 => invoked'[t] = 1
      BY DEF Effects
    <2> QED BY <1>2, <1>3, <2>1, CoherentCopies DEF Histories
  <1>6. Ahead'
    BY <1>2, <1>3 DEF Ahead, Kept
  <1>7. (faults = 0 => Kept(db, cursor))'
    BY <1>2, <1>4 DEF Kept
  <1> QED BY <1>1, <1>3, <1>5, <1>6, <1>7 DEF Histories, p

\* commit_provider_checkpoint: as above, or the loop is over.
LEMMA CommitHistory ==
    ASSUME CopiesOK, Histories, faults \in Nat,
           NEW m \in Snapshots, Coherent(m), m.seq >= db.seq,
           Kept(db, m), Kept(cursor, m),
           NEW next,
           Commit(m, next), UNCHANGED Effects
    PROVE  /\ Histories' /\ (pc' = "aborting" \/ Ahead')
           /\ mem' \in {m, Projected(m)} /\ Alike(m, mem')
           /\ db' \in {db, Projected(m)}
           /\ pc' \in {next, "aborting"}
  <1> DEFINE p == Projected(m)
  <1>1. /\ p \in Snapshots /\ Alike(m, p) /\ p.seq = m.seq + 1
        /\ m.seq \in Nat /\ db.seq \in Nat
        /\ db \in Snapshots /\ cursor \in Snapshots
    BY ProjectedFields, ProjectedAlike DEF CopiesOK, Snapshots
  <1>2. Coherent(p) /\ Kept(db, p) /\ Kept(cursor, p) /\ Kept(p, p)
    BY <1>1, CoherentAlike, KeptAlike, KeptOn DEF Alike
  <1>3. /\ mem' \in {m, p} /\ cursor' \in {cursor, p} /\ db' \in {db, p}
        /\ pc' \in {next, "aborting"}
        /\ pc' = "aborting" \/ mem' = p
    BY DEF Commit, Acknowledged, Raised, Newest, Fault
  <1>4. \/ faults' = faults /\ db' = p /\ cursor' = p
        \/ faults' = faults + 1
    BY <1>1 DEF Commit, Acknowledged, Raised, Newest, Fault
  <1>5. Alike(m, m)
    BY DEF Alike
  <1> HIDE DEF p
  <1>6. Coherent(db)' /\ Coherent(mem)' /\ Coherent(cursor)'
    <2>1. \A t \in Turns : invoked[t] = 1 => invoked'[t] = 1
      BY DEF Effects
    <2> QED BY <1>2, <1>3, <2>1, CoherentCopies DEF Histories
  <1>7. pc' = "aborting" \/ Ahead'
    BY <1>2, <1>3 DEF Ahead, Kept
  <1>8. (faults = 0 => Kept(db, cursor))'
    BY <1>2, <1>4 DEF Kept
  <1> QED BY <1>1, <1>3, <1>5, <1>6, <1>7, <1>8 DEF Histories, p

\* Either kind of boundary.
LEMMA BoundaryHistory ==
    ASSUME CopiesOK, Histories, faults \in Nat,
           NEW m \in Snapshots, Coherent(m), m.seq >= db.seq,
           Kept(db, m), Kept(cursor, m),
           NEW next,
           TurnBoundary(m, next) \/ ToolBoundary(m, next), UNCHANGED Effects
    PROVE  /\ Histories' /\ (pc' = "aborting" \/ Ahead')
           /\ Alike(m, mem')
           /\ db' \in {db, Projected(m)}
           /\ pc' \in {next, "failing", "aborting"}
  <1>1. CASE Publish(m, next, "failing")
    <2>1. Publish(m, next, "failing")
      BY <1>1
    <2> QED BY <2>1, PublishHistory
  <1>2. CASE Commit(m, next)
    BY <1>2, CommitHistory
  <1> QED BY <1>1, <1>2 DEF TurnBoundary, ToolBoundary

-----------------------------------------------------------------------------
(* Taking HInv apart and putting it together.                              *)

LEMMA Working ==
    ASSUME HInv, pc \notin {"off", "rescuing"}
    PROVE  /\ CopiesOK /\ OthersOK /\ Histories /\ VerdictOK
           /\ faults \in Nat
           /\ pc \in Saving => Ahead /\ mem.seq >= db.seq
  <1>1. IInv
    BY DEF HInv
  <1>2. CopiesOK /\ OthersOK
    BY <1>1, Running
  <1>3. Histories /\ VerdictOK /\ (pc \in Saving => Ahead)
    BY DEF HInv, Histories, Advancing, Ahead
  <1>4. pc \in Saving => mem.seq >= db.seq
    BY <1>1 DEF IInv
  <1>5. faults \in Nat
    BY <1>2, LimitsAssumption DEF OthersOK
  <1> QED BY <1>2, <1>3, <1>4, <1>5

\* A process that will only close the run.
LEMMA Leaving ==
    ASSUME IInv', Histories', VerdictOK',
           pc' \in {"failing", "completing", "aborting", "tracing", "rescuing"},
           pc' = "failing" => Ahead',
           pc' = "completing" => Final(cursor)'
    PROVE  HInv'
  <1>1. Advancing'
    BY DEF Histories, Ahead, Advancing, Saving, InTurn
  <1>2. Placed'
    BY DEF Placed, Asking, Calling
  <1>3. StepsLeft' /\ Unstopped'
    BY DEF StepsLeft, Unstopped, InTurn, Asking
  <1> QED BY <1>1, <1>2, <1>3 DEF HInv, Histories

\* A process that goes on.
LEMMA Staying ==
    ASSUME IInv', Histories', VerdictOK', Ahead', Placed', StepsLeft', Unstopped',
           pc' \in InTurn \cup {"top"}
    PROVE  HInv'
  <1>1. Advancing'
    BY DEF Histories, Ahead, Advancing, InTurn
  <1> QED BY <1>1 DEF HInv, Histories

\* The loop's own rows are of a running run.
LEMMA VerdictKept ==
    ASSUME VerdictOK, NEW m \in Snapshots, m.run = "running",
           db' \in {db, Projected(m)}
    PROVE  VerdictOK'
  <1>1. Projected(m).run = "running"
    BY ProjectedFields
  <1> QED BY <1>1 DEF VerdictOK, Final

\* What goes on from the working state goes on from what is saved.
LEMMA AheadOn ==
    ASSUME CopiesOK, Ahead, NEW m \in Snapshots, Kept(mem, m)
    PROVE  Kept(db, m) /\ Kept(cursor, m)
  BY KeptOn DEF CopiesOK, Ahead

\* A boundary that keeps the history: what is left to show when the loop goes
\* on from it.
LEMMA BoundaryPassed ==
    ASSUME HInv, IInv', pc \in Saving,
           NEW m \in Snapshots, Coherent(m), Kept(mem, m),
           m.run = "running", m.seq = mem.seq,
           NEW next \in InTurn \cup {"top", "failing"},
           TurnBoundary(m, next) \/ ToolBoundary(m, next), UNCHANGED Effects,
           /\ pc' = next /\ next # "failing" /\ Alike(m, mem')
           => (Placed' /\ StepsLeft' /\ Unstopped')
    PROVE  HInv'
  <1>1. /\ CopiesOK /\ OthersOK /\ Histories /\ VerdictOK /\ Ahead
        /\ faults \in Nat /\ mem.seq >= db.seq
    BY Working DEF Saving, InTurn
  <1>2. Kept(db, m) /\ Kept(cursor, m)
    BY <1>1, AheadOn
  <1>3. /\ Histories' /\ (pc' = "aborting" \/ Ahead')
        /\ Alike(m, mem')
        /\ db' \in {db, Projected(m)}
        /\ pc' \in {next, "failing", "aborting"}
    BY <1>1, <1>2, BoundaryHistory
  <1>4. VerdictOK'
    BY <1>1, <1>3, VerdictKept
  <1>5. CASE pc' \in {"failing", "aborting"}
    BY <1>3, <1>4, <1>5, Leaving
  <1>6. CASE pc' = next /\ next # "failing"
    <2>1. pc' # "aborting"
      BY <1>6 DEF InTurn
    <2> QED BY <1>3, <1>4, <1>6, <2>1, Staying
  <1> QED BY <1>3, <1>5, <1>6

-----------------------------------------------------------------------------
(* The steps outside a turn.                                               *)

\* A snapshot without turns.
LEMMA BlankCoherent ==
    ASSUME NEW q \in Nat, NEW run \in {"none", "running"},
           NEW b, b = Blank(q, run)
    PROVE  /\ Coherent(b) /\ b.turns = 0
           /\ Cardinality(Spent(b)) = 0
           /\ ~Terminates(b)
  <1>1. /\ b.turns = 0
        /\ \A t \in Turns : /\ b.st[t] = "none" /\ b.kind[t] = "none"
                            /\ b.n[t] = 0 /\ b.refs[t] = 0
        /\ \A c \in Calls : b.res[c] = "none" /\ b.led[c] = "none"
    BY DEF Blank
  <1>2. Used(b) = {} /\ Spent(b) = {}
    BY <1>1 DEF Used, Spent
  <1>3. Cardinality(Used(b)) = 0 /\ Cardinality(Spent(b)) = 0
    BY <1>2, FS_EmptySet
  <1>4. WithinBudgets(b)
    BY <1>3, LimitsAssumption DEF WithinBudgets
  <1>5. TurnsInOrder(b)
    BY <1>1, LimitsAssumption DEF TurnsInOrder, Turns
  <1>6. CallsInOrder(b)
    <2>1. \A c \in Calls : c[1] \in Turns /\ c[2] \in 1..MaxOrd
      BY DEF Calls, Ordinals
    <2>2. \A c \in Calls : ~(c[2] <= b.refs[c[1]])
      BY <1>1, <2>1, LimitsAssumption
    <2> QED BY <1>1, <2>2 DEF CallsInOrder
  <1>7. ~Terminates(b)
    <2>1. Events(b, MaxRequests + 1) = {}
      BY <1>1, OutcomesAssumption DEF Events, Event, Settled
    <2>2. /\ \A k : ~LatestIs(b, {}, k)
          /\ \A k, f : ~Twice(b, {}, k, f)
      BY DEF LatestIs, Twice
    <2> QED BY <2>1, <2>2 DEF Terminates
  <1> QED BY <1>1, <1>3, <1>4, <1>5, <1>6, <1>7 DEF Coherent

LEMMA InitHistory == Init => HInv
  <1> SUFFICES ASSUME Init PROVE HInv
    OBVIOUS
  <1>1. /\ IInv /\ db \in Snapshots
    BY InitInductive DEF IInv, TypeOK
  <1>2. Coherent(db) /\ db.turns = 0 /\ db.run = "none"
    <2>1. db.run = "none"
      BY BlankFields DEF Init
    <2> QED BY <2>1, BlankCoherent DEF Init
  <1>3. Kept(db, db)
    BY <1>1, KeptAlike DEF Alike
  <1>4. Advancing
    BY <1>3 DEF Init, Advancing, Saving, InTurn
  <1>5. Placed /\ StepsLeft /\ Unstopped
    BY DEF Init, Placed, StepsLeft, Unstopped, Asking, Calling, InTurn
  <1> QED BY <1>1, <1>2, <1>4, <1>5 DEF Init, HInv, VerdictOK

\* A fresh run starts from nothing, and has its whole step budget.
LEMMA StartHistory == ASSUME HInv, Start PROVE HInv'
  <1> DEFINE b == Blank(1, "running")
  <1>1. IInv /\ IInv'
    BY StartInductive DEF HInv
  <1>2. /\ db \in Snapshots /\ b \in Snapshots /\ b.seq = 1 /\ b.run = "running"
        /\ faults \in Nat /\ db.seq = 0 /\ db.run = "none" /\ db.turns = 0
    BY <1>1, BlankFields, LimitsAssumption DEF IInv, TypeOK, HInv, VerdictOK, Start
  <1>3. /\ Coherent(b) /\ b.turns = 0
        /\ Cardinality(Spent(b)) = 0 /\ ~Terminates(b)
    BY BlankCoherent
  <1>4. /\ mem' = b /\ cursor' = b /\ left' = Least(MaxSteps, MaxRequests)
        /\ UNCHANGED Effects /\ db' \in {db, b}
        /\ \/ pc' = "top" /\ db' = b
           \/ pc' = "rescuing" /\ faults' = faults + 1
    BY <1>2 DEF Start, Acknowledged, Raised, Fault, Newest
  <1> HIDE DEF b
  <1>5. Kept(b, b)
    BY <1>2, KeptAlike DEF Alike
  <1>6. Coherent(db)' /\ Coherent(mem)' /\ Coherent(cursor)'
    BY <1>3, <1>4, CoherentCopies DEF HInv, Effects
  <1>7. VerdictOK'
    BY <1>2, <1>3, <1>4 DEF VerdictOK
  <1>8. CASE pc' = "top" /\ db' = b
    <2>1. Histories' /\ Ahead'
      BY <1>4, <1>5, <1>6, <1>8 DEF Histories, Ahead, Kept
    <2>2. Placed'
      BY <1>3, <1>4, <1>8 DEF Placed, Asking, Calling
    <2>3. Cardinality(Spent(mem))' = 0
      BY <1>3, <1>4 DEF Spent
    <2>4. StepsLeft'
      BY <1>4, <1>8, <2>3, LimitsAssumption DEF StepsLeft, Least
    <2>5. ~Terminates(mem)'
      BY <1>3, <1>4 DEF Terminates, Events, Event, LatestIs, Twice
    <2>6. Unstopped'
      BY <1>8, <2>5 DEF Unstopped
    <2> QED BY <1>1, <1>7, <1>8, <2>1, <2>2, <2>4, <2>6, Staying
  <1>9. CASE pc' = "rescuing" /\ faults' = faults + 1
    <2>1. Histories'
      BY <1>2, <1>6, <1>9 DEF Histories
    <2> QED BY <1>1, <1>7, <1>9, <2>1, Leaving
  <1> QED BY <1>4, <1>8, <1>9

\* What the decisions a run is resumed with say of its newest turn.
LEMMA DecisionMeans ==
    ASSUME NEW s
    PROVE  /\ Decision(s) = "safe_to_invoke_model" =>
                 s.st[s.turns] = "request_durable"
           /\ Decision(s) = "reuse_durable_model_response" =>
                 s.st[s.turns] = "response_durable" \/ s.kind[s.turns] = "tools"
           /\ Decision(s) = "resume_durable_proposal" => s.kind[s.turns] = "tools"
           /\ Decision(s) = "resume_from_tool_results" =>
                 /\ s.kind[s.turns] = "tools"
                 /\ \/ s.refs[s.turns] = s.n[s.turns]
                    \/ /\ Protocol # "proposal"
                       /\ s.led[NextCall(s)] \notin {"none", "pending"}
  <1> DEFINE st == s.st[s.turns]
             kind == s.kind[s.turns]
             refs == s.refs[s.turns]
             n == s.n[s.turns]
             call == s.led[NextCall(s)]
  <1>1. Decision(s) =
          CASE st = "request_durable" -> "safe_to_invoke_model"
            [] st \in {"request_sent", "response_obtained"} -> "requires_verification"
            [] st = "completed" -> "already_terminal"
            [] st = "response_durable" /\ kind # "tools" -> "reuse_durable_model_response"
            [] kind = "tools" /\ refs = n -> "resume_from_tool_results"
            [] kind = "tools" /\ refs < n /\ call = "pending" -> "requires_verification"
            [] kind = "tools" /\ refs < n /\ call # "pending" ->
                  IF Protocol = "proposal" THEN "resume_durable_proposal"
                  ELSE IF call = "none" THEN "reuse_durable_model_response"
                  ELSE "resume_from_tool_results"
            [] OTHER -> "requires_manual_decision"
    BY DEF Decision
  <1> HIDE DEF st, kind, refs, n, call
  <1>2. /\ Decision(s) = "safe_to_invoke_model" => st = "request_durable"
        /\ Decision(s) = "reuse_durable_model_response" =>
              st = "response_durable" \/ kind = "tools"
        /\ Decision(s) = "resume_durable_proposal" => kind = "tools"
        /\ Decision(s) = "resume_from_tool_results" =>
              /\ kind = "tools"
              /\ \/ refs = n
                 \/ Protocol # "proposal" /\ call \notin {"none", "pending"}
    BY <1>1
  <1> QED BY <1>2 DEF st, kind, refs, n, call

\* A turn all of whose results are kept is answered, and so is an action
\* whose ledger record tells the outcome.
LEMMA TurnAnswered ==
    ASSUME NEW s \in Snapshots, CallsInOrder(s), s.turns \in Turns,
           s.kind[s.turns] = "tools",
           \/ s.refs[s.turns] = s.n[s.turns]
           \/ Protocol # "proposal" /\ s.led[NextCall(s)] \notin {"none", "pending"}
    PROVE  Answered(s, s.turns)
  <1> DEFINE t == s.turns
  <1>1. s.n[t] \in 0..MaxOrd /\ s.refs[t] \in 0..MaxOrd
    BY DEF Snapshots
  <1>2. ASSUME NEW o \in 1..s.n[t]
        PROVE  <<t, o>> \in Calls /\ o \in Nat
    BY <1>1, LimitsAssumption DEF Calls, Ordinals
  <1>3. CASE s.refs[t] = s.n[t]
    <2>1. ASSUME NEW o \in 1..s.n[t] PROVE s.res[<<t, o>>] # "none"
      BY <1>2, <1>3 DEF CallsInOrder
    <2> QED BY <2>1 DEF Answered, HasResult, Event
  <1>4. CASE /\ s.refs[t] # s.n[t]
             /\ Protocol # "proposal" /\ s.led[NextCall(s)] \notin {"none", "pending"}
    <2>1. ASSUME NEW o \in 1..s.n[t] PROVE HasResult(s, <<t, o>>)
      <3>1. <<t, o>> \in Calls /\ o = 1
        BY <1>1, <1>2, <1>4, LimitsAssumption
      <3>2. CASE s.refs[t] = 0
        <4>1. NextCall(s) = <<t, o>>
          BY <3>1, <3>2 DEF NextCall
        <4>2. s.led[<<t, o>>] \in Settled
          BY <1>4, <3>1, <4>1 DEF Snapshots, LedgerStatus
        <4>3. "none" \notin Settled
          BY OutcomesAssumption DEF Settled
        <4> QED BY <4>2, <4>3 DEF HasResult, Event
      <3>3. CASE s.refs[t] # 0
        <4>1. s.res[<<t, o>>] # "none"
          BY <1>1, <3>1, <3>3, LimitsAssumption DEF CallsInOrder
        <4> QED BY <4>1 DEF HasResult, Event
      <3> QED BY <3>2, <3>3
    <2> QED BY <2>1 DEF Answered
  <1> QED BY <1>3, <1>4

\* What a resumed process may still take fits into the step budget.
LEMMA SlotsFit ==
    ASSUME db \in Snapshots, Cardinality(Spent(db)) <= MaxSteps
    PROVE  /\ Cardinality(Spent(db)) \in Nat
           /\ Slots(db) \in Nat
           /\ Slots(db) + Cardinality(Spent(db)) <= MaxSteps
  <1>1. db.turns \in 0..MaxRequests
    BY DEF Snapshots
  <1>2. Cardinality(Spent(db)) \in Nat
    <2>1. IsFiniteSet(Turns)
      BY FS_Interval, LimitsAssumption DEF Turns
    <2>2. IsFiniteSet(Spent(db))
      BY <2>1, FS_Subset DEF Spent
    <2> QED BY <2>2, FS_CardinalityType
  <1> QED BY <1>1, <1>2, LimitsAssumption DEF Slots, Least

\* A resumed process goes on where the newest checkpoint is.
LEMMA ResumeHistory == ASSUME HInv, Resume PROVE HInv'
  <1>1. /\ IInv /\ IInv' /\ db \in Snapshots /\ Coherent(db) /\ VerdictOK
        /\ Announced(db)
    BY ResumeInductive DEF HInv, IInv, TypeOK, Sound
  <1>2. /\ db' = db /\ mem' = db /\ cursor' = db
        /\ UNCHANGED <<Effects, Held, faults>>
        /\ db.turns \in Turns
    BY <1>1, LimitsAssumption DEF Resume, Resumable, Snapshots, Turns
  <1>3. VerdictOK'
    BY <1>1, <1>2 DEF VerdictOK
  <1>4. Kept(db, db)
    BY <1>1, KeptAlike DEF Alike
  <1>5. Coherent(db)' /\ Coherent(mem)' /\ Coherent(cursor)'
    BY <1>1, <1>2, CoherentCopies DEF HInv, Effects
  <1>6. Histories' /\ Ahead'
    BY <1>2, <1>4, <1>5 DEF Histories, Ahead, Kept
  <1>7. /\ Slots(db) \in Nat /\ Cardinality(Spent(db)) \in Nat
        /\ Slots(db) + Cardinality(Spent(db)) <= MaxSteps
    BY <1>1, SlotsFit DEF Coherent, WithinBudgets
  <1> DEFINE slots == IF Slots(db) > 0 THEN Slots(db) ELSE 1
             t == db.turns
  <1>8. \/ pc' \in {"aborting", "failing"}
        \/ /\ pc' \in {"sending", "dispatch", "binding", "top"}
           /\ Slots(db) > 0 \/ DurableFinal(db)
           /\ ~StopsAtOnce(db)
           /\ left' = IF pc' = "sending" THEN slots - 1 ELSE slots
           /\ \/ pc' = "sending" /\ Decision(db) = "safe_to_invoke_model"
              \/ pc' = "dispatch" /\ Decision(db) = "reuse_durable_model_response"
              \/ /\ pc' = "binding"
                 /\ \/ Decision(db) = "resume_durable_proposal" \/ RebindsResults(db)
              \/ /\ pc' = "top" /\ Decision(db) = "resume_from_tool_results"
                 /\ ~RebindsResults(db)
    BY DEF Resume, Resumable
  <1>9. DurableFinal(db) =>
           Decision(db) = "reuse_durable_model_response" /\ db.kind[t] = "final"
    BY DEF DurableFinal, Decision
  <1>10. /\ pc' = "sending" => db.kind[t] = "none"
         /\ pc' = "dispatch" => db.kind[t] # "none"
         /\ pc' = "binding" => db.kind[t] = "tools"
         /\ pc' = "binding" => ~Terminates(db) \/ db.refs[t] = db.n[t]
         /\ pc' = "top" => Answered(db, t)
         /\ pc' \in {"sending", "dispatch", "top"} => ~Terminates(db)
    <2>1. CASE pc' \in {"aborting", "failing"}
      BY <2>1
    <2>2. CASE pc' = "sending"
      <3>1. db.st[t] = "request_durable" /\ ~RebindsResults(db)
        BY <1>8, <2>2, DecisionMeans DEF RebindsResults
      <3>2. db.kind[t] = "none"
        BY <1>1, <1>2, <3>1 DEF Announced, Coherent, TurnsInOrder
      <3> QED BY <1>8, <2>2, <3>1, <3>2 DEF StopsAtOnce
    <2>3. CASE pc' = "dispatch"
      <3>1. /\ db.st[t] = "response_durable" \/ db.kind[t] = "tools"
            /\ ~RebindsResults(db)
        BY <1>8, <2>3, DecisionMeans DEF RebindsResults
      <3>2. db.kind[t] # "none"
        BY <1>1, <1>2, <3>1 DEF Coherent, TurnsInOrder
      <3> QED BY <1>8, <2>3, <3>1, <3>2 DEF StopsAtOnce
    <2>4. CASE pc' = "binding"
      <3>1. db.kind[t] = "tools"
        BY <1>8, <2>4, DecisionMeans DEF RebindsResults
      <3>2. RebindsResults(db) => db.refs[t] = db.n[t]
        BY DecisionMeans DEF RebindsResults
      <3> QED BY <1>8, <2>4, <3>1, <3>2 DEF StopsAtOnce
    <2>5. CASE pc' = "top"
      <3>1. Answered(db, t)
        BY <1>1, <1>2, <1>8, <2>5, DecisionMeans, TurnAnswered DEF Coherent
      <3> QED BY <1>8, <2>5, <3>1 DEF StopsAtOnce
    <2> QED BY <1>8, <2>1, <2>2, <2>3, <2>4, <2>5
  <1>11. CASE pc' \in {"aborting", "failing"}
    BY <1>1, <1>3, <1>6, <1>11, Leaving
  <1>12. CASE pc' \in {"sending", "dispatch", "binding", "top"}
    <2>1. Placed'
      BY <1>2, <1>10, <1>12 DEF Placed, Asking, Calling, Answered, HasResult, Event
    <2>2. Cardinality(Spent(mem))' = Cardinality(Spent(db))
      BY <1>2 DEF Spent
    <2>3. Slots(db) = 0 => pc' = "dispatch" /\ mem'.kind[mem'.turns] = "final"
      BY <1>2, <1>7, <1>8, <1>9, <1>12 DEF RebindsResults
    <2>4. StepsLeft'
      <3>1. CASE Slots(db) > 0
        <4>1. left' = IF pc' = "sending" THEN Slots(db) - 1 ELSE Slots(db)
          BY <1>8, <1>12, <3>1
        <4> QED BY <1>7, <2>2, <3>1, <4>1, LimitsAssumption DEF StepsLeft
      <3>2. CASE Slots(db) = 0
        BY <2>3, <3>2 DEF StepsLeft
      <3> QED BY <1>7, <3>1, <3>2
    <2>5. Terminates(mem)' <=> Terminates(db)
      BY <1>2 DEF Terminates, Events, Event, LatestIs, Twice
    <2>6. Unstopped'
      BY <1>2, <1>10, <1>12, <2>5 DEF Unstopped, Asking
    <2> QED BY <1>1, <1>3, <1>6, <1>12, <2>1, <2>4, <2>6, Staying DEF InTurn
  <1> QED BY <1>8, <1>11, <1>12

-----------------------------------------------------------------------------
(* The steps of a turn.                                                    *)

LEMMA SpentSize ==
    ASSUME NEW s
    PROVE  IsFiniteSet(Spent(s)) /\ Cardinality(Spent(s)) \in Nat
  <1>1. IsFiniteSet(Turns)
    BY FS_Interval, LimitsAssumption DEF Turns
  <1>2. IsFiniteSet(Spent(s))
    BY <1>1, FS_Subset DEF Spent
  <1> QED BY <1>2, FS_CardinalityType

\* Only the current turn is spent in one step.
LEMMA SpentStep ==
    ASSUME NEW s, NEW m, NEW t, Spent(m) \subseteq Spent(s) \cup {t}
    PROVE  /\ Cardinality(Spent(s)) \in Nat /\ Cardinality(Spent(m)) \in Nat
           /\ Cardinality(Spent(m)) <= Cardinality(Spent(s)) + 1
  <1>1. /\ IsFiniteSet(Spent(s)) /\ Cardinality(Spent(s)) \in Nat
        /\ Cardinality(Spent(m)) \in Nat
    BY SpentSize
  <1>2. /\ IsFiniteSet(Spent(s) \cup {t})
        /\ Cardinality(Spent(s) \cup {t}) <= Cardinality(Spent(s)) + 1
    BY <1>1, FS_AddElement
  <1>3. Cardinality(Spent(m)) <= Cardinality(Spent(s) \cup {t})
    BY <1>2, FS_Subset
  <1>4. Cardinality(Spent(s) \cup {t}) \in Nat
    BY <1>2, FS_CardinalityType
  <1> QED BY <1>1, <1>2, <1>3, <1>4

\* A status tells nothing of the calls.
LEMMA StatusCoherent ==
    ASSUME NEW s \in Snapshots, NEW m \in Snapshots, Coherent(s),
           m.turns = s.turns, m.kind = s.kind, m.n = s.n, m.refs = s.refs,
           m.res = s.res, m.led = s.led,
           \A t \in Turns : m.st[t] = "response_durable" =>
               s.st[t] = "response_durable" \/ s.kind[t] # "none",
           Cardinality(Spent(m)) <= MaxSteps
    PROVE  /\ Coherent(m) /\ Kept(s, m)
           /\ Terminates(m) <=> Terminates(s)
  <1>1. \A c \in Calls : Event(s, c) = Event(m, c)
    BY DEF Event
  <1>2. \A t \in Turns : Answered(s, t) <=> Answered(m, t)
    BY DEF Answered, HasResult, Event
  <1>3. TurnsInOrder(m)
    BY <1>2 DEF Coherent, TurnsInOrder
  <1>4. CallsInOrder(m)
    BY DEF Coherent, CallsInOrder, NextCall
  <1>5. Used(m) = Used(s)
    BY DEF Used
  <1>6. Kept(s, m)
    BY DEF Kept, Snapshots
  <1> QED BY <1>1, <1>3, <1>4, <1>5, <1>6, TerminatesAlike DEF Coherent, WithinBudgets

\* Once every call of the newest turn has its result, none is pending.
LEMMA NonePending ==
    ASSUME NEW s \in Snapshots, CallsInOrder(s),
           s.turns = 0 \/ Answered(s, s.turns)
    PROVE  \A c \in Calls : s.led[c] # "pending"
  <1> SUFFICES ASSUME NEW c \in Calls, s.led[c] = "pending" PROVE FALSE
    OBVIOUS
  <1>1. /\ c = NextCall(s) /\ c[2] <= s.n[c[1]]
        /\ c[1] \in Turns /\ c[2] \in 1..MaxOrd
    BY DEF CallsInOrder, Calls, Ordinals
  <1>2. c[1] = s.turns /\ c[2] = s.refs[s.turns] + 1 /\ c = <<c[1], c[2]>>
    BY <1>1 DEF NextCall
  <1>3. s.turns # 0 /\ s.n[s.turns] \in Nat /\ s.refs[s.turns] \in Nat
    BY <1>1, <1>2, LimitsAssumption DEF Turns, Snapshots
  <1>4. HasResult(s, c)
    BY <1>1, <1>2, <1>3, LimitsAssumption DEF Answered
  <1>5. s.res[c] = "none"
    BY <1>1, <1>2, <1>3 DEF CallsInOrder
  <1> QED BY <1>4, <1>5, OutcomesAssumption DEF HasResult, Event, Settled

LEMMA WriteRequestHistory == ASSUME HInv, WriteRequest PROVE HInv'
  <1> DEFINE t == mem.turns + 1
             m == [mem EXCEPT !.turns = t, !.st[t] = "request_durable"]
  <1>1. IInv /\ IInv'
    BY WriteRequestInductive DEF HInv
  <1>2. /\ CopiesOK /\ OthersOK /\ pc = "top" /\ left > 0 /\ left \in Nat
        /\ mem \in Snapshots /\ Coherent(mem) /\ Sound(mem)
        /\ mem.turns \in 0..MaxRequests /\ left + mem.turns <= MaxRequests
    <2>1. CopiesOK /\ OthersOK /\ pc = "top" /\ left > 0
      BY Working DEF WriteRequest
    <2> QED BY <1>1, <2>1, LimitsAssumption
            DEF HInv, IInv, CopiesOK, OthersOK, Snapshots
  <1>3. t \in Turns /\ t \in 0..MaxRequests
    BY <1>2, LimitsAssumption DEF Turns
  <1>4. /\ m \in Snapshots
        /\ m.seq = mem.seq /\ m.run = "running" /\ m.turns = t
        /\ m.st = [mem.st EXCEPT ![t] = "request_durable"]
        /\ m.kind = mem.kind /\ m.n = mem.n /\ m.refs = mem.refs
        /\ m.res = mem.res /\ m.led = mem.led
    <2> DEFINE g == [mem.st EXCEPT ![t] = "request_durable"]
    <2>1. g \in [Turns -> TurnStatus]
      BY <1>2 DEF Snapshots, TurnStatus
    <2>2. m = [mem EXCEPT !.turns = t, !.st = g]
      OBVIOUS
    <2> HIDE DEF m, t, g
    <2>3. /\ m \in Snapshots
          /\ m.seq = mem.seq /\ m.run = mem.run /\ m.turns = t /\ m.st = g
          /\ m.kind = mem.kind /\ m.n = mem.n /\ m.refs = mem.refs
          /\ m.res = mem.res /\ m.led = mem.led
      BY <1>2, <1>3, <2>1, <2>2 DEF Snapshots
    <2> QED BY <1>2, <2>3 DEF g, CopiesOK
  <1>5. TurnBoundary(m, "sending") /\ left' = left - 1
        /\ UNCHANGED <<Effects, Held, fresh, crashes>>
    BY DEF WriteRequest
  <1> HIDE DEF m
  <1>6. mem.turns = 0 \/ Answered(mem, mem.turns)
    BY <1>2 DEF HInv, Placed
  <1>7. mem.st \in [Turns -> TurnStatus] /\ mem.st[t] = "none"
    BY <1>2, <1>3 DEF Snapshots, Sound
  <1>8. Spent(m) = Spent(mem)
    BY <1>4, <1>7 DEF Spent
  <1>9. Coherent(m)
    <2>1. \A u \in Turns : Answered(mem, u) <=> Answered(m, u)
      BY <1>4 DEF Answered, HasResult, Event
    <2>2. \A u \in Turns : m.st[u] = "response_durable" => mem.st[u] = "response_durable"
      BY <1>3, <1>4, <1>7
    <2>3. \A u \in Turns : u < t => u < mem.turns \/ u = mem.turns
      BY <1>2 DEF Turns
    <2>4. TurnsInOrder(m)
      <3>1. ASSUME NEW u \in Turns, u > t PROVE mem.kind[u] = "none"
        BY <1>2, <3>1 DEF Coherent, TurnsInOrder, Turns
      <3>2. ASSUME NEW u \in Turns, u < t PROVE Answered(m, u)
        BY <1>2, <1>6, <2>1, <2>3, <3>2, LimitsAssumption DEF Coherent, TurnsInOrder, Turns
      <3> HIDE DEF t
      <3> QED BY <1>2, <1>4, <2>2, <3>1, <3>2 DEF Coherent, TurnsInOrder
    <2>5. \A c \in Calls : mem.led[c] # "pending"
      BY <1>2, <1>6, NonePending DEF Coherent
    <2>6. CallsInOrder(m)
      BY <1>2, <1>4, <2>5 DEF Coherent, CallsInOrder
    <2>7. Used(m) = Used(mem)
      BY <1>4 DEF Used
    <2> QED BY <1>2, <1>8, <2>4, <2>6, <2>7 DEF Coherent, WithinBudgets
  <1>10. Kept(mem, m)
    BY <1>2, <1>4 DEF Kept, Snapshots
  <1>11. Terminates(m) <=> Terminates(mem)
    BY <1>4, TerminatesAlike DEF Event
  <1>12. ASSUME pc' = "sending", Alike(m, mem')
         PROVE  Placed' /\ StepsLeft' /\ Unstopped'
    <2>1. mem'.turns = t /\ mem'.kind = mem.kind
      BY <1>4, <1>12 DEF Alike
    <2>2. mem.kind[t] = "none"
      BY <1>2, <1>3 DEF Coherent, TurnsInOrder
    <2>3. Placed'
      BY <1>12, <2>1, <2>2 DEF Placed, Asking, Calling
    <2>4. Spent(mem)' = Spent(mem)
      BY <1>8, <1>12 DEF Alike, Spent
    <2>5. left + Cardinality(Spent(mem)) <= MaxSteps /\ Cardinality(Spent(mem)) \in Nat
      BY <1>2, SpentSize DEF HInv, StepsLeft
    <2>6. StepsLeft'
      BY <1>2, <1>5, <1>12, <2>4, <2>5, LimitsAssumption DEF StepsLeft
    <2>7. ~Terminates(mem) /\ (Terminates(m) <=> Terminates(mem'))
      BY <1>2, <1>12, TerminatesAlike DEF HInv, Unstopped, Alike, Event
    <2>8. Unstopped'
      BY <1>11, <1>12, <2>7 DEF Unstopped
    <2> QED BY <2>3, <2>6, <2>8
  <1> QED BY <1>1, <1>2, <1>4, <1>5, <1>9, <1>10, <1>12, BoundaryPassed
          DEF Saving, InTurn

\* Moving the current turn to another status.
LEMMA TurnMarked ==
    ASSUME HInv, pc \in InTurn,
           NEW status \in TurnStatus \ {"none", "request_durable", "response_durable"},
           NEW m, m = [mem EXCEPT !.st[mem.turns] = status],
           \/ mem.st[mem.turns] \notin {"none", "request_durable"}
           \/ Cardinality(Spent(mem)) + 1 <= MaxSteps
    PROVE  /\ m \in Snapshots /\ Coherent(m) /\ Kept(mem, m)
           /\ m.run = mem.run /\ m.seq = mem.seq /\ m.turns = mem.turns
           /\ m.kind = mem.kind /\ m.n = mem.n /\ m.refs = mem.refs
           /\ m.res = mem.res /\ m.led = mem.led
           /\ Cardinality(Spent(m)) <= Cardinality(Spent(mem)) + 1
           /\ mem.st[mem.turns] \notin {"none", "request_durable"} => Spent(m) = Spent(mem)
           /\ Terminates(m) <=> Terminates(mem)
  <1>1. /\ mem \in Snapshots /\ Sound(mem) /\ Coherent(mem) /\ mem.turns \in Turns
    BY Working DEF HInv, IInv, CopiesOK, InTurn
  <1>2. /\ m \in Snapshots
        /\ m.run = mem.run /\ m.seq = mem.seq /\ m.turns = mem.turns
        /\ m.kind = mem.kind /\ m.n = mem.n /\ m.refs = mem.refs
        /\ m.res = mem.res /\ m.led = mem.led
        /\ m.st = [mem.st EXCEPT ![mem.turns] = status]
    BY <1>1, StatusEdit
  <1>3. \A u \in Turns : m.st[u] = IF u = mem.turns THEN status ELSE mem.st[u]
    BY <1>1, <1>2 DEF Snapshots
  <1>4. Spent(m) \subseteq Spent(mem) \cup {mem.turns}
    BY <1>3 DEF Spent
  <1>5. mem.st[mem.turns] \notin {"none", "request_durable"} => Spent(m) = Spent(mem)
    BY <1>1, <1>3 DEF Spent
  <1>6. /\ Cardinality(Spent(mem)) \in Nat /\ Cardinality(Spent(m)) \in Nat
        /\ Cardinality(Spent(m)) <= Cardinality(Spent(mem)) + 1
    BY <1>4, SpentStep
  <1>7. Cardinality(Spent(m)) <= MaxSteps
    BY <1>1, <1>5, <1>6, LimitsAssumption DEF Coherent, WithinBudgets
  <1>8. \A u \in Turns : m.st[u] = "response_durable" =>
            mem.st[u] = "response_durable" \/ mem.kind[u] # "none"
    BY <1>3
  <1>9. Coherent(m) /\ Kept(mem, m) /\ (Terminates(m) <=> Terminates(mem))
    BY ONLY <1>1, <1>2, <1>7, <1>8, StatusCoherent
  <1> QED BY <1>2, <1>5, <1>6, <1>9

\* A turn that was asked is spent.
LEMMA AskedIsSpent ==
    ASSUME HInv, mem.turns \in Turns, invoked \in [Turns -> Nat],
           mem.kind[mem.turns] # "none" \/ invoked[mem.turns] = 1
    PROVE  mem.st[mem.turns] \notin {"none", "request_durable"}
  <1>1. Coherent(mem) /\ Announced(mem)
    BY DEF HInv, IInv, Sound
  <1>2. invoked[mem.turns] = 1
    BY <1>1 DEF Coherent, TurnsInOrder
  <1> QED BY <1>1, <1>2 DEF Announced

LEMMA SendRequestHistory == ASSUME HInv, SendRequest PROVE HInv'
  <1> DEFINE m == [mem EXCEPT !.st[mem.turns] = "request_sent"]
  <1>1. IInv /\ IInv'
    BY SendRequestInductive DEF HInv
  <1>2. /\ pc = "sending" /\ mem.run = "running"
        /\ TurnBoundary(m, "invoking") /\ UNCHANGED <<Effects, Held, Process>>
    BY <1>1 DEF SendRequest, IInv
  <1>3. /\ left + Cardinality(Spent(mem)) + 1 <= MaxSteps
        /\ left \in Nat /\ Cardinality(Spent(mem)) \in Nat
    BY <1>1, <1>2, SpentSize, LimitsAssumption
       DEF HInv, StepsLeft, InTurn, IInv, TypeOK
  <1>4. Cardinality(Spent(mem)) + 1 <= MaxSteps
    BY <1>3, LimitsAssumption
  <1>5. /\ m \in Snapshots /\ Coherent(m) /\ Kept(mem, m)
        /\ m.run = mem.run /\ m.seq = mem.seq /\ m.turns = mem.turns
        /\ m.kind = mem.kind
        /\ Cardinality(Spent(m)) <= Cardinality(Spent(mem)) + 1
        /\ Terminates(m) <=> Terminates(mem)
    BY <1>2, <1>4, TurnMarked DEF TurnStatus, InTurn
  <1> HIDE DEF m
  <1>6. ASSUME pc' = "invoking", Alike(m, mem')
        PROVE  Placed' /\ StepsLeft' /\ Unstopped'
    <2>1. mem'.turns = mem.turns /\ mem'.kind = mem.kind
      BY <1>5, <1>6 DEF Alike
    <2>2. Placed'
      BY <1>2, <1>6, <2>1 DEF HInv, Placed, Asking, Calling
    <2>3. Spent(mem') = Spent(m) /\ Cardinality(Spent(m)) \in Nat
      BY <1>6, SpentSize DEF Alike, Spent
    <2>4. left' = left /\ left' + Cardinality(Spent(m)) <= MaxSteps
      BY <1>2, <1>3, <1>5, <2>3, LimitsAssumption DEF Process
    <2>5. StepsLeft'
      BY <1>3, <1>6, <2>3, <2>4 DEF StepsLeft
    <2>6. ~Terminates(mem) /\ (Terminates(m) <=> Terminates(mem'))
      BY <1>2, <1>6, TerminatesAlike DEF HInv, Unstopped, Alike, Event, Asking
    <2>7. Unstopped'
      BY <1>5, <1>6, <2>6 DEF Unstopped
    <2> QED BY <2>2, <2>5, <2>7
  <1> QED BY <1>1, <1>2, <1>5, <1>6, BoundaryPassed DEF Saving, InTurn

\* An effect leaves the copies as they are, and coherent.
LEMMA EffectHistory ==
    ASSUME HInv, pc = "invoking", IInv',
           invoked' = [invoked EXCEPT ![mem.turns] = @ + 1]
    PROVE  /\ mem.turns \in Turns /\ invoked \in [Turns -> Nat]
           /\ invoked'[mem.turns] = 1
           /\ \A t \in Turns : invoked[t] = 1 => invoked'[t] = 1
  <1>1. /\ mem.turns \in Turns /\ invoked \in [Turns -> Nat]
        /\ invoked[mem.turns] = 0
    BY DEF HInv, IInv, TypeOK, InTurn
  <1> QED BY <1>1

LEMMA InvokeHistory == ASSUME HInv, Invoke PROVE HInv'
  <1>1. IInv /\ IInv'
    BY InvokeInductive DEF HInv
  <1>2. /\ pc = "invoking" /\ pc' = "obtained"
        /\ invoked' = [invoked EXCEPT ![mem.turns] = @ + 1]
        /\ UNCHANGED <<db, mem, cursor, ran, out, Process, faults>>
        /\ resp'.kind # "none" /\ (resp'.kind # "tools" => resp'.n = 0)
    BY DEF Invoke
  <1>3. /\ mem.turns \in Turns /\ invoked'[mem.turns] = 1
        /\ \A t \in Turns : invoked[t] = 1 => invoked'[t] = 1
    BY <1>1, <1>2, EffectHistory
  <1>4. Histories /\ Ahead /\ VerdictOK
    BY <1>2, Working DEF Saving, InTurn
  <1>5. Coherent(db)' /\ Coherent(mem)' /\ Coherent(cursor)'
    BY <1>2, <1>3, <1>4, CoherentCopies DEF Histories
  <1>6. Histories' /\ Ahead' /\ VerdictOK'
    BY <1>2, <1>4, <1>5 DEF Histories, Ahead, Kept, VerdictOK, Final
  <1>7. Placed'
    BY <1>2, <1>3 DEF HInv, Placed, Asking, Calling
  <1>8. StepsLeft'
    BY <1>2 DEF HInv, StepsLeft, Spent, Process, InTurn
  <1>9. Unstopped'
    BY <1>2, TerminatesAlike DEF HInv, Unstopped, Asking
  <1> QED BY <1>1, <1>2, <1>6, <1>7, <1>8, <1>9, Staying DEF InTurn

LEMMA InvokeFailsHistory == ASSUME HInv, InvokeFails PROVE HInv'
  <1> DEFINE m == [mem EXCEPT !.st[mem.turns] = "failed"]
  <1>1. IInv /\ IInv'
    BY InvokeFailsInductive DEF HInv
  <1>2. /\ pc = "invoking" /\ pc' = "failing" /\ mem' = m
        /\ invoked' = [invoked EXCEPT ![mem.turns] = @ + 1]
        /\ faults' = faults + 1
        /\ UNCHANGED <<db, cursor, ran, Held, Process>>
    BY DEF InvokeFails, Fault
  <1>3. \A t \in Turns : invoked[t] = 1 => invoked'[t] = 1
    BY <1>1, <1>2, EffectHistory
  <1>4. /\ CopiesOK /\ Histories /\ Ahead /\ VerdictOK /\ faults \in Nat
    BY <1>2, Working DEF Saving, InTurn
  <1>5. mem.st[mem.turns] = "request_sent"
    BY <1>1, <1>2 DEF IInv
  <1>6. m \in Snapshots /\ Coherent(m) /\ Kept(mem, m)
    BY <1>2, <1>5, TurnMarked DEF TurnStatus, InTurn
  <1>7. Kept(db, m) /\ Kept(cursor, m)
    BY <1>4, <1>6, AheadOn
  <1> HIDE DEF m
  <1>8. Coherent(db)' /\ Coherent(mem)' /\ Coherent(cursor)'
    BY <1>2, <1>3, <1>4, <1>6, CoherentCopies DEF Histories
  <1>9. Histories' /\ Ahead' /\ VerdictOK'
    BY <1>2, <1>4, <1>7, <1>8 DEF Histories, Ahead, Kept, VerdictOK, Final
  <1> QED BY <1>1, <1>2, <1>9, Leaving

LEMMA ObtainResponseHistory == ASSUME HInv, ObtainResponse PROVE HInv'
  <1> DEFINE m == [mem EXCEPT !.st[mem.turns] = "response_obtained"]
  <1>1. IInv /\ IInv'
    BY ObtainResponseInductive DEF HInv
  <1>2. /\ pc = "obtained" /\ mem.run = "running" /\ mem.turns \in Turns
        /\ invoked \in [Turns -> Nat] /\ invoked[mem.turns] = 1
        /\ TurnBoundary(m, "storing") /\ UNCHANGED <<Effects, Held, Process>>
    BY <1>1 DEF ObtainResponse, HInv, Placed, IInv, TypeOK, InTurn
  <1>3. mem.st[mem.turns] \notin {"none", "request_durable"}
    BY <1>2, AskedIsSpent
  <1>4. /\ m \in Snapshots /\ Coherent(m) /\ Kept(mem, m)
        /\ m.run = mem.run /\ m.seq = mem.seq /\ m.turns = mem.turns
        /\ m.kind = mem.kind /\ Spent(m) = Spent(mem)
        /\ Terminates(m) <=> Terminates(mem)
    BY <1>2, <1>3, TurnMarked DEF TurnStatus, InTurn
  <1> HIDE DEF m
  <1>5. ASSUME pc' = "storing", Alike(m, mem')
        PROVE  Placed' /\ StepsLeft' /\ Unstopped'
    <2>1. mem'.turns = mem.turns /\ mem'.kind = mem.kind
      BY <1>4, <1>5 DEF Alike
    <2>2. Placed'
      BY <1>2, <1>5, <2>1 DEF HInv, Placed, Asking, Calling, Effects, Held
    <2>3. Spent(mem') = Spent(mem)
      BY <1>4, <1>5 DEF Alike, Spent
    <2>4. StepsLeft'
      BY <1>2, <1>5, <2>3 DEF HInv, StepsLeft, Process, InTurn
    <2>5. ~Terminates(mem) /\ (Terminates(m) <=> Terminates(mem'))
      BY <1>2, <1>5, TerminatesAlike DEF HInv, Unstopped, Alike, Event, Asking
    <2>6. Unstopped'
      BY <1>4, <1>5, <2>5 DEF Unstopped
    <2> QED BY <2>2, <2>4, <2>6
  <1> QED BY <1>1, <1>2, <1>4, <1>5, BoundaryPassed DEF Saving, InTurn

\* The response is recorded with the status that lets it be used again.
LEMMA StoreResponseHistory == ASSUME HInv, StoreResponse PROVE HInv'
  <1> DEFINE t == mem.turns
             f == [mem.st EXCEPT ![t] = "response_durable"]
             g == [mem.kind EXCEPT ![t] = resp.kind]
             h == [mem.n EXCEPT ![t] = resp.n]
             m == [mem EXCEPT !.st = f, !.kind = g, !.n = h]
  <1>1. IInv /\ IInv'
    BY StoreResponseInductive DEF HInv
  <1>2. /\ pc = "storing" /\ mem.run = "running" /\ t \in Turns
        /\ mem \in Snapshots /\ Coherent(mem) /\ resp \in Responses
        /\ invoked \in [Turns -> Nat] /\ invoked[t] = 1
        /\ resp.kind # "none" /\ (resp.kind # "tools" => resp.n = 0)
        /\ mem.kind[t] = "none"
    BY <1>1 DEF StoreResponse, HInv, Placed, Asking, IInv, TypeOK, InTurn
  <1>3. TurnBoundary(m, "dispatch") /\ UNCHANGED <<Effects, Process>>
    BY DEF StoreResponse
  <1>4. /\ f \in [Turns -> TurnStatus] /\ g \in [Turns -> Kinds]
        /\ h \in [Turns -> 0..MaxOrd]
    BY <1>2 DEF Snapshots, Responses, TurnStatus
  <1>5. \A u \in Turns : /\ f[u] = IF u = t THEN "response_durable" ELSE mem.st[u]
                         /\ g[u] = IF u = t THEN resp.kind ELSE mem.kind[u]
                         /\ h[u] = IF u = t THEN resp.n ELSE mem.n[u]
    BY <1>2 DEF Snapshots
  <1>6. mem.st[t] \notin {"none", "request_durable"}
    BY <1>2, AskedIsSpent
  <1> HIDE DEF f, g, h
  <1>7. /\ m \in Snapshots
        /\ m.seq = mem.seq /\ m.run = "running" /\ m.turns = t
        /\ m.st = f /\ m.kind = g /\ m.n = h /\ m.refs = mem.refs
        /\ m.res = mem.res /\ m.led = mem.led
    BY <1>2, <1>4 DEF Snapshots
  <1> HIDE DEF m
  <1>8. /\ mem.n[t] = 0 /\ mem.refs[t] = 0 /\ resp.n \in Nat
        /\ \A c \in Calls : c[1] = t => mem.res[c] = "none" /\ mem.led[c] = "none"
    <2>1. mem.n[t] = 0 /\ mem.refs[t] \in Nat /\ mem.refs[t] <= mem.n[t]
      BY <1>2, LimitsAssumption DEF Coherent, TurnsInOrder, Snapshots
    <2>2. \A c \in Calls : c[2] \in Nat \ {0}
      BY LimitsAssumption DEF Calls, Ordinals
    <2>3. resp.n \in Nat
      BY <1>2, LimitsAssumption DEF Responses
    <2>4. mem.refs[t] = 0
      BY <2>1
    <2>5. ASSUME NEW c \in Calls, c[1] = t
          PROVE  mem.res[c] = "none" /\ mem.led[c] = "none"
      BY <1>2, <2>1, <2>2, <2>4, <2>5 DEF Coherent, CallsInOrder
    <2> QED BY <2>1, <2>3, <2>4, <2>5
  <1>9. Spent(m) = Spent(mem) /\ Used(m) = Used(mem)
    BY <1>5, <1>6, <1>7 DEF Spent, Used
  <1>10. TurnsInOrder(m)
    <2>1. t \in Nat /\ \A u \in Turns : u \in Nat
      BY <1>2, LimitsAssumption DEF Turns
    <2>2. \A u \in Turns : u < t => Answered(m, u)
      BY <1>2, <1>5, <1>7, <2>1 DEF Coherent, TurnsInOrder, Answered, HasResult, Event
    <2>3. \A u \in Turns : u > t => m.kind[u] = "none"
      BY <1>2, <1>5, <1>7, <2>1 DEF Coherent, TurnsInOrder
    <2>4. ASSUME NEW u \in Turns
          PROVE  /\ m.kind[u] # "none" => invoked[u] = 1
                 /\ m.st[u] = "response_durable" => m.kind[u] # "none"
                 /\ m.kind[u] # "tools" => m.n[u] = 0
                 /\ m.refs[u] <= m.n[u]
      <3>1. CASE u = t
        BY <1>2, <1>5, <1>7, <1>8, <3>1
      <3>2. CASE u # t
        BY <1>2, <1>5, <1>7, <3>2 DEF Coherent, TurnsInOrder
      <3> QED BY <3>1, <3>2
    <2> QED BY <1>7, <2>2, <2>3, <2>4 DEF TurnsInOrder
  <1>11. CallsInOrder(m)
    <2>1. NextCall(m) = NextCall(mem)
      BY <1>7 DEF NextCall
    <2>2. \A c \in Calls : c[1] \in Turns
      BY DEF Calls
    <2> QED BY <1>2, <1>5, <1>7, <1>8, <2>1, <2>2 DEF Coherent, CallsInOrder
  <1>12. Coherent(m)
    BY <1>2, <1>9, <1>10, <1>11 DEF Coherent, WithinBudgets
  <1>13. Kept(mem, m)
    BY <1>2, <1>5, <1>7 DEF Kept, Snapshots
  <1>14. Terminates(m) <=> Terminates(mem)
    BY <1>7, TerminatesAlike DEF Event
  <1>15. ASSUME pc' = "dispatch", Alike(m, mem')
         PROVE  Placed' /\ StepsLeft' /\ Unstopped'
    <2>1. mem'.turns = t /\ mem'.kind[t] = resp.kind
      BY <1>2, <1>5, <1>7, <1>15 DEF Alike
    <2>2. Placed'
      BY <1>2, <1>15, <2>1 DEF Placed, Asking, Calling
    <2>3. Spent(mem') = Spent(mem)
      BY <1>9, <1>15 DEF Alike, Spent
    <2>4. StepsLeft'
      BY <1>2, <1>3, <1>15, <2>3 DEF HInv, StepsLeft, Process, InTurn
    <2>5. ~Terminates(mem) /\ (Terminates(m) <=> Terminates(mem'))
      BY <1>2, <1>15, TerminatesAlike DEF HInv, Unstopped, Alike, Event, Asking
    <2>6. Unstopped'
      BY <1>14, <1>15, <2>5 DEF Unstopped
    <2> QED BY <2>2, <2>4, <2>6
  <1> QED BY <1>1, <1>2, <1>3, <1>7, <1>12, <1>13, <1>15, BoundaryPassed DEF Saving, InTurn

\* The cursor of a loop that ends with a final answer has it.
LEMMA AcceptFinalHistory == ASSUME HInv, AcceptFinal PROVE HInv'
  <1> DEFINE a == [mem EXCEPT !.st[mem.turns] = "completed"]
             m == [a EXCEPT !.term = "completed"]
  <1>1. IInv /\ IInv'
    BY AcceptFinalInductive DEF HInv
  <1>2. /\ pc = "dispatch" /\ mem.run = "running" /\ mem.turns \in Turns
        /\ mem.kind[mem.turns] = "final" /\ mem \in Snapshots
        /\ invoked \in [Turns -> Nat]
        /\ Publish([mem EXCEPT !.st[mem.turns] = "completed", !.term = "completed"],
                   "completing", "failing")
        /\ UNCHANGED Effects
    BY <1>1 DEF AcceptFinal, IInv, TypeOK, InTurn
  <1>3. Publish(m, "completing", "failing")
    BY <1>2 DEF Snapshots
  <1>4. /\ CopiesOK /\ Histories /\ Ahead /\ VerdictOK
        /\ faults \in Nat /\ mem.seq >= db.seq
    BY <1>2, Working DEF Saving, InTurn
  <1>5. mem.st[mem.turns] \notin {"none", "request_durable"}
    BY <1>2, AskedIsSpent
  <1>6. /\ a \in Snapshots /\ Coherent(a) /\ Kept(mem, a)
        /\ a.run = mem.run /\ a.seq = mem.seq /\ a.turns = mem.turns
        /\ a.kind = mem.kind
    BY <1>2, <1>5, TurnMarked DEF TurnStatus, InTurn
  <1> HIDE DEF a
  <1>7. /\ m \in Snapshots /\ m.seq = mem.seq /\ m.run = "running" /\ Alike(a, m)
        /\ m.turns = mem.turns /\ m.kind = mem.kind
    BY <1>2, <1>6 DEF Snapshots, Alike
  <1> HIDE DEF m
  <1>8. Coherent(m) /\ Kept(mem, m)
    BY <1>2, <1>6, <1>7, CoherentAlike, KeptAlike, KeptOn
  <1>9. Kept(db, m) /\ Kept(cursor, m)
    BY <1>4, <1>7, <1>8, AheadOn
  <1>10. /\ Histories' /\ Ahead' /\ pc' \in {"completing", "failing"}
         /\ db' \in {db, Projected(m)}
         /\ pc' = "completing" => cursor' = Projected(m) \/ pc' = "failing"
    BY <1>2, <1>3, <1>4, <1>7, <1>8, <1>9, PublishHistory
  <1>11. VerdictOK'
    BY <1>4, <1>7, <1>10, VerdictKept
  <1>12. pc' = "completing" => Final(cursor)'
    <2>1. Projected(m).turns = mem.turns /\ Projected(m).kind = mem.kind
      BY <1>7, ProjectedFields
    <2>2. mem.turns > 0
      BY <1>2, LimitsAssumption DEF Turns
    <2> QED BY <1>2, <1>10, <2>1, <2>2 DEF Final
  <1> QED BY <1>1, <1>10, <1>11, <1>12, Leaving

\* The turn is marked failed in the working state only.
LEMMA MarkFailedHistory ==
    ASSUME HInv, IInv', pc \in {"dispatch", "uncertain"},
           mem' = [mem EXCEPT !.st[mem.turns] = "failed"],
           pc' \in {"failing", "aborting"},
           UNCHANGED <<db, cursor, Effects, faults>>
    PROVE  HInv'
  <1> DEFINE m == [mem EXCEPT !.st[mem.turns] = "failed"]
  <1>1. /\ CopiesOK /\ Histories /\ Ahead /\ VerdictOK
    BY Working DEF Saving, InTurn
  <1>2. /\ mem.turns \in Turns /\ invoked \in [Turns -> Nat]
        /\ mem.kind[mem.turns] # "none"
    BY DEF HInv, IInv, TypeOK, InTurn, Placed, Calling
  <1>3. mem.st[mem.turns] \notin {"none", "request_durable"}
    BY <1>2, AskedIsSpent
  <1>4. m \in Snapshots /\ Coherent(m) /\ Kept(mem, m) /\ mem' = m
    BY <1>3, TurnMarked DEF TurnStatus, InTurn
  <1> HIDE DEF m
  <1>5. Kept(db, m) /\ Kept(cursor, m)
    BY <1>1, <1>4, AheadOn
  <1>6. Coherent(db)' /\ Coherent(mem)' /\ Coherent(cursor)'
    BY <1>1, <1>4, CoherentCopies DEF Histories, Effects
  <1>7. Histories' /\ Ahead' /\ VerdictOK'
    BY <1>1, <1>4, <1>5, <1>6 DEF Histories, Ahead, Kept, VerdictOK, Final
  <1> QED BY <1>7, Leaving

\* A step that changes only where the process is and what it holds.
LEMMA QuietHistory ==
    ASSUME HInv, IInv', pc \in Saving,
           UNCHANGED <<db, mem, cursor, Effects, left>>,
           faults' = faults \/ faults' = faults + 1,
           pc' \in InTurn \cup {"top", "failing"},
           pc' # "failing" => Placed' /\ StepsLeft' /\ Unstopped'
    PROVE  HInv'
  <1>1. Histories /\ Ahead /\ VerdictOK /\ faults \in Nat
    BY Working DEF Saving, InTurn
  <1>2. Coherent(db)' /\ Coherent(mem)' /\ Coherent(cursor)'
    BY <1>1, CoherentCopies DEF Histories, Effects
  <1>3. Histories' /\ Ahead' /\ VerdictOK'
    BY <1>1, <1>2 DEF Histories, Ahead, Kept, VerdictOK, Final
  <1>4. CASE pc' = "failing"
    BY <1>3, <1>4, Leaving
  <1>5. CASE pc' # "failing"
    BY <1>3, <1>5, Staying
  <1> QED BY <1>4, <1>5

LEMMA ArtifactFailsHistory == ASSUME HInv, IInv', ArtifactFails PROVE HInv'
  BY QuietHistory DEF ArtifactFails, Fault, Process, Saving, InTurn

LEMMA AcceptToolsHistory == ASSUME HInv, IInv', AcceptTools PROVE HInv'
  <1>1. /\ pc = "dispatch" /\ pc' = "binding" /\ mem.kind[mem.turns] = "tools"
        /\ UNCHANGED <<db, mem, cursor, Effects, left, faults>>
    BY DEF AcceptTools, Process
  <1>2. Placed'
    BY <1>1 DEF Placed, Asking, Calling
  <1>3. StepsLeft'
    BY <1>1 DEF HInv, StepsLeft, InTurn
  <1>4. Unstopped'
    BY <1>1, TerminatesAlike DEF HInv, Unstopped, Asking
  <1> QED BY <1>1, <1>2, <1>3, <1>4, QuietHistory DEF Saving, InTurn

LEMMA BindProposalHistory == ASSUME HInv, BindProposal PROVE HInv'
  <1>1. IInv /\ IInv'
    BY BindProposalInductive DEF HInv
  <1>2. /\ pc = "binding" /\ mem.run = "running" /\ mem \in Snapshots
        /\ Coherent(mem) /\ mem.kind[mem.turns] = "tools"
        /\ ToolBoundary(mem, "calls") /\ UNCHANGED <<Effects, Process>>
    BY <1>1 DEF BindProposal, HInv, Placed, Calling, IInv, TypeOK
  <1>3. Kept(mem, mem)
    BY <1>2, KeptAlike DEF Alike
  <1>4. ASSUME pc' = "calls", Alike(mem, mem')
        PROVE  Placed' /\ StepsLeft' /\ Unstopped'
    <2>1. Placed'
      BY <1>2, <1>4 DEF Placed, Asking, Calling, Alike
    <2>2. StepsLeft'
      BY <1>2, <1>4 DEF HInv, StepsLeft, Alike, Spent, Process, InTurn
    <2>3. Terminates(mem) <=> Terminates(mem')
      BY <1>4, TerminatesAlike DEF Alike, Event
    <2>4. Unstopped'
      BY <1>2, <1>4, <2>3 DEF HInv, Unstopped, Asking, Alike
    <2> QED BY <2>1, <2>2, <2>4
  <1> QED BY <1>1, <1>2, <1>3, <1>4, BoundaryPassed DEF Saving, InTurn

\* Before the next turn the policy is asked about the whole proposal.
LEMMA ProposalDoneHistory == ASSUME HInv, IInv', ProposalDone PROVE HInv'
  <1>1. /\ pc = "calls" /\ mem.refs[mem.turns] = mem.n[mem.turns]
        /\ pc' \in {"failing", "top"} /\ (pc' = "top" => ~Terminates(mem))
        /\ UNCHANGED <<db, mem, cursor, Effects, left, faults>>
    BY DEF ProposalDone, Process
  <1>2. ASSUME pc' = "top" PROVE Placed' /\ StepsLeft' /\ Unstopped'
    <2>1. /\ mem \in Snapshots /\ Coherent(mem) /\ mem.turns \in Turns
          /\ mem.kind[mem.turns] = "tools"
      BY <1>1 DEF HInv, IInv, TypeOK, Placed, Calling, InTurn
    <2>2. Answered(mem, mem.turns)
      BY <1>1, <2>1, TurnAnswered DEF Coherent
    <2>3. Placed'
      BY <1>1, <1>2, <2>2 DEF Placed, Asking, Calling, Answered, HasResult, Event
    <2>4. StepsLeft'
      BY <1>1, <1>2 DEF HInv, StepsLeft, InTurn
    <2>5. Unstopped'
      BY <1>1, <1>2, TerminatesAlike DEF Unstopped, Asking
    <2> QED BY <2>3, <2>4, <2>5
  <1> QED BY <1>1, <1>2, QuietHistory DEF Saving, InTurn

-----------------------------------------------------------------------------
(* The steps of a call.                                                    *)

LEMMA UsedStep ==
    ASSUME NEW s, NEW m, NEW c, Used(m) \subseteq Used(s) \cup {c}
    PROVE  /\ Cardinality(Used(s)) \in Nat /\ Cardinality(Used(m)) \in Nat
           /\ Cardinality(Used(m)) <= Cardinality(Used(s)) + 1
  <1>1. IsFiniteSet(Calls)
    <2>1. IsFiniteSet(Turns) /\ IsFiniteSet(Ordinals)
      BY FS_Interval, LimitsAssumption DEF Turns, Ordinals
    <2> QED BY <2>1, FS_Product DEF Calls
  <1>2. IsFiniteSet(Used(s)) /\ IsFiniteSet(Used(m))
    BY <1>1, FS_Subset DEF Used
  <1>3. Cardinality(Used(s)) \in Nat /\ Cardinality(Used(m)) \in Nat
    BY <1>2, FS_CardinalityType
  <1>4. /\ IsFiniteSet(Used(s) \cup {c})
        /\ Cardinality(Used(s) \cup {c}) <= Cardinality(Used(s)) + 1
    BY <1>2, <1>3, FS_AddElement
  <1>5. /\ Cardinality(Used(m)) <= Cardinality(Used(s) \cup {c})
        /\ Cardinality(Used(s) \cup {c}) \in Nat
    BY <1>4, FS_Subset, FS_CardinalityType
  <1> QED BY <1>3, <1>4, <1>5

\* What HInv says at a call.
LEMMA AtCallHistory ==
    ASSUME HInv, NEW c \in Calls, AtCall(c)
    PROVE  /\ pc = "calls" /\ c = NextCall(mem)
           /\ mem \in Snapshots /\ mem.run = "running" /\ mem.turns \in Turns
           /\ mem.refs[mem.turns] < mem.n[mem.turns]
           /\ mem.refs[mem.turns] \in Nat /\ mem.n[mem.turns] \in Nat
           /\ Coherent(mem) /\ ~Terminates(mem) /\ mem.kind[mem.turns] = "tools"
  <1>1. /\ pc = "calls" /\ c = NextCall(mem)
        /\ mem \in Snapshots /\ mem.run = "running" /\ mem.turns \in Turns
        /\ mem.refs[mem.turns] < mem.n[mem.turns]
        /\ Coherent(mem) /\ mem.kind[mem.turns] = "tools"
    BY DEF AtCall, HInv, IInv, TypeOK, InTurn, Placed, Calling
  <1>2. mem.refs[mem.turns] \in Nat /\ mem.n[mem.turns] \in Nat
    BY <1>1, LimitsAssumption DEF Snapshots
  <1>3. ~Terminates(mem)
    BY <1>1, <1>2 DEF HInv, Unstopped
  <1> QED BY <1>1, <1>2, <1>3

\* A result was found or made without the executor.
LEMMA ResultHistory ==
    ASSUME HInv, IInv', NEW c \in Calls, AtCall(c),
           out' # "none", mem.led[c] \in {"none", out'}, pc' = "keeping",
           UNCHANGED <<db, mem, cursor, Effects, Process, faults>>
    PROVE  HInv'
  <1>1. pc = "calls" /\ c = NextCall(mem) /\ mem.kind[mem.turns] = "tools"
    BY AtCallHistory
  <1>2. Placed'
    BY <1>1 DEF Placed, Asking, Calling, NextCall
  <1>3. StepsLeft'
    BY <1>1 DEF HInv, StepsLeft, Process, InTurn
  <1>4. Unstopped'
    BY DEF Unstopped, Asking
  <1> QED BY <1>1, <1>2, <1>3, <1>4, QuietHistory DEF Process, Saving, InTurn

\* A call takes its place in the ledger while there is budget for it.
LEMMA BeginCallHistory == ASSUME HInv, NEW c \in Calls, BeginCall(c) PROVE HInv'
  <1> DEFINE f == [mem.led EXCEPT ![c] = "pending"]
             m == [mem EXCEPT !.led = f]
  <1>1. IInv /\ IInv'
    BY BeginCallInductive DEF HInv
  <1>2. /\ pc = "calls" /\ c = NextCall(mem)
        /\ mem \in Snapshots /\ mem.run = "running" /\ mem.turns \in Turns
        /\ mem.refs[mem.turns] < mem.n[mem.turns]
        /\ mem.refs[mem.turns] \in Nat /\ mem.n[mem.turns] \in Nat
        /\ Coherent(mem) /\ ~Terminates(mem) /\ mem.kind[mem.turns] = "tools"
        /\ mem.led[c] = "none" /\ Cardinality(Used(mem)) < MaxCalls
    BY AtCallHistory DEF BeginCall, Eligible
  <1>3. /\ CopiesOK /\ Histories /\ Ahead /\ VerdictOK
        /\ faults \in Nat /\ mem.seq >= db.seq
    BY <1>2, Working DEF Saving, InTurn
  <1>4. f \in [Calls -> LedgerStatus]
        /\ \A d \in Calls : f[d] = IF d = c THEN "pending" ELSE mem.led[d]
    BY <1>2 DEF Snapshots, LedgerStatus
  <1>5. Publish(m, "running", "uncertain") /\ UNCHANGED <<Effects, Held, Process>>
    BY DEF BeginCall
  <1> HIDE DEF f
  <1>6. /\ m \in Snapshots
        /\ m.seq = mem.seq /\ m.run = "running" /\ m.turns = mem.turns
        /\ m.st = mem.st /\ m.kind = mem.kind /\ m.n = mem.n
        /\ m.refs = mem.refs /\ m.res = mem.res /\ m.led = f
    BY <1>2, <1>4 DEF Snapshots
  <1> HIDE DEF m
  <1>7. \A d \in Calls : Event(mem, d) = Event(m, d)
    BY <1>2, <1>4, <1>6, OutcomesAssumption DEF Event, Settled
  <1>8. Cardinality(Used(m)) <= MaxCalls /\ Spent(m) = Spent(mem)
    <2>1. Used(m) \subseteq Used(mem) \cup {c}
      BY <1>4, <1>6 DEF Used
    <2>2. Spent(m) = Spent(mem)
      BY <1>6 DEF Spent
    <2> QED BY <1>2, <2>1, <2>2, UsedStep, LimitsAssumption
  <1>9. TurnsInOrder(m)
    <2>1. \A t \in Turns : Answered(mem, t) <=> Answered(m, t)
      <3>1. \A t \in Turns : \A o \in 1..mem.n[t] : <<t, o>> \in Calls
        BY <1>2, LimitsAssumption DEF Snapshots, Calls, Ordinals
      <3> QED BY <1>6, <1>7, <3>1 DEF Answered, HasResult
    <2> QED BY <1>2, <1>6, <2>1 DEF Coherent, TurnsInOrder
  <1>10. CallsInOrder(m)
    <2>1. c[1] = mem.turns /\ c[2] = mem.refs[mem.turns] + 1 /\ NextCall(m) = c
      BY <1>2, <1>6 DEF NextCall
    <2>2. /\ c[2] <= mem.n[c[1]] /\ c[2] <= mem.refs[c[1]] + 1
          /\ ~(c[2] <= mem.refs[c[1]])
      BY <1>2, <2>1
    <2> QED BY <1>2, <1>4, <1>6, <2>1, <2>2 DEF Coherent, CallsInOrder
  <1>11. Coherent(m)
    BY <1>2, <1>8, <1>9, <1>10 DEF Coherent, WithinBudgets
  <1>12. Kept(mem, m)
    BY <1>2, <1>4, <1>6, OutcomesAssumption DEF Kept, Snapshots, Settled
  <1>13. Kept(db, m) /\ Kept(cursor, m)
    BY <1>3, <1>6, <1>12, AheadOn
  <1>14. /\ Histories' /\ Ahead' /\ Alike(m, mem')
         /\ db' \in {db, Projected(m)}
         /\ pc' \in {"running", "uncertain"}
    BY <1>3, <1>5, <1>6, <1>11, <1>13, PublishHistory
  <1>15. VerdictOK'
    BY <1>3, <1>6, <1>14, VerdictKept
  <1>16. Placed'
    BY <1>2, <1>6, <1>14 DEF Placed, Asking, Calling, Alike
  <1>17. StepsLeft'
    <2>1. Spent(mem') = Spent(mem)
      BY <1>8, <1>14 DEF Alike, Spent
    <2> QED BY <1>2, <1>5, <1>14, <2>1 DEF HInv, StepsLeft, Process, InTurn
  <1>18. Unstopped'
    <2>1. Terminates(m) <=> Terminates(mem')
      BY <1>14, TerminatesAlike DEF Alike, Event
    <2>2. Terminates(m) <=> Terminates(mem)
      BY <1>7, TerminatesAlike
    <2> QED BY <1>2, <1>14, <2>1, <2>2 DEF Unstopped, Asking
  <1> QED BY <1>1, <1>14, <1>15, <1>16, <1>17, <1>18, Staying DEF InTurn

LEMMA RunExecutorHistory == ASSUME HInv, RunExecutor PROVE HInv'
  <1>1. IInv /\ IInv'
    BY RunExecutorInductive DEF HInv
  <1>2. /\ pc = "running" /\ pc' = "settling"
        /\ UNCHANGED <<db, mem, cursor, invoked, Process, faults>>
    BY DEF RunExecutor
  <1>3. Histories /\ Ahead /\ VerdictOK
    BY <1>2, Working DEF Saving, InTurn
  <1>4. Coherent(db)' /\ Coherent(mem)' /\ Coherent(cursor)'
    BY <1>2, <1>3, CoherentCopies DEF Histories
  <1>5. Histories' /\ Ahead' /\ VerdictOK'
    BY <1>2, <1>3, <1>4 DEF Histories, Ahead, Kept, VerdictOK, Final
  <1>6. mem.led[NextCall(mem)] = "pending" /\ mem.kind[mem.turns] = "tools"
    BY <1>1, <1>2 DEF IInv, HInv, Placed, Calling
  <1>7. Placed'
    BY <1>2, <1>6 DEF Placed, Asking, Calling, NextCall
  <1>8. StepsLeft'
    BY <1>2 DEF HInv, StepsLeft, Spent, Process, InTurn
  <1>9. Unstopped'
    BY <1>2 DEF Unstopped, Asking
  <1> QED BY <1>1, <1>2, <1>5, <1>7, <1>8, <1>9, Staying DEF InTurn

\* The outcome of the call takes the place of its pending record.
LEMMA SettleCallHistory == ASSUME HInv, SettleCall PROVE HInv'
  <1> DEFINE c == NextCall(mem)
             f == [mem.led EXCEPT ![c] = out]
             m == [mem EXCEPT !.led = f]
  <1>1. IInv /\ IInv'
    BY SettleCallInductive DEF HInv
  <1>2. /\ pc = "settling" /\ mem \in Snapshots /\ mem.run = "running"
        /\ mem.turns \in Turns /\ mem.refs[mem.turns] < mem.n[mem.turns]
        /\ Coherent(mem) /\ mem.kind[mem.turns] = "tools"
        /\ mem.led[c] = "pending" /\ out \in ToolOutcomes
    BY <1>1 DEF SettleCall, HInv, IInv, TypeOK, InTurn, AtOneCall, Placed, Calling
  <1>3. /\ CopiesOK /\ Histories /\ Ahead /\ VerdictOK
        /\ faults \in Nat /\ mem.seq >= db.seq
    BY <1>2, Working DEF Saving, InTurn
  <1>4. c \in Calls /\ out \notin {"none", "pending"}
    BY <1>2, NextCallIsCall, OutcomesAssumption
  <1>5. f \in [Calls -> LedgerStatus]
        /\ \A d \in Calls : f[d] = IF d = c THEN out ELSE mem.led[d]
    BY <1>2, <1>4 DEF Snapshots, LedgerStatus, Settled
  <1>6. Publish(m, "keeping", "uncertain") /\ UNCHANGED <<Effects, Held, Process>>
    BY DEF SettleCall
  <1> HIDE DEF f
  <1>7. /\ m \in Snapshots
        /\ m.seq = mem.seq /\ m.run = "running" /\ m.turns = mem.turns
        /\ m.st = mem.st /\ m.kind = mem.kind /\ m.n = mem.n
        /\ m.refs = mem.refs /\ m.res = mem.res /\ m.led = f
    BY <1>2, <1>5 DEF Snapshots
  <1> HIDE DEF m
  <1>8. NextCall(m) = c
    BY <1>7 DEF NextCall
  <1>9. mem.res[c] = "none"
    <2>1. c[1] = mem.turns /\ c[2] = mem.refs[mem.turns] + 1
      BY DEF NextCall
    <2>2. mem.refs[mem.turns] \in Nat
      BY <1>2, LimitsAssumption DEF Snapshots
    <2>3. ~(c[2] <= mem.refs[c[1]])
      BY <2>1, <2>2
    <2> QED BY <1>2, <1>4, <2>3 DEF Coherent, CallsInOrder
  <1> HIDE DEF c
  <1>10. ASSUME NEW d \in Calls PROVE HasResult(mem, d) => HasResult(m, d)
    <2>1. CASE d = c
      BY <1>2, <1>5, <1>7, <1>9, <2>1, OutcomesAssumption DEF HasResult, Event, Settled
    <2>2. CASE d # c
      BY <1>5, <1>7, <2>2 DEF HasResult, Event
    <2> QED BY <2>1, <2>2
  <1>11. Used(m) = Used(mem) /\ Spent(m) = Spent(mem)
    BY <1>2, <1>4, <1>5, <1>7 DEF Used, Spent
  <1>12. TurnsInOrder(m)
    <2>1. \A t \in Turns : \A o \in 1..mem.n[t] : <<t, o>> \in Calls
      BY <1>2, LimitsAssumption DEF Snapshots, Calls, Ordinals
    <2>2. \A t \in Turns : Answered(mem, t) => Answered(m, t)
      BY <1>7, <1>10, <2>1 DEF Answered
    <2> QED BY <1>2, <1>7, <2>2 DEF Coherent, TurnsInOrder
  <1>13. CallsInOrder(m)
    BY <1>2, <1>4, <1>5, <1>7, <1>8, <1>9 DEF Coherent, CallsInOrder, c
  <1>14. Coherent(m)
    BY <1>2, <1>11, <1>12, <1>13 DEF Coherent, WithinBudgets
  <1>15. Kept(mem, m)
    BY <1>2, <1>5, <1>7, OutcomesAssumption DEF Kept, Snapshots, Settled
  <1>16. Kept(db, m) /\ Kept(cursor, m)
    BY <1>3, <1>7, <1>15, AheadOn
  <1>17. /\ Histories' /\ Ahead' /\ Alike(m, mem')
         /\ db' \in {db, Projected(m)}
         /\ pc' \in {"keeping", "uncertain"}
    BY <1>3, <1>6, <1>7, <1>14, <1>16, PublishHistory
  <1>18. VerdictOK'
    BY <1>3, <1>7, <1>17, VerdictKept
  <1>19. Placed'
    <2>1. NextCall(mem') = c /\ mem'.led[c] = out /\ mem'.kind[mem'.turns] = "tools"
      BY <1>2, <1>4, <1>5, <1>7, <1>8, <1>17 DEF Alike, NextCall
    <2> QED BY <1>4, <1>6, <1>17, <2>1 DEF Placed, Asking, Calling, Held
  <1>20. StepsLeft'
    <2>1. Spent(mem') = Spent(mem)
      BY <1>11, <1>17 DEF Alike, Spent
    <2> QED BY <1>2, <1>6, <1>17, <2>1 DEF HInv, StepsLeft, Process, InTurn
  <1>21. Unstopped'
    BY <1>17 DEF Unstopped, Asking
  <1> QED BY <1>1, <1>17, <1>18, <1>19, <1>20, <1>21, Staying DEF InTurn

\* The result is kept, and the policy asked, before the next call.
LEMMA KeepResultHistory == ASSUME HInv, KeepResult PROVE HInv'
  <1> DEFINE t == mem.turns
             c == NextCall(mem)
             done == mem.refs[t] + 1 = mem.n[t]
             status == IF done THEN "tool_results_durable" ELSE "tool_results_partial"
             f == [mem.res EXCEPT ![c] = out]
             g == [mem.refs EXCEPT ![t] = @ + 1]
             h == [mem.st EXCEPT ![t] = status]
             m == [mem EXCEPT !.res = f, !.refs = g, !.st = h]
             next == IF Terminates(m) THEN "failing" ELSE "calls"
  <1>1. IInv /\ IInv'
    BY KeepResultInductive DEF HInv
  <1>2. /\ pc = "keeping" /\ mem \in Snapshots /\ mem.run = "running"
        /\ t \in Turns /\ mem.refs[t] < mem.n[t]
        /\ Coherent(mem) /\ mem.kind[t] = "tools"
        /\ out # "none" /\ mem.led[c] \in {"none", out}
        /\ out \in Results \cup {"none"} /\ invoked \in [Turns -> Nat]
    BY <1>1 DEF KeepResult, HInv, IInv, TypeOK, InTurn, AtOneCall, Placed, Calling
  <1>3. /\ c \in Calls /\ mem.refs[t] + 1 \in 0..MaxOrd /\ out # "pending"
        /\ c[1] = t /\ c[2] = mem.refs[t] + 1
        /\ \A u \in Turns : mem.refs[u] \in Nat /\ mem.n[u] \in Nat
        /\ \A d \in Calls : d[2] \in Nat /\ d[1] \in Turns /\ d = <<d[1], d[2]>>
    <2>1. c \in Calls /\ mem.refs[t] + 1 \in 0..MaxOrd
      BY <1>2, NextCallIsCall
    <2>2. out # "pending"
      BY <1>2, OutcomesAssumption DEF Results
    <2>3. \A u \in Turns : mem.refs[u] \in Nat /\ mem.n[u] \in Nat
      BY <1>2, LimitsAssumption DEF Snapshots
    <2>4. \A d \in Calls : d[2] \in Nat /\ d[1] \in Turns /\ d = <<d[1], d[2]>>
      BY LimitsAssumption DEF Calls, Ordinals
    <2> QED BY <2>1, <2>2, <2>3, <2>4 DEF NextCall
  <1>4. mem.st[t] \notin {"none", "request_durable"}
    BY <1>2, AskedIsSpent
  <1>5. /\ ToolBoundary(m, next) /\ UNCHANGED <<Effects, Process>>
        /\ status \in TurnStatus \ {"none", "request_durable", "response_durable"}
        /\ next \in {"failing", "calls"} /\ (next = "calls" => ~Terminates(m))
    BY DEF KeepResult, TurnStatus
  <1> HIDE DEF status, next
  <1>6. /\ f \in [Calls -> Results \cup {"none"}]
        /\ g \in [Turns -> 0..MaxOrd] /\ h \in [Turns -> TurnStatus]
    BY <1>2, <1>3, <1>5 DEF Snapshots
  <1>7. /\ \A d \in Calls : f[d] = IF d = c THEN out ELSE mem.res[d]
        /\ \A u \in Turns : /\ g[u] = IF u = t THEN mem.refs[t] + 1 ELSE mem.refs[u]
                            /\ h[u] = IF u = t THEN status ELSE mem.st[u]
    BY <1>2, <1>3 DEF Snapshots
  <1> HIDE DEF f, g, h
  <1>8. /\ m \in Snapshots
        /\ m.seq = mem.seq /\ m.run = "running" /\ m.turns = t
        /\ m.st = h /\ m.kind = mem.kind /\ m.n = mem.n
        /\ m.refs = g /\ m.res = f /\ m.led = mem.led
    BY <1>2, <1>6 DEF Snapshots
  <1> HIDE DEF m, c
  <1>9. \A d \in Calls : HasResult(mem, d) => HasResult(m, d)
    BY <1>2, <1>7, <1>8 DEF HasResult, Event
  <1>10. Used(m) = Used(mem) /\ Spent(m) = Spent(mem)
    BY <1>2, <1>4, <1>5, <1>7, <1>8 DEF Used, Spent
  <1>11. TurnsInOrder(m)
    <2>1. \A u \in Turns : \A o \in 1..mem.n[u] : <<u, o>> \in Calls
      BY <1>2, LimitsAssumption DEF Snapshots, Calls, Ordinals
    <2>2. \A u \in Turns : Answered(mem, u) => Answered(m, u)
      BY <1>8, <1>9, <2>1 DEF Answered
    <2>3. \A u \in Turns : m.st[u] = "response_durable" => mem.st[u] = "response_durable"
      BY <1>5, <1>7, <1>8
    <2>4. ASSUME NEW u \in Turns PROVE m.refs[u] <= m.n[u]
      BY <1>2, <1>3, <1>7, <1>8 DEF Coherent, TurnsInOrder
    <2> QED BY <1>2, <1>8, <2>2, <2>3, <2>4 DEF Coherent, TurnsInOrder
  <1>12. CallsInOrder(m)
    <2> SUFFICES ASSUME NEW d \in Calls
                 PROVE  /\ m.res[d] # "none" <=> d[2] <= m.refs[d[1]]
                        /\ m.led[d] # "none" => d[2] <= m.n[d[1]] /\ d[2] <= m.refs[d[1]] + 1
                        /\ m.led[d] # "pending"
                        /\ m.led[d] # "none" /\ m.res[d] # "none" => m.res[d] = m.led[d]
      BY DEF CallsInOrder
    <2>1. CASE d = c
      <3>1. m.res[d] = out /\ m.refs[d[1]] = d[2] /\ m.led[d] \in {"none", out}
        BY <1>2, <1>3, <1>7, <1>8, <2>1
      <3>2. d[2] <= m.n[d[1]]
        BY <1>2, <1>3, <1>8, <2>1
      <3> QED BY <1>2, <1>3, <3>1, <3>2
    <2>2. CASE d # c
      <3>1. d[1] = t => d[2] # mem.refs[t] + 1
        BY <1>3, <2>2
      <3>2. m.res[d] = mem.res[d] /\ m.led[d] = mem.led[d] /\ m.n = mem.n
        BY <1>7, <1>8, <2>2
      <3>3. d[2] <= m.refs[d[1]] <=> d[2] <= mem.refs[d[1]]
        BY <1>2, <1>3, <1>7, <1>8, <3>1
      <3>4. m.refs[d[1]] \in Nat /\ m.refs[d[1]] >= mem.refs[d[1]]
        BY <1>2, <1>3, <1>7, <1>8
      <3>5. /\ mem.res[d] # "none" <=> d[2] <= mem.refs[d[1]]
            /\ mem.led[d] # "none" => d[2] <= mem.n[d[1]] /\ d[2] <= mem.refs[d[1]] + 1
            /\ mem.led[d] # "pending"
            /\ mem.led[d] # "none" /\ mem.res[d] # "none" => mem.res[d] = mem.led[d]
        BY <1>2, <2>2 DEF Coherent, CallsInOrder, c
      <3> QED BY <1>3, <3>2, <3>3, <3>4, <3>5
    <2> QED BY <2>1, <2>2
  <1>13. Coherent(m)
    BY <1>2, <1>10, <1>11, <1>12 DEF Coherent, WithinBudgets
  <1>14. Kept(mem, m)
    <2>1. ~(c[2] <= mem.refs[c[1]])
      BY <1>2, <1>3
    <2>2. mem.res[c] = "none"
      BY <1>2, <1>3, <2>1 DEF Coherent, CallsInOrder
    <2>3. \A u \in Turns : m.refs[u] >= mem.refs[u]
      BY <1>2, <1>3, <1>7, <1>8
    <2> QED BY <1>7, <1>8, <2>2, <2>3 DEF Kept
  <1>15. ASSUME pc' = next, next # "failing", Alike(m, mem')
         PROVE  Placed' /\ StepsLeft' /\ Unstopped'
    <2>1. pc' = "calls" /\ ~Terminates(m)
      BY <1>5, <1>15
    <2>2. Placed'
      BY <1>2, <1>8, <1>15, <2>1 DEF Placed, Asking, Calling, Alike
    <2>3. Spent(mem') = Spent(mem)
      BY <1>10, <1>15 DEF Alike, Spent
    <2>4. StepsLeft'
      BY <1>2, <1>5, <2>1, <2>3 DEF HInv, StepsLeft, Process, InTurn
    <2>5. Terminates(m) <=> Terminates(mem')
      BY <1>15, TerminatesAlike DEF Alike, Event
    <2>6. Unstopped'
      BY <2>1, <2>5 DEF Unstopped, Asking
    <2> QED BY <2>2, <2>4, <2>6
  <1> QED BY <1>1, <1>2, <1>5, <1>8, <1>13, <1>14, <1>15, BoundaryPassed
          DEF Saving, InTurn

\* The steps of execute_tool_proposal for one call.
LEMMA CallStepHistory == ASSUME HInv, IInv', CallStep PROVE HInv'
  <1> PICK c \in Calls : \/ StopStalled(c) \/ ReuseLedger(c)
                         \/ ReuseSearch(c) \/ RefuseCall(c) \/ BeginCall(c)
    BY DEF CallStep
  <1>1. CASE StopStalled(c)
    BY <1>1, QuietHistory DEF StopStalled, AtCall, Process, Saving, InTurn
  <1>2. CASE ReuseLedger(c) \/ ReuseSearch(c) \/ RefuseCall(c)
    <2>1. /\ AtCall(c) /\ pc' = "keeping"
          /\ UNCHANGED <<db, mem, cursor, Effects, Process, faults>>
      BY <1>2 DEF ReuseLedger, ReuseSearch, RefuseCall
    <2>2. out' # "none" /\ mem.led[c] \in {"none", out'}
      BY <1>2, OutcomesAssumption DEF ReuseLedger, ReuseSearch, RefuseCall, Settled
    <2> QED BY <2>1, <2>2, ResultHistory
  <1>3. CASE BeginCall(c)
    BY <1>3, BeginCallHistory
  <1> QED BY <1>1, <1>2, <1>3

-----------------------------------------------------------------------------
(* The end of the loop and of the process.                                 *)

\* The loop saves its verdict and leaves.
LEMMA VerdictHistory ==
    ASSUME HInv, IInv', pc \in {"top", "failing"},
           NEW term \in {"failed", "budget_exhausted"},
           NEW onError \in {"aborting", "failing"},
           Publish([mem EXCEPT !.term = term], "aborting", onError),
           UNCHANGED Effects
    PROVE  HInv'
  <1> DEFINE m == [mem EXCEPT !.term = term]
  <1>1. /\ CopiesOK /\ Histories /\ Ahead /\ VerdictOK
        /\ faults \in Nat /\ mem.seq >= db.seq
    BY Working DEF Saving
  <1>2. mem \in Snapshots /\ mem.run = "running"
    BY <1>1 DEF CopiesOK
  <1>3. m \in Snapshots /\ m.seq = mem.seq /\ m.run = "running" /\ Alike(mem, m)
    BY <1>2 DEF Snapshots, Alike
  <1>4. Publish(m, "aborting", onError)
    OBVIOUS
  <1> HIDE DEF m
  <1>5. Coherent(m) /\ Kept(mem, m)
    BY <1>1, <1>2, <1>3, CoherentAlike, KeptAlike DEF Histories
  <1>6. Kept(db, m) /\ Kept(cursor, m)
    BY <1>1, <1>3, <1>5, AheadOn
  <1>7. /\ Histories' /\ Ahead' /\ db' \in {db, Projected(m)}
        /\ pc' \in {"aborting", onError}
    BY <1>1, <1>3, <1>4, <1>5, <1>6, PublishHistory
  <1>8. VerdictOK'
    BY <1>1, <1>3, <1>7, VerdictKept
  <1> QED BY <1>7, <1>8, Leaving

\* The engine closes the run with the history its cursor holds.
LEMMA ClosedHistory ==
    ASSUME HInv, NEW verdict \in {"completed", "failed"},
           verdict = "completed" => Fallback \/ Final(cursor),
           Acknowledged(Closed(verdict)) \/ Raised(Closed(verdict)),
           UNCHANGED Effects
    PROVE  /\ Coherent(db)' /\ VerdictOK'
           /\ faults' = 0 => Kept(db', cursor)
  <1> DEFINE row == Closed(verdict)
  <1>1. /\ db \in Snapshots /\ cursor \in Snapshots /\ faults \in Nat
        /\ Coherent(db) /\ Coherent(cursor) /\ Coherent(mem) /\ VerdictOK
        /\ faults = 0 => Kept(db, cursor)
    BY LimitsAssumption DEF HInv, IInv, TypeOK, Advancing
  <1>2. Alike(cursor, row) /\ row \in Snapshots /\ row.run = verdict
    BY <1>1, ClosedAlike, ClosedFields
  <1>3. db' \in {db, row} /\ faults' \in {faults, faults + 1}
    BY DEF Acknowledged, Raised, Newest, Fault
  <1> HIDE DEF row
  <1>4. Coherent(row) /\ Kept(row, cursor)
    BY <1>1, <1>2, CoherentAlike, KeptAlike
  <1>5. Coherent(db)'
    <2>1. ASSUME db' = db PROVE Coherent(db)'
      BY <1>1, <2>1 DEF Coherent, TurnsInOrder, CallsInOrder, WithinBudgets, Answered,
                  HasResult, Event, NextCall, Used, Spent, Effects
    <2>2. ASSUME db' = row PROVE Coherent(db)'
      BY <1>4, <2>2 DEF Coherent, TurnsInOrder, CallsInOrder, WithinBudgets, Answered,
                  HasResult, Event, NextCall, Used, Spent, Effects
    <2> QED BY <1>3, <2>1, <2>2
  <1>6. VerdictOK'
    <2>1. Final(cursor) => Final(row)
      BY <1>2 DEF Final, Alike
    <2> QED BY <1>1, <1>2, <1>3, <2>1 DEF VerdictOK, Final
  <1>7. faults' = 0 => Kept(db', cursor)
    BY <1>1, <1>3, <1>4
  <1> QED BY <1>5, <1>6, <1>7

\* A process is gone: what is left of the state is the newest checkpoint.
LEMMA EndedHistory ==
    ASSUME IInv', Gone, Coherent(db)', VerdictOK'
    PROVE  HInv'
  <1>1. pc' = "off" /\ mem' = db' /\ cursor' = db' /\ db' \in Snapshots
    BY DEF Gone, IInv, TypeOK
  <1>2. Coherent(mem)' /\ Coherent(cursor)'
    BY <1>1 DEF Coherent, TurnsInOrder, CallsInOrder, WithinBudgets, Answered,
                HasResult, Event, NextCall, Used, Spent
  <1>3. Kept(db', cursor')
    BY <1>1, KeptAlike DEF Alike
  <1>4. Advancing'
    BY <1>1, <1>3 DEF Advancing, Saving, InTurn
  <1>5. Placed' /\ StepsLeft' /\ Unstopped'
    BY <1>1 DEF Placed, StepsLeft, Unstopped, InTurn, Asking, Calling
  <1> QED BY <1>2, <1>4, <1>5 DEF HInv

\* The process is gone and has saved nothing on its way out.
LEMMA GoneHistory ==
    ASSUME HInv, IInv', Gone, UNCHANGED <<db, Effects>>
    PROVE  HInv'
  <1>1. Coherent(db)' /\ VerdictOK'
    BY DEF HInv, Coherent, TurnsInOrder, CallsInOrder, WithinBudgets, Answered,
           HasResult, Event, NextCall, Used, Spent, Effects, VerdictOK, Final
  <1> QED BY <1>1, EndedHistory

\* The process is still there, and will only close the run.
LEMMA ClosingHistory ==
    ASSUME HInv, IInv', UNCHANGED <<mem, cursor, Effects>>,
           Coherent(db)', VerdictOK', faults' = 0 => Kept(db', cursor),
           pc' \in {"tracing", "rescuing"}
    PROVE  HInv'
  <1>1. Coherent(mem)' /\ Coherent(cursor)'
    BY DEF HInv, Coherent, TurnsInOrder, CallsInOrder, WithinBudgets, Answered,
           HasResult, Event, NextCall, Used, Spent, Effects
  <1>2. Histories'
    BY <1>1 DEF Histories, Kept
  <1> QED BY <1>2, Leaving

LEMMA FinishHistory ==
    ASSUME HInv, IInv', NEW verdict \in {"completed", "failed"},
           verdict = "completed" => Fallback \/ Final(cursor),
           Finish(verdict), UNCHANGED Effects
    PROVE  HInv'
  <1>1. /\ Coherent(db)' /\ VerdictOK'
        /\ faults' = 0 => Kept(db', cursor)
    BY ClosedHistory DEF Finish
  <1>2. CASE pc' \in {"tracing", "rescuing"} /\ UNCHANGED <<mem, cursor>>
    BY <1>1, <1>2, ClosingHistory
  <1>3. CASE Gone
    BY <1>1, <1>3, EndedHistory
  <1> QED BY <1>2, <1>3 DEF Finish

LEMMA TraceFailsHistory == ASSUME HInv, IInv', TraceFails PROVE HInv'
  <1>1. CASE pc' = "rescuing" /\ UNCHANGED <<mem, cursor>>
    <2>1. UNCHANGED <<db, Effects>> /\ faults' = faults + 1 /\ faults \in Nat
      BY LimitsAssumption DEF TraceFails, Fault, HInv, IInv, TypeOK
    <2>2. Coherent(db)' /\ VerdictOK'
      BY <2>1 DEF HInv, Coherent, TurnsInOrder, CallsInOrder, WithinBudgets, Answered,
             HasResult, Event, NextCall, Used, Spent, Effects, VerdictOK, Final
    <2> QED BY <1>1, <2>1, <2>2, ClosingHistory
  <1>2. CASE Gone
    BY <1>2, GoneHistory DEF TraceFails
  <1> QED BY <1>1, <1>2 DEF TraceFails

LEMMA RescueHistory == ASSUME HInv, IInv', Rescue PROVE HInv'
  <1>1. /\ Acknowledged(Closed("failed")) \/ Raised(Closed("failed"))
        /\ Gone /\ UNCHANGED Effects
    BY DEF Rescue
  <1>2. Coherent(db)' /\ VerdictOK'
    BY <1>1, ClosedHistory
  <1> QED BY <1>1, <1>2, EndedHistory

-----------------------------------------------------------------------------
(* The theorems.                                                           *)

\* Every step, and doing nothing, preserves the invariant.
LEMMA NextHistory == HInv /\ [Next]_vars => HInv'
  <1> SUFFICES ASSUME HInv, [Next]_vars PROVE HInv'
    OBVIOUS
  <1>0. IInv /\ IInv'
    BY NextInductive DEF HInv
  <1>1. CASE Start
    BY <1>1, StartHistory
  <1>2. CASE Resume
    BY <1>2, ResumeHistory
  <1>3. CASE Crash
    BY <1>0, <1>3, GoneHistory DEF Crash
  <1>4. CASE Step
    <2>1. CASE WriteRequest
      BY <2>1, WriteRequestHistory
    <2>2. CASE ExhaustSteps
      BY <1>0, <2>2, VerdictHistory DEF ExhaustSteps
    <2>3. CASE ArtifactFails
      BY <1>0, <2>3, ArtifactFailsHistory
    <2>4. CASE SendRequest
      BY <2>4, SendRequestHistory
    <2>5. CASE Invoke
      BY <2>5, InvokeHistory
    <2>6. CASE InvokeFails
      BY <2>6, InvokeFailsHistory
    <2>7. CASE ObtainResponse
      BY <2>7, ObtainResponseHistory
    <2>8. CASE StoreResponse
      BY <2>8, StoreResponseHistory
    <2>9. CASE AcceptFinal
      BY <2>9, AcceptFinalHistory
    <2>10. CASE AcceptError
      BY <1>0, <2>10, MarkFailedHistory DEF AcceptError
    <2>11. CASE AcceptTools
      BY <1>0, <2>11, AcceptToolsHistory
    <2>12. CASE BindProposal
      BY <2>12, BindProposalHistory
    <2>13. CASE ProposalDone
      BY <1>0, <2>13, ProposalDoneHistory
    <2>14. CASE CallStep
      BY <1>0, <2>14, CallStepHistory
    <2>15. CASE RunExecutor
      BY <2>15, RunExecutorHistory
    <2>16. CASE SettleCall
      BY <2>16, SettleCallHistory
    <2>17. CASE StopUncertain
      BY <1>0, <2>17, MarkFailedHistory DEF StopUncertain
    <2>18. CASE KeepResult
      BY <2>18, KeepResultHistory
    <2>19. CASE FailLoop
      BY <1>0, <2>19, VerdictHistory DEF FailLoop
    <2>20. CASE FinishAnswered
      <3>1. Final(cursor)
        BY <2>20 DEF FinishAnswered, HInv, Placed
      <3> QED BY <1>0, <2>20, <3>1, FinishHistory DEF FinishAnswered
    <2>21. CASE FinishFailed
      BY <1>0, <2>21, FinishHistory DEF FinishFailed
    <2>22. CASE Trace
      BY <1>0, <2>22, GoneHistory DEF Trace
    <2>23. CASE TraceFails
      BY <1>0, <2>23, TraceFailsHistory
    <2>24. CASE Rescue
      BY <1>0, <2>24, RescueHistory
    <2> QED BY <1>4, <2>1, <2>2, <2>3, <2>4, <2>5, <2>6, <2>7, <2>8, <2>9,
               <2>10, <2>11, <2>12, <2>13, <2>14, <2>15, <2>16, <2>17, <2>18,
               <2>19, <2>20, <2>21, <2>22, <2>23, <2>24 DEF Step
  <1>5. CASE UNCHANGED vars
    <2>1. UNCHANGED <<db, mem, cursor, pc, left, resp, out, invoked, faults>>
      BY <1>5 DEF vars
    <2>2. Coherent(db)' /\ Coherent(mem)' /\ Coherent(cursor)'
      BY <2>1, CoherentCopies DEF HInv
    <2>3. Advancing' /\ VerdictOK' /\ Placed'
      BY <2>1 DEF HInv, Advancing, Kept, VerdictOK, Final, Placed, Answered, HasResult,
                  Event, NextCall
    <2>4. StepsLeft'
      BY <2>1 DEF HInv, StepsLeft, Spent
    <2>5. Terminates(mem) <=> Terminates(mem')
      BY <2>1
    <2>6. Unstopped'
      BY <2>1, <2>5 DEF HInv, Unstopped
    <2> QED BY <1>0, <2>2, <2>3, <2>4, <2>6 DEF HInv
  <1> QED BY <1>1, <1>2, <1>3, <1>4, <1>5 DEF Next

\* In every reachable state each copy of the run's state is a coherent history
\* of turns and calls within its budgets, the loop never works on a state that
\* has forgotten what a save would write over, and the recovery policy has been
\* asked wherever an effect is next.
THEOREM HistoryInductive == Spec => []HInv
  BY InitHistory, NextHistory, PTL DEF Spec

\* All processes of a run together send no more requests than the step and
\* request budgets allow, and run no more tools than the call policy does.
THEOREM BudgetsAreHeld == Spec => []BudgetsHold
  <1>1. ASSUME HInv PROVE BudgetsHold
    <2> DEFINE asked == {t \in Turns : invoked[t] > 0}
               called == {c \in Calls : ran[c] > 0}
    <2>1. /\ Announced(db) /\ WithinBudgets(db) /\ MaxCalls \in Nat
          /\ MaxSteps \in Nat /\ MaxRequests \in Nat
      BY <1>1, LimitsAssumption DEF HInv, IInv, Sound, Coherent
    <2>2. asked \subseteq Spent(db) /\ called \subseteq Used(db)
      BY <2>1 DEF Announced, Spent, Used
    <2>3. IsFiniteSet(Turns) /\ Cardinality(Turns) = MaxRequests
      BY <2>1, FS_Interval DEF Turns
    <2>4. IsFiniteSet(Calls)
      <3>1. IsFiniteSet(Ordinals)
        BY FS_Interval, LimitsAssumption DEF Ordinals
      <3> QED BY <2>3, <3>1, FS_Product DEF Calls
    <2>5. IsFiniteSet(Spent(db)) /\ IsFiniteSet(Used(db))
      BY <2>3, <2>4, FS_Subset DEF Spent, Used
    <2>6. /\ Cardinality(asked) <= Cardinality(Spent(db))
          /\ Cardinality(called) <= Cardinality(Used(db))
      BY <2>2, <2>5, FS_Subset
    <2>7. Cardinality(asked) <= MaxRequests
      BY <2>3, FS_Subset
    <2>8. /\ Cardinality(asked) \in Nat /\ Cardinality(called) \in Nat
          /\ Cardinality(Spent(db)) \in Nat /\ Cardinality(Used(db)) \in Nat
      BY <2>2, <2>5, FS_Subset, FS_CardinalityType
    <2> HIDE DEF asked, called
    <2>9. /\ Cardinality(asked) <= Least(MaxSteps, MaxRequests)
          /\ Cardinality(called) <= MaxCalls
      BY <2>1, <2>6, <2>7, <2>8 DEF WithinBudgets, Least
    <2> QED BY <2>9 DEF BudgetsHold, asked, called
  <1> QED BY <1>1, HistoryInductive, PTL

\* A call that ran has the results of the calls before it in the newest
\* checkpoint, and a turn that was sent has those of the whole previous turn.
THEOREM EffectsRestOnResults == Spec => []ResultsBeforeProgress
  <1>1. ASSUME HInv PROVE ResultsBeforeProgress
    <2>1. /\ Announced(db) /\ TurnsInOrder(db) /\ CallsInOrder(db)
          /\ \A t \in Turns : t > db.turns => db.st[t] = "none"
          /\ db \in Snapshots
      BY <1>1 DEF HInv, IInv, TypeOK, Sound, Coherent
    <2>2. ASSUME NEW c \in Calls, ran[c] > 0, NEW o \in 1..(c[2] - 1)
          PROVE  HasResult(db, <<c[1], o>>)
      <3>1. c[2] <= db.refs[c[1]] + 1
        BY <2>1, <2>2 DEF Announced, CallsInOrder
      <3>2. c[1] \in Turns /\ c[2] \in 1..MaxOrd /\ db.refs[c[1]] \in Nat
        BY <2>1, LimitsAssumption DEF Calls, Ordinals, Snapshots
      <3>3. o <= db.refs[c[1]] /\ o \in 1..MaxOrd
        BY <3>1, <3>2, LimitsAssumption
      <3>4. <<c[1], o>> \in Calls
        BY <3>2, <3>3 DEF Calls, Ordinals
      <3>5. db.res[<<c[1], o>>] # "none"
        BY <2>1, <3>3, <3>4 DEF CallsInOrder
      <3> QED BY <3>5 DEF HasResult, Event
    <2>3. ASSUME NEW t \in Turns, t > 1, invoked[t] > 0
          PROVE  Answered(db, t - 1)
      <3>1. db.st[t] # "none"
        BY <2>1, <2>3 DEF Announced
      <3>2. t - 1 \in Turns /\ t - 1 < db.turns
        BY <2>1, <2>3, <3>1, LimitsAssumption DEF Turns, Snapshots
      <3> QED BY <2>1, <3>2 DEF TurnsInOrder
    <2> QED BY <2>2, <2>3 DEF ResultsBeforeProgress
  <1> QED BY <1>1, HistoryInductive, PTL

\* Of a workflow that completes only with the loop's answer: a completed run
\* has a final answer that was requested once, complete proposals before it,
\* no call of unknown outcome, and results that agree with the ledger.
THEOREM CompletedRunsAreSettled ==
    ASSUME Fallback = FALSE
    PROVE  Spec => []CompletedIsSettled
  <1>1. ASSUME HInv PROVE CompletedIsSettled
    <2> SUFFICES ASSUME db.run = "completed"
                 PROVE  /\ db.turns > 0
                        /\ db.kind[db.turns] = "final"
                        /\ invoked[db.turns] = 1
                        /\ \A t \in 1..(db.turns - 1) : Answered(db, t)
                        /\ Pending(db) = {}
                        /\ \A c \in Calls : db.led[c] # "none" /\ db.res[c] # "none"
                                            => db.res[c] = db.led[c]
      BY DEF CompletedIsSettled
    <2>1. db \in Snapshots /\ TurnsInOrder(db) /\ CallsInOrder(db) /\ Final(db)
      BY <1>1 DEF HInv, IInv, TypeOK, Coherent, VerdictOK
    <2>2. db.turns > 0 /\ db.kind[db.turns] = "final" /\ db.turns \in Turns
      BY <2>1, LimitsAssumption DEF Final, Snapshots, Turns
    <2>3. invoked[db.turns] = 1
      BY <2>1, <2>2 DEF TurnsInOrder
    <2>4. \A t \in 1..(db.turns - 1) : t \in Turns /\ t < db.turns
      BY <2>2, LimitsAssumption DEF Turns
    <2>5. \A t \in 1..(db.turns - 1) : Answered(db, t)
      BY <2>1, <2>4 DEF TurnsInOrder
    <2>6. Pending(db) = {}
      <3> SUFFICES ASSUME NEW c \in Calls, db.led[c] = "pending" PROVE FALSE
        BY DEF Pending
      <3>1. c[1] = db.turns /\ c[2] <= db.n[c[1]] /\ c[2] \in 1..MaxOrd
        BY <2>1 DEF CallsInOrder, NextCall, Calls, Ordinals
      <3>2. db.n[db.turns] = 0
        BY <2>1, <2>2 DEF TurnsInOrder
      <3> QED BY <3>1, <3>2, LimitsAssumption
    <2> QED BY <2>1, <2>2, <2>3, <2>5, <2>6 DEF CallsInOrder
  <1> QED BY <1>1, HistoryInductive, PTL

-----------------------------------------------------------------------------
(* What no step does.                                                      *)

\* A row that forgets nothing of the working state forgets nothing of what it
\* is saved over.
LEMMA RowKept ==
    ASSUME HInv, pc \in Saving, db' \in Snapshots, Kept(mem, db')
    PROVE  Kept(cursor, db') /\ Kept(db, db')
  <1>1. db \in Snapshots /\ mem \in Snapshots /\ cursor \in Snapshots
    BY DEF HInv, IInv, TypeOK
  <1>2. Kept(db, mem) /\ Kept(cursor, mem)
    BY DEF HInv, Advancing
  <1> QED BY <1>1, <1>2, KeptOn

LEMMA RowSaved ==
    ASSUME NEW m, NEW next, NEW onError, db' # db,
           Publish(m, next, onError) \/ TurnBoundary(m, next) \/ ToolBoundary(m, next)
    PROVE  db' = Projected(m)
  BY DEF Publish, Commit, TurnBoundary, ToolBoundary, Acknowledged, Raised, Newest

\* A row that records only a status or a pending call.
LEMMA QuietRowKept ==
    ASSUME mem \in Snapshots, db' \in Snapshots, db'.kind = mem.kind,
           db'.refs = mem.refs, db'.res = mem.res,
           \A c \in Calls : mem.led[c] \in Settled => db'.led[c] = mem.led[c]
    PROVE  Kept(mem, db')
  <1>1. \A t \in Turns : mem.refs[t] \in Nat
    BY LimitsAssumption DEF Snapshots
  <1> QED BY <1>1 DEF Kept

\* The rows of a turn that are saved before it has a response, or after.
LEMMA TurnRowKept ==
    ASSUME mem \in Snapshots, db' \in Snapshots, db' # db,
           WriteRequest \/ SendRequest \/ ObtainResponse \/ AcceptFinal
           \/ BindProposal \/ ExhaustSteps \/ FailLoop
    PROVE  Kept(mem, db') /\ pc \in Saving
  <1>1. CASE WriteRequest
    <2>1. db' = Projected([mem EXCEPT !.turns = mem.turns + 1,
                                      !.st[mem.turns + 1] = "request_durable"])
      BY <1>1, RowSaved DEF WriteRequest
    <2>2. /\ db'.kind = mem.kind /\ db'.refs = mem.refs
          /\ db'.res = mem.res /\ db'.led = mem.led
      BY <2>1 DEF Projected, Snapshots
    <2> QED BY <1>1, <2>2, QuietRowKept DEF WriteRequest, Saving
  <1>2. CASE SendRequest
    <2>1. db' = Projected([mem EXCEPT !.st[mem.turns] = "request_sent"])
      BY <1>2, RowSaved DEF SendRequest
    <2>2. /\ db'.kind = mem.kind /\ db'.refs = mem.refs
          /\ db'.res = mem.res /\ db'.led = mem.led
      BY <2>1 DEF Projected, Snapshots
    <2> QED BY <1>2, <2>2, QuietRowKept DEF SendRequest, Saving, InTurn
  <1>3. CASE ObtainResponse
    <2>1. db' = Projected([mem EXCEPT !.st[mem.turns] = "response_obtained"])
      BY <1>3, RowSaved DEF ObtainResponse
    <2>2. /\ db'.kind = mem.kind /\ db'.refs = mem.refs
          /\ db'.res = mem.res /\ db'.led = mem.led
      BY <2>1 DEF Projected, Snapshots
    <2> QED BY <1>3, <2>2, QuietRowKept DEF ObtainResponse, Saving, InTurn
  <1>4. CASE AcceptFinal
    <2>1. db' = Projected([mem EXCEPT !.st[mem.turns] = "completed",
                                      !.term = "completed"])
      BY <1>4, RowSaved DEF AcceptFinal
    <2>2. /\ db'.kind = mem.kind /\ db'.refs = mem.refs
          /\ db'.res = mem.res /\ db'.led = mem.led
      BY <2>1 DEF Projected, Snapshots
    <2> QED BY <1>4, <2>2, QuietRowKept DEF AcceptFinal, Saving, InTurn
  <1>5. CASE BindProposal
    <2>1. db' = Projected(mem)
      BY <1>5, RowSaved DEF BindProposal
    <2>2. /\ db'.kind = mem.kind /\ db'.refs = mem.refs
          /\ db'.res = mem.res /\ db'.led = mem.led
      BY <2>1 DEF Projected, Snapshots
    <2> QED BY <1>5, <2>2, QuietRowKept DEF BindProposal, Saving, InTurn
  <1>6. CASE ExhaustSteps
    <2>1. db' = Projected([mem EXCEPT !.term = "budget_exhausted"])
      BY <1>6, RowSaved DEF ExhaustSteps
    <2>2. /\ db'.kind = mem.kind /\ db'.refs = mem.refs
          /\ db'.res = mem.res /\ db'.led = mem.led
      BY <2>1 DEF Projected, Snapshots
    <2> QED BY <1>6, <2>2, QuietRowKept DEF ExhaustSteps, Saving
  <1>7. CASE FailLoop
    <2>1. db' = Projected([mem EXCEPT !.term = "failed"])
      BY <1>7, RowSaved DEF FailLoop
    <2>2. /\ db'.kind = mem.kind /\ db'.refs = mem.refs
          /\ db'.res = mem.res /\ db'.led = mem.led
      BY <2>1 DEF Projected, Snapshots
    <2> QED BY <1>7, <2>2, QuietRowKept DEF FailLoop, Saving
  <1> QED BY <1>1, <1>2, <1>3, <1>4, <1>5, <1>6, <1>7

\* A response is recorded where there was none.
LEMMA ResponseRowKept ==
    ASSUME HInv, db' \in Snapshots, db' # db, StoreResponse
    PROVE  Kept(mem, db') /\ pc \in Saving
  <1> DEFINE t == mem.turns
  <1>1. mem \in Snapshots /\ t \in Turns /\ mem.kind[t] = "none" /\ pc = "storing"
    BY DEF StoreResponse, HInv, IInv, TypeOK, InTurn, Placed, Asking
  <1>2. db' = Projected([mem EXCEPT !.st[t] = "response_durable",
                                    !.kind[t] = resp.kind, !.n[t] = resp.n])
    BY RowSaved DEF StoreResponse
  <1>3. /\ db'.kind = [mem.kind EXCEPT ![t] = resp.kind] /\ db'.refs = mem.refs
        /\ db'.res = mem.res /\ db'.led = mem.led
    BY <1>1, <1>2 DEF Projected, Snapshots
  <1>4. \A u \in Turns : /\ mem.kind[u] # "none" => db'.kind[u] = mem.kind[u]
                         /\ mem.refs[u] \in Nat
    BY <1>1, <1>3, LimitsAssumption DEF Snapshots
  <1> QED BY <1>1, <1>3, <1>4 DEF Kept, Saving, InTurn

\* A call is announced or settled where its record has no outcome.
LEMMA LedgerRowKept ==
    ASSUME HInv, db' \in Snapshots, db' # db,
           SettleCall \/ \E c \in Calls : BeginCall(c)
    PROVE  Kept(mem, db') /\ pc \in Saving
  <1>1. PICK c \in Calls, o \in {"pending", out} :
           /\ db' = Projected([mem EXCEPT !.led[c] = o])
           /\ mem.led[c] \in {"none", "pending"} /\ pc \in {"settling", "calls"}
    <2>1. CASE SettleCall
      <3>1. NextCall(mem) \in Calls /\ mem.led[NextCall(mem)] = "pending"
        BY <2>1, NextCallIsCall DEF SettleCall, HInv, IInv, TypeOK, InTurn, AtOneCall, Placed
      <3>2. db' = Projected([mem EXCEPT !.led[NextCall(mem)] = out])
        BY <2>1, RowSaved DEF SettleCall
      <3> QED BY <2>1, <3>1, <3>2 DEF SettleCall
    <2>2. ASSUME NEW c \in Calls, BeginCall(c)
          PROVE  /\ db' = Projected([mem EXCEPT !.led[c] = "pending"])
                 /\ mem.led[c] = "none" /\ pc = "calls"
      BY <2>2, RowSaved DEF BeginCall, AtCall
    <2> QED BY <2>1, <2>2
  <1>2. mem \in Snapshots
    BY DEF HInv, IInv, TypeOK
  <1>3. /\ db'.kind = mem.kind /\ db'.refs = mem.refs
        /\ db'.res = mem.res /\ db'.led = [mem.led EXCEPT ![c] = o]
    BY <1>1, <1>2 DEF Projected, Snapshots
  <1>4. \A d \in Calls : mem.led[d] \in Settled => db'.led[d] = mem.led[d]
    BY <1>1, <1>2, <1>3, OutcomesAssumption DEF Snapshots, Settled
  <1> QED BY <1>1, <1>2, <1>3, <1>4, QuietRowKept DEF Saving, InTurn

\* A result is recorded where there was none.
LEMMA ResultRowKept ==
    ASSUME HInv, db' \in Snapshots, db' # db, KeepResult
    PROVE  Kept(mem, db') /\ pc \in Saving
  <1> DEFINE t == mem.turns
             c == NextCall(mem)
             status == IF mem.refs[t] + 1 = mem.n[t] THEN "tool_results_durable"
                                                     ELSE "tool_results_partial"
  <1>1. /\ mem \in Snapshots /\ t \in Turns /\ pc = "keeping" /\ Coherent(mem)
        /\ mem.refs[t] < mem.n[t]
    BY DEF KeepResult, HInv, IInv, TypeOK, InTurn, AtOneCall
  <1>2. c \in Calls /\ c[1] = t /\ c[2] = mem.refs[t] + 1 /\ mem.refs[t] \in Nat
    BY <1>1, NextCallIsCall, LimitsAssumption DEF NextCall, Snapshots
  <1>3. ~(c[2] <= mem.refs[c[1]])
    BY <1>2
  <1>4. mem.res[c] = "none"
    BY <1>1, <1>2, <1>3 DEF Coherent, CallsInOrder
  <1>5. db' = Projected([mem EXCEPT !.res[c] = out, !.refs[t] = @ + 1, !.st[t] = status])
    BY RowSaved DEF KeepResult
  <1> HIDE DEF c, status
  <1>6. /\ db'.kind = mem.kind /\ db'.refs = [mem.refs EXCEPT ![t] = @ + 1]
        /\ db'.res = [mem.res EXCEPT ![c] = out] /\ db'.led = mem.led
    BY <1>1, <1>5 DEF Projected, Snapshots
  <1>7. \A u \in Turns : db'.refs[u] >= mem.refs[u]
    BY <1>1, <1>6, LimitsAssumption DEF Snapshots
  <1>8. \A d \in Calls : mem.res[d] # "none" => db'.res[d] = mem.res[d]
    BY <1>1, <1>4, <1>6 DEF Snapshots
  <1> QED BY <1>1, <1>6, <1>7, <1>8 DEF Kept, Saving, InTurn

\* A snapshot without turns has nothing to forget.
LEMMA NothingToForget ==
    ASSUME NEW s \in Snapshots, Coherent(s), s.turns = 0, NEW d \in Snapshots
    PROVE  Kept(s, d)
  <1>1. \A t \in Turns : /\ s.kind[t] = "none" /\ s.n[t] = 0 /\ s.refs[t] = 0
                         /\ d.refs[t] \in Nat
    <2>1. ASSUME NEW t \in Turns PROVE s.kind[t] = "none" /\ s.n[t] = 0
      BY LimitsAssumption DEF Coherent, TurnsInOrder, Turns
    <2>2. ASSUME NEW t \in Turns PROVE s.refs[t] = 0
      BY <2>1, LimitsAssumption DEF Coherent, TurnsInOrder, Snapshots
    <2> QED BY <2>1, <2>2, LimitsAssumption DEF Snapshots
  <1>2. \A c \in Calls : c[1] \in Turns /\ c[2] \in 1..MaxOrd
    BY DEF Calls, Ordinals
  <1>3. \A c \in Calls : s.led[c] = "none" /\ s.res[c] = "none"
    BY <1>1, <1>2, LimitsAssumption DEF Coherent, CallsInOrder
  <1> QED BY <1>1, <1>3, OutcomesAssumption DEF Kept, Settled

\* The engine's verdict keeps the cursor's history.
LEMMA VerdictRowKept ==
    ASSUME HInv, NEW verdict \in {"completed", "failed"},
           Acknowledged(Closed(verdict)) \/ Raised(Closed(verdict)), db' # db
    PROVE  Kept(cursor, db') /\ (faults = 0 => Kept(db, db'))
  <1>1. db' = Closed(verdict)
    BY DEF Acknowledged, Raised, Newest
  <1>2. /\ db \in Snapshots /\ cursor \in Snapshots /\ db' \in Snapshots
        /\ Alike(cursor, db') /\ (faults = 0 => Kept(db, cursor))
    BY <1>1, ClosedAlike, ClosedFields DEF HInv, IInv, TypeOK, Advancing
  <1> QED BY <1>2, KeptAlike, KeptOn

LEMMA StepKeeps ==
    ASSUME HInv, [Next]_vars, db' # db
    PROVE  Kept(cursor, db') /\ (faults = 0 => Kept(db, db'))
  <1>1. db' \in Snapshots /\ db \in Snapshots /\ mem \in Snapshots
    BY NextInductive DEF HInv, IInv, TypeOK
  <1>2. CASE \/ WriteRequest \/ SendRequest \/ ObtainResponse \/ AcceptFinal
             \/ BindProposal \/ ExhaustSteps \/ FailLoop
    BY <1>1, <1>2, TurnRowKept, RowKept
  <1>3. CASE StoreResponse
    BY <1>1, <1>3, ResponseRowKept, RowKept
  <1>4. CASE SettleCall \/ \E c \in Calls : BeginCall(c)
    BY <1>1, <1>4, LedgerRowKept, RowKept
  <1>5. CASE KeepResult
    BY <1>1, <1>5, ResultRowKept, RowKept
  <1>6. CASE Start
    <2>1. cursor = db /\ db.turns = 0 /\ Coherent(db)
      BY <1>6 DEF Start, HInv, Advancing, VerdictOK
    <2> QED BY <1>1, <2>1, NothingToForget
  <1>7. CASE FinishAnswered \/ FinishFailed \/ Rescue
    <2>1. PICK verdict \in {"completed", "failed"} :
             Acknowledged(Closed(verdict)) \/ Raised(Closed(verdict))
      BY <1>7 DEF FinishAnswered, FinishFailed, Finish, Rescue
    <2> QED BY <2>1, VerdictRowKept
  <1>8. CASE \/ Resume \/ Crash \/ ArtifactFails \/ Invoke \/ InvokeFails
             \/ AcceptError \/ AcceptTools \/ ProposalDone
    BY <1>8 DEF Resume, Crash, ArtifactFails, Invoke, InvokeFails, AcceptError,
                AcceptTools, ProposalDone
  <1>9. CASE \/ RunExecutor \/ StopUncertain \/ Trace \/ TraceFails \/ UNCHANGED vars
             \/ \E c \in Calls : \/ StopStalled(c) \/ ReuseLedger(c)
                                 \/ ReuseSearch(c) \/ RefuseCall(c)
    BY <1>9 DEF RunExecutor, StopUncertain, Trace, TraceFails, vars, StopStalled,
                ReuseLedger, ReuseSearch, RefuseCall
  <1> QED BY <1>2, <1>3, <1>4, <1>5, <1>6, <1>7, <1>8, <1>9 DEF Next, Step, CallStep

\* What an acknowledged checkpoint has recorded of an outcome, no later one
\* changes or forgets; until a fault happens neither is anything in the newest.
THEOREM HistoryIsKept == Spec => HistoryKept
  <1>1. HInv /\ [Next]_vars =>
            [Kept(cursor, db') /\ (faults = 0 => Kept(db, db'))]_db
    BY StepKeeps
  <1> QED BY <1>1, HistoryInductive, PTL DEF Spec, HistoryKept

\* Once the newest checkpoint holds a result the recovery policy terminates
\* on, no process causes another effect.
THEOREM NothingAfterTermination == Spec => NoEffectAfterTermination
  <1>1. ASSUME HInv, [Next]_vars, Terminates(db)
        PROVE  UNCHANGED <<invoked, ran>>
    <2>1. CASE UNCHANGED Effects
      BY <2>1 DEF Effects
    <2>2. CASE Invoke \/ InvokeFails \/ RunExecutor
      <3>1. pc \in {"invoking", "running"}
        BY <2>2 DEF Invoke, InvokeFails, RunExecutor
      <3>2. db = mem /\ ~Terminates(mem)
        BY <1>1, <3>1 DEF HInv, IInv, InStep, Unstopped, Asking
      <3> QED BY <1>1, <3>2
    <2> QED BY <1>1, <2>1, <2>2, EffectSteps
  <1>2. HInv /\ [Next]_vars =>
            [Terminates(db) => UNCHANGED <<invoked, ran>>]_vars
    BY <1>1
  <1> QED BY <1>2, HistoryInductive, PTL DEF Spec, NoEffectAfterTermination
====
