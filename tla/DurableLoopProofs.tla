-------------------------- MODULE DurableLoopProofs --------------------------
(***************************************************************************)
(* Theorems of DurableLoop, for every protocol, budget, fault set and      *)
(* number of crashes: the types, the announcement of every effect by the   *)
(* newest checkpoint, and the two at-most-once guarantees.                 *)
(*                                                                         *)
(* The argument is IInv: an effect is caused at two places only, and there *)
(* the working state, the cursor and the newest checkpoint are one         *)
(* snapshot that announces it for the first time.                          *)
(***************************************************************************)
EXTENDS DurableLoop, FiniteSetTheorems, TLAPS

\* The conjuncts of IInv about the copies of the state while a process runs,
\* and those about the other variables.
CopiesOK ==
    /\ db \in Snapshots /\ mem \in Snapshots /\ cursor \in Snapshots
    /\ Sound(db) /\ Sound(mem) /\ Sound(cursor)
    /\ mem.run = "running" /\ cursor.run = "running"
    /\ db.run # "none"

OthersOK ==
    /\ left \in 0..MaxRequests
    /\ fresh \in BOOLEAN
    /\ resp \in Responses
    /\ out \in Results \cup {"none"}
    /\ invoked \in [Turns -> Nat]
    /\ ran \in [Calls -> Nat]
    /\ faults \in 0..MaxFaults
    /\ crashes \in 0..MaxCrashes
    /\ ProviderAtMostOnce
    /\ ExecutorAtMostOnce

\* Projection keeps everything but the sequence number and the step.
LEMMA ProjectedFields ==
    ASSUME NEW m \in Snapshots
    PROVE  /\ Projected(m) \in Snapshots
           /\ Projected(m).seq = m.seq + 1
           /\ Projected(m).run = m.run
           /\ Projected(m).turns = m.turns
           /\ Projected(m).st = m.st
           /\ Projected(m).kind = m.kind
           /\ Projected(m).n = m.n
           /\ Projected(m).refs = m.refs
           /\ Projected(m).led = m.led
  <1>1. m.seq + 1 \in Nat
    BY DEF Snapshots
  <1>2. ASSUME NEW q \in Nat
        PROVE  [m EXCEPT !.seq = q, !.step = "model_loop"] \in Snapshots
    BY DEF Snapshots
  <1>3. Projected(m) \in Snapshots
    BY <1>1, <1>2 DEF Projected
  <1> QED BY <1>3 DEF Projected, Snapshots

\* The engine's own snapshot keeps the turns and the ledger of the cursor.
LEMMA ClosedFields ==
    ASSUME cursor \in Snapshots, NEW verdict \in {"completed", "failed"}
    PROVE  /\ Closed(verdict) \in Snapshots
           /\ Closed(verdict).run = verdict
           /\ Closed(verdict).turns = cursor.turns
           /\ Closed(verdict).st = cursor.st
           /\ Closed(verdict).led = cursor.led
  <1>1. cursor.seq + 1 \in Nat
    BY DEF Snapshots
  <1>2. ASSUME NEW q \in Nat, NEW step \in {"none", "multi_agent"}
        PROVE  [cursor EXCEPT !.seq = q, !.run = verdict, !.step = step,
                              !.term = verdict] \in Snapshots
    BY DEF Snapshots
  <1>3. Closed(verdict) \in Snapshots
    <2>1. CASE verdict = "completed"
      BY <1>1, <1>2, <2>1 DEF Closed
    <2>2. CASE verdict # "completed"
      BY <1>1, <1>2, <2>2 DEF Closed
    <2> QED BY <2>1, <2>2
  <1> QED BY <1>3 DEF Closed, Snapshots

\* A save leaves the store with its old newest row or the one saved.
LEMMA SaveOutcome ==
    ASSUME faults \in 0..MaxFaults, MaxFaults \in Nat, NEW row,
           Acknowledged(row) \/ Raised(row)
    PROVE  db' \in {db, row} /\ faults' \in 0..MaxFaults
  BY DEF Acknowledged, Raised, Newest, Fault

\* publish: either all three copies agree afterwards, or the save raised and
\* the working state is still at least as new as the store.
LEMMA PublishCopies ==
    ASSUME CopiesOK, faults \in 0..MaxFaults,
           NEW m \in Snapshots, Sound(m), m.run = "running", m.seq >= db.seq,
           NEW next, NEW onError,
           Publish(m, next, onError), UNCHANGED Effects
    PROVE  /\ CopiesOK'
           /\ faults' \in 0..MaxFaults
           /\ mem' = Projected(m)
           /\ mem'.seq >= db'.seq
           /\ \/ pc' = next /\ InStep'
              \/ pc' = onError
  <1>1. /\ Projected(m) \in Snapshots
        /\ Projected(m).seq = m.seq + 1
        /\ Projected(m).run = "running"
        /\ Projected(m).turns = m.turns
        /\ Projected(m).st = m.st
        /\ Projected(m).led = m.led
    BY ProjectedFields
  <1>2. m.seq \in Nat /\ db.seq \in Nat
    BY DEF CopiesOK, Snapshots
  <1>3. mem' = Projected(m) /\ cursor' \in {cursor, Projected(m)}
    BY DEF Publish
  <1>4. db' \in {db, Projected(m)} /\ faults' \in 0..MaxFaults
    BY SaveOutcome, LimitsAssumption DEF Publish
  <1>5. CopiesOK'
    BY <1>1, <1>3, <1>4 DEF CopiesOK, Sound, Announced, Effects
  <1>6. mem'.seq >= db'.seq
    BY <1>1, <1>2, <1>3, <1>4
  <1>7. \/ pc' = next /\ InStep'
        \/ pc' = onError
    BY <1>1, <1>2 DEF Publish, Acknowledged, Newest, InStep
  <1> QED BY <1>3, <1>4, <1>5, <1>6, <1>7

\* commit_provider_checkpoint: either all three copies agree afterwards, or
\* the loop is over.
LEMMA CommitCopies ==
    ASSUME CopiesOK, faults \in 0..MaxFaults,
           NEW m \in Snapshots, Sound(m), m.run = "running", m.seq >= db.seq,
           NEW next,
           Commit(m, next), UNCHANGED Effects
    PROVE  /\ CopiesOK'
           /\ faults' \in 0..MaxFaults
           /\ \/ pc' = next /\ mem' = Projected(m) /\ InStep'
              \/ pc' = "aborting"
  <1>1. /\ Projected(m) \in Snapshots
        /\ Projected(m).seq = m.seq + 1
        /\ Projected(m).run = "running"
        /\ Projected(m).turns = m.turns
        /\ Projected(m).st = m.st
        /\ Projected(m).led = m.led
    BY ProjectedFields
  <1>2. m.seq \in Nat /\ db.seq \in Nat
    BY DEF CopiesOK, Snapshots
  <1>3. mem' \in {m, Projected(m)} /\ cursor' \in {cursor, Projected(m)}
    BY DEF Commit
  <1>4. db' \in {db, Projected(m)} /\ faults' \in 0..MaxFaults
    BY SaveOutcome, LimitsAssumption DEF Commit
  <1>5. CopiesOK'
    BY <1>1, <1>3, <1>4 DEF CopiesOK, Sound, Announced, Effects
  <1>6. \/ pc' = next /\ mem' = Projected(m) /\ InStep'
        \/ pc' = "aborting"
    BY <1>1, <1>2 DEF Commit, Acknowledged, Newest, InStep
  <1> QED BY <1>4, <1>5, <1>6

\* Either kind of boundary.
LEMMA BoundaryCopies ==
    ASSUME CopiesOK, faults \in 0..MaxFaults,
           NEW m \in Snapshots, Sound(m), m.run = "running", m.seq >= db.seq,
           NEW next,
           TurnBoundary(m, next) \/ ToolBoundary(m, next), UNCHANGED Effects
    PROVE  /\ CopiesOK'
           /\ faults' \in 0..MaxFaults
           /\ \/ pc' = next /\ mem' = Projected(m) /\ InStep'
              \/ pc' = "failing" /\ mem'.seq >= db'.seq
              \/ pc' = "aborting"
  <1>1. CASE Publish(m, next, "failing")
    BY <1>1, PublishCopies
  <1>2. CASE Commit(m, next)
    BY <1>2, CommitCopies
  <1> QED BY <1>1, <1>2 DEF TurnBoundary, ToolBoundary

-----------------------------------------------------------------------------
(* Taking IInv apart and putting it together.                              *)

\* What a running process may rely on.
LEMMA Running ==
    ASSUME IInv, pc \notin {"off", "rescuing"}
    PROVE  CopiesOK /\ OthersOK
  BY DEF IInv, TypeOK, CopiesOK, OthersOK

\* A process that will only close the run leaves nothing else to show.
LEMMA Closing ==
    ASSUME CopiesOK', OthersOK',
           pc' \in {"failing", "completing", "aborting", "tracing", "rescuing"},
           pc' = "failing" => mem'.seq >= db'.seq
    PROVE  IInv'
  BY DEF IInv, TypeOK, PC, CopiesOK, OthersOK, Saving, InTurn, AtOneCall

\* Nor does a process that is inside a turn and causes no effect next.
LEMMA Continuing ==
    ASSUME CopiesOK', OthersOK',
           pc' \in {"top", "obtained", "storing", "dispatch", "binding",
                    "calls", "uncertain"},
           mem'.seq >= db'.seq,
           pc' # "top" => mem'.turns \in Turns,
           \/ left' + mem'.turns <= MaxRequests
           \/ pc' = "dispatch" /\ mem'.kind[mem'.turns] = "final"
    PROVE  IInv'
  BY DEF IInv, TypeOK, PC, CopiesOK, OthersOK, Saving, InTurn, AtOneCall

\* A step that causes no effect and keeps the process's own variables.
LEMMA OthersKept ==
    ASSUME OthersOK, UNCHANGED <<Effects, Process>>, faults' \in 0..MaxFaults,
           resp' \in Responses, out' \in Results \cup {"none"}
    PROVE  OthersOK'
  BY DEF OthersOK, Effects, Process, ProviderAtMostOnce, ExecutorAtMostOnce

\* A process that ends leaves the newest checkpoint behind.
LEMMA Ended ==
    ASSUME IInv, Gone, UNCHANGED Effects,
           db' \in Snapshots, Sound(db)', db'.run # "none" \/ UNCHANGED db,
           faults' \in 0..MaxFaults, crashes' \in 0..MaxCrashes
    PROVE  IInv'
  <1>1. NoResponse \in Responses
    BY LimitsAssumption DEF NoResponse, Responses, Kinds
  <1>2. TypeOK'
    <2>1. /\ db' \in Snapshots /\ mem' \in Snapshots /\ cursor' \in Snapshots
          /\ pc' \in PC /\ fresh' \in BOOLEAN
      BY DEF Gone, PC
    <2>2. left' \in 0..MaxRequests
      BY LimitsAssumption DEF Gone
    <2>3. resp' \in Responses /\ out' \in Results \cup {"none"}
      BY <1>1 DEF Gone
    <2>4. invoked' \in [Turns -> Nat] /\ ran' \in [Calls -> Nat]
      BY DEF IInv, TypeOK, Effects
    <2> QED BY <2>1, <2>2, <2>3, <2>4 DEF TypeOK
  <1>3. Sound(mem)' /\ Sound(cursor)'
    BY DEF Gone, Sound, Announced
  <1>4. db'.run = "none" => /\ \A t \in Turns : invoked'[t] = 0
                           /\ \A c \in Calls : ran'[c] = 0
    BY DEF IInv, Effects
  <1> QED BY <1>2, <1>3, <1>4
      DEF IInv, Gone, Effects, Saving, InTurn, AtOneCall,
          ProviderAtMostOnce, ExecutorAtMostOnce
-----------------------------------------------------------------------------
(* The steps outside a turn.                                               *)

LEMMA BlankFields ==
    ASSUME NEW q \in Nat, NEW run \in {"none", "running"}
    PROVE  /\ Blank(q, run) \in Snapshots
           /\ Blank(q, run).seq = q
           /\ Blank(q, run).run = run
           /\ Blank(q, run).turns = 0
           /\ \A t \in Turns : Blank(q, run).st[t] = "none"
  BY LimitsAssumption
     DEF Blank, Snapshots, TurnStatus, Kinds, LedgerStatus

\* Nothing has happened yet.
LEMMA InitInductive == Init => IInv
  <1> SUFFICES ASSUME Init PROVE IInv
    OBVIOUS
  <1>1. /\ db \in Snapshots /\ db.seq = 0 /\ db.run = "none"
        /\ \A t \in Turns : db.st[t] = "none"
    BY BlankFields DEF Init
  <1>2. TypeOK
    <2>1. resp \in Responses
      BY LimitsAssumption DEF Init, NoResponse, Responses, Kinds
    <2>2. left \in 0..MaxRequests /\ faults \in 0..MaxFaults /\ crashes \in 0..MaxCrashes
      BY LimitsAssumption DEF Init
    <2>3. invoked \in [Turns -> Nat] /\ ran \in [Calls -> Nat]
      BY DEF Init
    <2> QED BY <1>1, <2>1, <2>2, <2>3 DEF Init, TypeOK, PC
  <1>3. Sound(db) /\ Sound(mem) /\ Sound(cursor)
    BY <1>1 DEF Init, Sound, Announced
  <1> QED BY <1>1, <1>2, <1>3
      DEF Init, IInv, Saving, InTurn, AtOneCall,
          ProviderAtMostOnce, ExecutorAtMostOnce

\* A fresh run finds an empty thread, and no effect has been caused for it.
LEMMA StartInductive == ASSUME IInv, Start PROVE IInv'
  <1> DEFINE row == Blank(1, "running")
  <1>1. /\ row \in Snapshots /\ row.seq = 1 /\ row.run = "running" /\ row.turns = 0
        /\ \A t \in Turns : row.st[t] = "none"
    BY BlankFields
  <1> HIDE DEF row
  <1>2. /\ db.seq = 0
        /\ \A t \in Turns : invoked[t] = 0
        /\ \A c \in Calls : ran[c] = 0
        /\ TypeOK /\ Sound(db)
    BY DEF IInv, Start
  <1>3. /\ mem' = row /\ cursor' = row /\ fresh' = TRUE
        /\ left' = Least(MaxSteps, MaxRequests)
        /\ UNCHANGED <<Effects, Held, crashes>>
    BY DEF Start, row
  <1>4. /\ db' \in {db, row} /\ faults' \in 0..MaxFaults
        /\ \/ pc' = "top" /\ db' = row
           \/ pc' = "rescuing"
    <2>1. CASE Acknowledged(row) /\ pc' = "top"
      BY <2>1, <1>1, <1>2 DEF Acknowledged, Newest, TypeOK
    <2>2. CASE Raised(row) /\ pc' = "rescuing"
      BY <2>2, <1>2, SaveOutcome, LimitsAssumption DEF TypeOK
    <2> QED BY <2>1, <2>2 DEF Start, row
  <1>5. left' \in 0..MaxRequests /\ left' + mem'.turns <= MaxRequests
    BY <1>1, <1>3, LimitsAssumption DEF Least
  <1>6. TypeOK'
    BY <1>1, <1>2, <1>3, <1>4, <1>5 DEF TypeOK, Effects, Held, PC
  <1>7. Sound(db)' /\ Sound(mem)' /\ Sound(cursor)'
    BY <1>1, <1>2, <1>3, <1>4 DEF Sound, Announced, Effects
  <1> QED BY <1>1, <1>2, <1>3, <1>4, <1>5, <1>6, <1>7
      DEF IInv, Saving, InTurn, AtOneCall, Effects,
          ProviderAtMostOnce, ExecutorAtMostOnce

\* The slots of a resumed process fit into what is left of the budget.
LEMMA SlotsBound ==
    ASSUME db \in Snapshots
    PROVE  Slots(db) \in Nat /\ Slots(db) + db.turns <= MaxRequests
  <1>1. db.turns \in 0..MaxRequests
    BY DEF Snapshots
  <1>2. Cardinality(Spent(db)) \in Nat
    <2>1. IsFiniteSet(Turns)
      BY FS_Interval, LimitsAssumption DEF Turns
    <2>2. Spent(db) \subseteq Turns
      BY DEF Spent
    <2>3. IsFiniteSet(Spent(db))
      BY <2>1, <2>2, FS_Subset
    <2> QED BY <2>3, FS_CardinalityType
  <1> QED BY <1>1, <1>2, LimitsAssumption DEF Slots, Least

\* A resumed process continues from the newest checkpoint: it sends only a
\* request that was not sent, and takes no more steps than are left.
LEMMA ResumeInductive == ASSUME IInv, Resume PROVE IInv'
  <1>1. /\ TypeOK /\ Sound(db) /\ db \in Snapshots
        /\ ProviderAtMostOnce /\ ExecutorAtMostOnce
    BY DEF IInv, TypeOK
  <1>2. /\ db' = db /\ mem' = db /\ cursor' = db /\ fresh' = FALSE
        /\ UNCHANGED <<Effects, Held, faults, crashes>>
    BY DEF Resume
  <1>3. db.run = "running" /\ db.turns \in Turns
    BY <1>1, LimitsAssumption DEF Resume, Resumable, Snapshots, Turns
  <1>4. CopiesOK'
    BY <1>1, <1>2, <1>3 DEF CopiesOK, Sound, Announced, Effects
  <1>5. ASSUME left' \in 0..MaxRequests PROVE OthersOK'
    BY <1>1, <1>2, <1>5 DEF OthersOK, TypeOK, Effects, Held,
         ProviderAtMostOnce, ExecutorAtMostOnce
  <1>6. db.seq \in Nat
    BY <1>1 DEF Snapshots
  <1>7. Slots(db) \in Nat /\ Slots(db) + db.turns <= MaxRequests
    BY <1>1, SlotsBound
  <1> DEFINE slots == IF Slots(db) > 0 THEN Slots(db) ELSE 1
  <1>8. slots \in 1..MaxRequests
    BY <1>7, <1>3, LimitsAssumption DEF Turns
  <1>9. ~DurableFinal(db) => Slots(db) > 0 \/ pc' = "aborting"
    BY DEF Resume
  <1>10. DurableFinal(db) => Decision(db) = "reuse_durable_model_response"
    BY DEF DurableFinal, Decision
  <1>11. Decision(db) = "safe_to_invoke_model" => db.st[db.turns] = "request_durable"
    <2> DEFINE st == db.st[db.turns]
               kind == db.kind[db.turns]
               refs == db.refs[db.turns]
               n == db.n[db.turns]
               call == db.led[NextCall(db)]
    <2>1. Decision(db) =
            CASE st = "request_durable" -> "safe_to_invoke_model"
              [] st \in {"request_sent", "response_obtained"} -> "requires_verification"
              [] st = "completed" -> "already_terminal"
              [] st = "response_durable" /\ kind # "tools" -> "reuse_durable_model_response"
              [] kind = "tools" /\ refs = n -> "resume_from_tool_results"
              [] kind = "tools" /\ refs < n /\ call = "pending" -> "requires_verification"
              [] kind = "tools" /\ refs < n /\ call # "pending" ->
                    IF Protocol = "proposal" THEN "resume_durable_proposal"
                    ELSE IF call = "none" THEN "reuse_durable_model_response"
                    ELSE "resume_from_tool_results"
              [] OTHER -> "requires_manual_decision"
      BY DEF Decision
    <2> HIDE DEF st, kind, refs, n, call
    <2>2. Decision(db) = "safe_to_invoke_model" => st = "request_durable"
      BY <2>1
    <2> QED BY <2>2 DEF st
  <1>12. \/ pc' = "aborting" /\ left' = 0
         \/ pc' = "failing" /\ left' = slots
         \/ pc' = "sending" /\ left' = slots - 1 /\ Decision(db) = "safe_to_invoke_model"
         \/ pc' = "dispatch" /\ left' = slots
         \/ pc' = "binding" /\ left' = slots /\ Decision(db) # "reuse_durable_model_response"
         \/ pc' = "top" /\ left' = slots /\ Decision(db) # "reuse_durable_model_response"
    BY DEF Resume, RebindsResults, StopsAtOnce
  <1> HIDE DEF slots
  <1>13. CASE pc' \in {"aborting", "failing"}
    <2>1. left' \in 0..MaxRequests
      BY <1>8, <1>12, <1>13, LimitsAssumption
    <2> QED BY <2>1, <1>2, <1>4, <1>5, <1>6, <1>13, Closing
  <1>14. CASE pc' = "sending"
    <2>1. db.st[db.turns] = "request_durable" /\ left' = slots - 1
      BY <1>11, <1>12, <1>14
    <2>2. left' \in 0..MaxRequests /\ left' + db.turns <= MaxRequests
      <3>1. Slots(db) > 0
        BY <1>9, <1>10, <1>12, <1>14
      <3> QED BY <3>1, <2>1, <1>3, <1>7, LimitsAssumption DEF slots, Turns
    <2>3. OthersOK'
      BY <1>5, <2>2
    <2> QED BY <1>2, <1>3, <1>4, <1>6, <1>14, <2>1, <2>2, <2>3
         DEF IInv, TypeOK, PC, CopiesOK, OthersOK, Saving, InTurn, AtOneCall
  <1>15. CASE pc' = "dispatch"
    <2>1. left' \in 0..MaxRequests /\ left' = slots
      BY <1>8, <1>12, <1>15
    <2>2. \/ left' + db.turns <= MaxRequests
          \/ db.kind[db.turns] = "final"
      BY <1>3, <1>7, <1>9, <1>15, <2>1, LimitsAssumption DEF slots, DurableFinal, Turns
    <2> QED BY <1>2, <1>3, <1>4, <1>5, <1>6, <1>15, <2>1, <2>2, Continuing
  <1>16. CASE pc' \in {"binding", "top"}
    <2>1. left' \in 0..MaxRequests /\ left' = slots
      BY <1>8, <1>12, <1>16
    <2>2. left' + db.turns <= MaxRequests
      BY <1>3, <1>7, <1>9, <1>10, <1>12, <1>16, <2>1, LimitsAssumption DEF slots, Turns
    <2> QED BY <1>2, <1>3, <1>4, <1>5, <1>6, <1>16, <2>1, <2>2, Continuing
  <1> QED BY <1>12, <1>13, <1>14, <1>15, <1>16

-----------------------------------------------------------------------------
(* The steps of a turn.                                                    *)

\* What IInv says of the working state inside a turn.
LEMMA InsideTurn ==
    ASSUME IInv, pc \in InTurn
    PROVE  /\ CopiesOK /\ OthersOK
           /\ mem.turns \in Turns
           /\ mem.seq \in Nat /\ db.seq \in Nat /\ mem.seq >= db.seq
           /\ \/ left + mem.turns <= MaxRequests
              \/ pc = "dispatch" /\ mem.kind[mem.turns] = "final"
  <1>1. CopiesOK /\ OthersOK
    BY Running DEF InTurn
  <1>2. mem.seq \in Nat /\ db.seq \in Nat
    BY <1>1 DEF CopiesOK, Snapshots
  <1> QED BY <1>1, <1>2 DEF IInv, Saving

\* Moving the current turn to a status past request_durable.
LEMMA StatusEdit ==
    ASSUME mem \in Snapshots, Sound(mem), mem.turns \in Turns,
           NEW status \in TurnStatus \ {"none", "request_durable"},
           NEW m, m = [mem EXCEPT !.st[mem.turns] = status]
    PROVE  /\ m \in Snapshots /\ Sound(m)
           /\ m.seq = mem.seq /\ m.run = mem.run /\ m.turns = mem.turns
           /\ m.kind = mem.kind /\ m.n = mem.n /\ m.refs = mem.refs
           /\ m.led = mem.led /\ m.res = mem.res
           /\ m.st = [mem.st EXCEPT ![mem.turns] = status]
  <1>1. /\ m \in Snapshots
        /\ m.seq = mem.seq /\ m.run = mem.run /\ m.turns = mem.turns
        /\ m.kind = mem.kind /\ m.n = mem.n /\ m.refs = mem.refs
        /\ m.led = mem.led /\ m.res = mem.res
        /\ m.st = [mem.st EXCEPT ![mem.turns] = status]
    BY DEF Snapshots
  <1>2. mem.st \in [Turns -> TurnStatus] /\ mem.turns \in Nat
    BY LimitsAssumption DEF Snapshots
  <1>3. Sound(m)
    BY <1>1, <1>2 DEF Sound, Announced
  <1> QED BY <1>1, <1>3

\* A boundary inside a turn that is followed by no effect.
LEMMA BoundaryContinues ==
    ASSUME CopiesOK, OthersOK, mem.turns \in Turns,
           left + mem.turns <= MaxRequests,
           NEW m \in Snapshots, Sound(m),
           m.seq \in Nat, m.seq >= db.seq,
           m.run = "running", m.turns = mem.turns,
           NEW next \in {"top", "storing", "dispatch", "calls", "failing"},
           TurnBoundary(m, next) \/ ToolBoundary(m, next),
           UNCHANGED <<Effects, Process>>,
           resp' \in Responses, out' \in Results \cup {"none"}
    PROVE  IInv'
  <1>1. /\ CopiesOK'
        /\ faults' \in 0..MaxFaults
        /\ \/ pc' = next /\ mem' = Projected(m) /\ InStep'
           \/ pc' = "failing" /\ mem'.seq >= db'.seq
           \/ pc' = "aborting"
    BY BoundaryCopies DEF OthersOK
  <1>2. OthersOK'
    BY <1>1, OthersKept
  <1>3. CASE pc' = next /\ mem' = Projected(m) /\ InStep'
    <2>1. mem'.turns = mem.turns /\ mem'.seq \in Nat
      BY <1>3, ProjectedFields
    <2>2. mem'.seq >= db'.seq
      BY <1>3, <2>1 DEF InStep
    <2>3. left' + mem'.turns <= MaxRequests
      BY <2>1 DEF Process
    <2>4. CASE next = "failing"
      BY <1>1, <1>2, <1>3, <2>2, <2>4, Closing
    <2>5. CASE next # "failing"
      BY <1>1, <1>2, <1>3, <2>1, <2>2, <2>3, <2>5, Continuing
    <2> QED BY <2>4, <2>5
  <1>4. CASE pc' \in {"failing", "aborting"}
    BY <1>1, <1>2, <1>3, <1>4, Closing
  <1> QED BY <1>1, <1>3, <1>4

\* A new turn takes the next number, which no provider call has used.
LEMMA WriteRequestInductive == ASSUME IInv, WriteRequest PROVE IInv'
  <1> DEFINE t == mem.turns + 1
             m == [mem EXCEPT !.turns = t, !.st[t] = "request_durable"]
  <1>1. /\ CopiesOK /\ OthersOK
        /\ mem.seq \in Nat /\ db.seq \in Nat /\ mem.seq >= db.seq
        /\ left + mem.turns <= MaxRequests
        /\ left > 0 /\ left \in Nat
    <2>1. CopiesOK /\ OthersOK
      BY Running DEF WriteRequest
    <2>2. mem.seq \in Nat /\ db.seq \in Nat
      BY <2>1 DEF CopiesOK, Snapshots
    <2> QED BY <2>1, <2>2 DEF IInv, WriteRequest, Saving, OthersOK
  <1>2. mem.turns \in 0..MaxRequests /\ t \in Turns
    <2>1. mem.turns \in 0..MaxRequests
      BY <1>1 DEF CopiesOK, Snapshots
    <2> QED BY <1>1, <2>1, LimitsAssumption DEF Turns
  <1>3. /\ m \in Snapshots
        /\ m.seq = mem.seq /\ m.run = mem.run /\ m.turns = t
        /\ m.st = [mem.st EXCEPT ![t] = "request_durable"]
        /\ m.led = mem.led
    <2> DEFINE g == [mem.st EXCEPT ![t] = "request_durable"]
    <2>1. g \in [Turns -> TurnStatus]
      BY <1>1 DEF CopiesOK, Snapshots, TurnStatus
    <2>2. t \in 0..MaxRequests
      BY <1>2, LimitsAssumption DEF Turns
    <2>3. m = [mem EXCEPT !.turns = t, !.st = g]
      OBVIOUS
    <2> HIDE DEF m, t, g
    <2>4. /\ m \in Snapshots
          /\ m.seq = mem.seq /\ m.run = mem.run /\ m.turns = t
          /\ m.st = g /\ m.led = mem.led
      BY <1>1, <2>1, <2>2, <2>3 DEF CopiesOK, Snapshots
    <2> QED BY <2>4 DEF g
  <1>4. mem.st \in [Turns -> TurnStatus] /\ invoked \in [Turns -> Nat]
    BY <1>1 DEF CopiesOK, OthersOK, Snapshots
  <1>5. mem.st[t] = "none"
    BY <1>1, <1>2 DEF CopiesOK, Sound
  <1> HIDE DEF m
  <1>6. Sound(m)
    BY <1>1, <1>2, <1>3, <1>4, <1>5 DEF CopiesOK, Sound, Announced, Turns
  <1>7. TurnBoundary(m, "sending") /\ left' = left - 1
        /\ UNCHANGED <<Effects, Held, fresh, crashes>>
    BY DEF WriteRequest, m
  <1>8. /\ CopiesOK'
        /\ faults' \in 0..MaxFaults
        /\ \/ pc' = "sending" /\ mem' = Projected(m) /\ InStep'
           \/ pc' = "failing" /\ mem'.seq >= db'.seq
           \/ pc' = "aborting"
    BY <1>1, <1>3, <1>6, <1>7, BoundaryCopies DEF CopiesOK, OthersOK
  <1>9. OthersOK'
    BY <1>1, <1>7, <1>8, LimitsAssumption
       DEF OthersOK, Effects, Held, ProviderAtMostOnce, ExecutorAtMostOnce
  <1>10. CASE pc' \in {"failing", "aborting"}
    BY <1>8, <1>9, <1>10, Closing
  <1>11. CASE pc' = "sending"
    <2>1. mem' = Projected(m) /\ InStep'
      BY <1>8, <1>11
    <2>2. mem'.turns = t /\ mem'.st[t] = "request_durable" /\ mem'.seq \in Nat
      <3>1. mem'.turns = t /\ mem'.st = m.st
        BY <1>3, <2>1, ProjectedFields
      <3>2. mem'.seq \in Nat
        BY <1>8 DEF CopiesOK, Snapshots
      <3> QED BY <1>2, <1>3, <1>4, <3>1, <3>2
    <2>3. left' + mem'.turns <= MaxRequests
      BY <1>1, <1>2, <1>7, <2>2, LimitsAssumption
    <2> QED BY <1>2, <1>8, <1>9, <1>11, <2>1, <2>2, <2>3
         DEF IInv, TypeOK, PC, CopiesOK, OthersOK, Saving, InTurn, AtOneCall, InStep
  <1> QED BY <1>8, <1>10, <1>11

\* The request is sent after a checkpoint in which all copies agree that it
\* is, and for the first time.
LEMMA SendRequestInductive == ASSUME IInv, SendRequest PROVE IInv'
  <1> DEFINE m == [mem EXCEPT !.st[mem.turns] = "request_sent"]
  <1>1. /\ CopiesOK /\ OthersOK /\ mem.turns \in Turns
        /\ mem.seq \in Nat /\ db.seq \in Nat /\ mem.seq >= db.seq
        /\ left + mem.turns <= MaxRequests
        /\ mem.st[mem.turns] = "request_durable"
    BY InsideTurn DEF SendRequest, InTurn, IInv
  <1>2. "request_sent" \in TurnStatus \ {"none", "request_durable"}
    BY DEF TurnStatus
  <1>3. mem \in Snapshots /\ Sound(mem) /\ mem.run = "running"
    BY <1>1 DEF CopiesOK
  <1>4. /\ m \in Snapshots /\ Sound(m)
        /\ m.seq = mem.seq /\ m.run = mem.run /\ m.turns = mem.turns
        /\ m.st = [mem.st EXCEPT ![mem.turns] = "request_sent"]
    BY <1>1, <1>2, <1>3, StatusEdit
  <1>5. invoked[mem.turns] = 0
    BY <1>1, <1>3 DEF Sound, Announced, OthersOK
  <1> HIDE DEF m
  <1>6. TurnBoundary(m, "invoking") /\ UNCHANGED <<Effects, Held, Process>>
    BY DEF SendRequest, m
  <1>7. /\ CopiesOK'
        /\ faults' \in 0..MaxFaults
        /\ \/ pc' = "invoking" /\ mem' = Projected(m) /\ InStep'
           \/ pc' = "failing" /\ mem'.seq >= db'.seq
           \/ pc' = "aborting"
    BY <1>1, <1>3, <1>4, <1>6, BoundaryCopies DEF OthersOK
  <1>8. OthersOK'
    BY <1>1, <1>6, <1>7, OthersKept DEF Held, OthersOK
  <1>9. CASE pc' \in {"failing", "aborting"}
    BY <1>7, <1>8, <1>9, Closing
  <1>10. CASE pc' = "invoking"
    <2>1. mem' = Projected(m) /\ InStep'
      BY <1>7, <1>10
    <2>2. mem'.turns = mem.turns /\ mem'.st = m.st
      BY <1>4, <2>1, ProjectedFields
    <2>3. mem'.seq \in Nat /\ mem.st \in [Turns -> TurnStatus]
      BY <1>1, <1>7 DEF CopiesOK, Snapshots
    <2>4. mem'.st[mem'.turns] = "request_sent" /\ invoked'[mem'.turns] = 0
      BY <1>1, <1>4, <1>5, <1>6, <2>2, <2>3 DEF Effects
    <2>5. left' + mem'.turns <= MaxRequests /\ mem'.turns \in Turns
      BY <1>1, <1>6, <2>2 DEF Process
    <2> QED BY <1>7, <1>8, <1>10, <2>1, <2>3, <2>4, <2>5
         DEF IInv, TypeOK, PC, CopiesOK, OthersOK, Saving, InTurn, AtOneCall, InStep
  <1> QED BY <1>7, <1>9, <1>10

\* Calling the provider: every copy of the state says request_sent.
LEMMA InvokedCopies ==
    ASSUME IInv, pc = "invoking",
           invoked' = [invoked EXCEPT ![mem.turns] = @ + 1], UNCHANGED ran
    PROVE  /\ CopiesOK /\ OthersOK /\ mem.turns \in Turns /\ InStep
           /\ mem.seq \in Nat
           /\ left + mem.turns <= MaxRequests
           /\ UNCHANGED <<db, mem, cursor>> => CopiesOK'
           /\ invoked' \in [Turns -> Nat]
           /\ ProviderAtMostOnce' /\ ExecutorAtMostOnce'
  <1>1. /\ CopiesOK /\ OthersOK /\ mem.turns \in Turns
        /\ mem.seq \in Nat
        /\ left + mem.turns <= MaxRequests
        /\ InStep /\ mem.st[mem.turns] = "request_sent" /\ invoked[mem.turns] = 0
    BY InsideTurn DEF InTurn, IInv
  <1>2. invoked \in [Turns -> Nat] /\ ProviderAtMostOnce /\ ExecutorAtMostOnce
    BY <1>1 DEF OthersOK
  <1>3. invoked' \in [Turns -> Nat] /\ ProviderAtMostOnce' /\ ExecutorAtMostOnce'
    BY <1>1, <1>2 DEF ProviderAtMostOnce, ExecutorAtMostOnce
  <1>4. ASSUME mem' = mem PROVE Sound(mem)'
    BY <1>1, <1>2, <1>4 DEF CopiesOK, Sound, Announced
  <1>5. ASSUME UNCHANGED <<db, mem, cursor>> PROVE CopiesOK'
    BY <1>1, <1>4, <1>5 DEF CopiesOK, InStep
  <1> QED BY <1>1, <1>3, <1>4, <1>5

LEMMA InvokeInductive == ASSUME IInv, Invoke PROVE IInv'
  <1>1. /\ pc = "invoking" /\ pc' = "obtained"
        /\ invoked' = [invoked EXCEPT ![mem.turns] = @ + 1] /\ UNCHANGED ran
        /\ UNCHANGED <<db, mem, cursor, out, Process, faults>>
    BY DEF Invoke
  <1>2. /\ CopiesOK' /\ OthersOK /\ mem.turns \in Turns /\ InStep
        /\ mem.seq \in Nat /\ left + mem.turns <= MaxRequests
        /\ invoked' \in [Turns -> Nat]
        /\ ProviderAtMostOnce' /\ ExecutorAtMostOnce'
    BY <1>1, InvokedCopies
  <1>3. resp' \in Responses
    BY LimitsAssumption DEF Invoke, Responses, Kinds, Ordinals
  <1>4. OthersOK'
    BY <1>1, <1>2, <1>3 DEF OthersOK, Process
  <1> QED BY <1>1, <1>2, <1>4, Continuing DEF InStep, Process

LEMMA InvokeFailsInductive == ASSUME IInv, InvokeFails PROVE IInv'
  <1>1. /\ pc = "invoking" /\ pc' = "failing"
        /\ invoked' = [invoked EXCEPT ![mem.turns] = @ + 1] /\ UNCHANGED ran
        /\ mem' = [mem EXCEPT !.st[mem.turns] = "failed"]
        /\ UNCHANGED <<db, cursor, Held, Process>>
        /\ faults' \in 0..MaxFaults
    BY LimitsAssumption DEF InvokeFails, Fault, IInv, TypeOK
  <1>2. /\ CopiesOK /\ OthersOK /\ mem.turns \in Turns /\ InStep
        /\ mem.seq \in Nat
        /\ mem.st[mem.turns] = "request_sent"
        /\ invoked' \in [Turns -> Nat]
        /\ ProviderAtMostOnce' /\ ExecutorAtMostOnce'
    BY <1>1, InvokedCopies DEF IInv
  <1>3. "failed" \in TurnStatus \ {"none", "request_durable"}
    BY DEF TurnStatus
  <1>4. /\ mem' \in Snapshots /\ mem'.seq = mem.seq /\ mem'.run = mem.run
        /\ mem'.turns = mem.turns /\ mem'.led = mem.led
        /\ mem'.st = [mem.st EXCEPT ![mem.turns] = "failed"]
    BY <1>1, <1>2, <1>3, StatusEdit DEF CopiesOK
  <1>5. mem.st \in [Turns -> TurnStatus] /\ invoked \in [Turns -> Nat]
    BY <1>2 DEF CopiesOK, OthersOK, Snapshots
  <1>6. Sound(db)' /\ Sound(cursor)' /\ Sound(mem)'
    BY <1>1, <1>2, <1>4, <1>5 DEF CopiesOK, Sound, Announced, InStep
  <1>7. CopiesOK'
    BY <1>1, <1>2, <1>4, <1>6 DEF CopiesOK
  <1>8. OthersOK'
    BY <1>1, <1>2 DEF OthersOK, Held, Process
  <1> QED BY <1>1, <1>2, <1>4, <1>7, <1>8, Closing DEF InStep

LEMMA ObtainResponseInductive == ASSUME IInv, ObtainResponse PROVE IInv'
  <1> DEFINE m == [mem EXCEPT !.st[mem.turns] = "response_obtained"]
  <1>1. /\ CopiesOK /\ OthersOK /\ mem.turns \in Turns
        /\ mem.seq \in Nat /\ db.seq \in Nat /\ mem.seq >= db.seq
        /\ left + mem.turns <= MaxRequests
    BY InsideTurn DEF ObtainResponse, InTurn
  <1>2. "response_obtained" \in TurnStatus \ {"none", "request_durable"}
    BY DEF TurnStatus
  <1>3. /\ m \in Snapshots /\ Sound(m)
        /\ m.seq = mem.seq /\ m.run = "running" /\ m.turns = mem.turns
    BY <1>1, <1>2, StatusEdit DEF CopiesOK
  <1> HIDE DEF m
  <1>4. TurnBoundary(m, "storing") /\ UNCHANGED <<Effects, Held, Process>>
    BY DEF ObtainResponse, m
  <1> QED BY <1>1, <1>3, <1>4, BoundaryContinues DEF Held, OthersOK

LEMMA StoreResponseInductive == ASSUME IInv, StoreResponse PROVE IInv'
  <1> DEFINE t == mem.turns
             f == [mem.st EXCEPT ![t] = "response_durable"]
             g == [mem.kind EXCEPT ![t] = resp.kind]
             h == [mem.n EXCEPT ![t] = resp.n]
             m == [mem EXCEPT !.st = f, !.kind = g, !.n = h]
  <1>1. /\ CopiesOK /\ OthersOK /\ mem.turns \in Turns
        /\ mem.seq \in Nat /\ db.seq \in Nat /\ mem.seq >= db.seq
        /\ left + mem.turns <= MaxRequests
    BY InsideTurn DEF StoreResponse, InTurn
  <1>2. /\ f \in [Turns -> TurnStatus]
        /\ g \in [Turns -> Kinds]
        /\ h \in [Turns -> 0..MaxOrd]
    BY <1>1 DEF CopiesOK, OthersOK, Snapshots, Responses, TurnStatus
  <1>3. \A u \in Turns : f[u] = IF u = t THEN "response_durable" ELSE mem.st[u]
    BY <1>1 DEF CopiesOK, Snapshots
  <1>4. TurnBoundary(m, "dispatch") /\ UNCHANGED <<Effects, out, Process>>
        /\ resp' = NoResponse
    BY DEF StoreResponse
  <1> HIDE DEF f, g, h
  <1>5. /\ m \in Snapshots
        /\ m.seq = mem.seq /\ m.run = mem.run /\ m.turns = t
        /\ m.st = f /\ m.led = mem.led
    BY <1>1, <1>2 DEF CopiesOK, Snapshots
  <1> HIDE DEF m
  <1>6. mem.turns \in Nat
    BY <1>1, LimitsAssumption DEF Turns
  <1>7. Sound(m)
    BY <1>1, <1>3, <1>5, <1>6 DEF CopiesOK, Sound, Announced
  <1>8. resp' \in Responses /\ out' \in Results \cup {"none"}
    BY <1>1, <1>4, LimitsAssumption DEF OthersOK, NoResponse, Responses, Kinds
  <1> QED BY <1>1, <1>4, <1>5, <1>7, <1>8, BoundaryContinues DEF CopiesOK

\* The loop has ended with a final answer, whatever becomes of the save.
LEMMA AcceptFinalInductive == ASSUME IInv, AcceptFinal PROVE IInv'
  <1> DEFINE a == [mem EXCEPT !.st[mem.turns] = "completed"]
             m == [a EXCEPT !.term = "completed"]
  <1>1. /\ CopiesOK /\ OthersOK /\ mem.turns \in Turns
        /\ mem.seq \in Nat /\ db.seq \in Nat /\ mem.seq >= db.seq
    BY InsideTurn DEF AcceptFinal, InTurn
  <1>2. "completed" \in TurnStatus \ {"none", "request_durable"}
    BY DEF TurnStatus
  <1>3. /\ a \in Snapshots /\ Sound(a)
        /\ a.seq = mem.seq /\ a.run = "running" /\ a.turns = mem.turns
    BY <1>1, <1>2, StatusEdit DEF CopiesOK
  <1>4. Publish(m, "completing", "failing") /\ UNCHANGED <<Effects, Held, Process>>
    BY <1>1 DEF AcceptFinal, CopiesOK, Snapshots
  <1> HIDE DEF a
  <1>5. /\ m \in Snapshots /\ m.seq = a.seq /\ m.run = a.run
        /\ m.turns = a.turns /\ m.st = a.st /\ m.led = a.led
    BY <1>3 DEF Snapshots
  <1> HIDE DEF m
  <1>6. Sound(m)
    BY <1>3, <1>5 DEF Sound, Announced
  <1>7. /\ CopiesOK' /\ faults' \in 0..MaxFaults /\ mem'.seq >= db'.seq
        /\ pc' \in {"completing", "failing"}
    BY <1>1, <1>3, <1>4, <1>5, <1>6, PublishCopies DEF OthersOK
  <1>8. OthersOK'
    BY <1>1, <1>4, <1>7, OthersKept DEF Held, OthersOK
  <1> QED BY <1>7, <1>8, Closing

\* The turn is marked failed in the working state only.
LEMMA MarkFailedInductive ==
    ASSUME IInv, pc \in {"dispatch", "uncertain"},
           mem' = [mem EXCEPT !.st[mem.turns] = "failed"],
           pc' \in {"failing", "aborting"},
           UNCHANGED <<db, cursor, Effects, Held, Process, faults>>
    PROVE  IInv'
  <1>1. /\ CopiesOK /\ OthersOK /\ mem.turns \in Turns /\ mem.seq >= db.seq
    BY InsideTurn DEF InTurn
  <1>2. "failed" \in TurnStatus \ {"none", "request_durable"}
    BY DEF TurnStatus
  <1>3. /\ mem' \in Snapshots /\ mem'.seq = mem.seq /\ mem'.run = mem.run
        /\ Sound(mem')
    BY <1>1, <1>2, StatusEdit DEF CopiesOK
  <1>4. Sound(db)' /\ Sound(cursor)' /\ Sound(mem)'
    BY <1>1, <1>3 DEF CopiesOK, Sound, Announced, Effects
  <1>5. CopiesOK'
    BY <1>1, <1>3, <1>4 DEF CopiesOK
  <1>6. OthersOK'
    BY <1>1, OthersKept DEF OthersOK, Held
  <1> QED BY <1>1, <1>3, <1>5, <1>6, Closing

\* A step that changes only where the process is, and what it holds.
LEMMA QuietInductive ==
    ASSUME IInv, pc \in InTurn \cup {"top"},
           ~(pc = "dispatch" /\ mem.kind[mem.turns] = "final"),
           pc' \in {"top", "binding", "calls", "failing"},
           pc = "top" => pc' = "failing",
           UNCHANGED <<db, mem, cursor, Effects, Held, Process>>,
           faults' \in 0..MaxFaults
    PROVE  IInv'
  <1>1. /\ CopiesOK /\ OthersOK
        /\ mem.seq >= db.seq /\ left + mem.turns <= MaxRequests
        /\ pc # "top" => mem.turns \in Turns
    BY Running DEF IInv, InTurn, Saving
  <1>2. CopiesOK'
    BY <1>1 DEF CopiesOK, Sound, Announced, Effects
  <1>3. OthersOK'
    BY <1>1, OthersKept DEF OthersOK, Held
  <1>4. CASE pc' = "failing"
    BY <1>1, <1>2, <1>3, <1>4, Closing
  <1>5. CASE pc' # "failing"
    BY <1>1, <1>2, <1>3, <1>5, Continuing DEF Process
  <1> QED BY <1>4, <1>5

LEMMA BindProposalInductive == ASSUME IInv, BindProposal PROVE IInv'
  <1>1. /\ CopiesOK /\ OthersOK /\ mem.turns \in Turns
        /\ mem.seq \in Nat /\ mem.seq >= db.seq
        /\ left + mem.turns <= MaxRequests
    BY InsideTurn DEF BindProposal, InTurn
  <1> QED BY <1>1, BoundaryContinues DEF BindProposal, CopiesOK, OthersOK, Held

-----------------------------------------------------------------------------
(* The steps of a call.                                                    *)

\* At a call, the process has a turn and a call of its proposal to do.
LEMMA CallFacts ==
    ASSUME IInv, NEW c \in Calls, AtCall(c)
    PROVE  /\ CopiesOK /\ OthersOK /\ mem.turns \in Turns
           /\ mem.seq \in Nat /\ db.seq \in Nat /\ mem.seq >= db.seq
           /\ left + mem.turns <= MaxRequests
           /\ mem.refs[mem.turns] < mem.n[mem.turns]
           /\ c = NextCall(mem)
  BY InsideTurn DEF AtCall, InTurn

\* A result was found or made without the executor.
LEMMA ResultInductive ==
    ASSUME IInv, NEW c \in Calls, AtCall(c),
           out' \in Results, pc' = "keeping",
           UNCHANGED <<db, mem, cursor, Effects, resp, Process, faults>>
    PROVE  IInv'
  <1>1. CopiesOK'
    BY CallFacts DEF CopiesOK, Sound, Announced, Effects
  <1>2. OthersOK'
    BY CallFacts, OthersKept DEF OthersOK
  <1> QED BY <1>1, <1>2, CallFacts
      DEF IInv, TypeOK, PC, CopiesOK, OthersOK, Process, Saving, InTurn, AtOneCall

\* The executor is reached through a checkpoint in which all copies agree
\* that the call is pending, and for the first time.
LEMMA BeginCallInductive ==
    ASSUME IInv, NEW c \in Calls, BeginCall(c) PROVE IInv'
  <1> DEFINE f == [mem.led EXCEPT ![c] = "pending"]
             m == [mem EXCEPT !.led = f]
  <1>1. /\ CopiesOK /\ OthersOK /\ mem.turns \in Turns
        /\ mem.seq \in Nat /\ db.seq \in Nat /\ mem.seq >= db.seq
        /\ left + mem.turns <= MaxRequests
        /\ mem.refs[mem.turns] < mem.n[mem.turns]
        /\ c = NextCall(mem) /\ mem.led[c] = "none"
    BY CallFacts DEF BeginCall
  <1>2. f \in [Calls -> LedgerStatus] /\ mem.led \in [Calls -> LedgerStatus]
    BY <1>1 DEF CopiesOK, Snapshots, LedgerStatus
  <1>3. f[c] = "pending" /\ \A d \in Calls : d # c => f[d] = mem.led[d]
    BY <1>2
  <1>4. Publish(m, "running", "uncertain") /\ UNCHANGED <<Effects, Held, Process>>
    BY DEF BeginCall
  <1> HIDE DEF f
  <1>5. /\ m \in Snapshots
        /\ m.seq = mem.seq /\ m.run = "running" /\ m.turns = mem.turns
        /\ m.st = mem.st /\ m.led = f /\ m.refs = mem.refs /\ m.n = mem.n
    BY <1>1, <1>2 DEF CopiesOK, Snapshots
  <1> HIDE DEF m
  <1>6. Sound(m)
    BY <1>1, <1>3, <1>5 DEF CopiesOK, Sound, Announced
  <1>7. ran[c] = 0
    BY <1>1 DEF CopiesOK, OthersOK, Sound, Announced
  <1>8. /\ CopiesOK' /\ faults' \in 0..MaxFaults
        /\ mem' = Projected(m) /\ mem'.seq >= db'.seq
        /\ \/ pc' = "running" /\ InStep'
           \/ pc' = "uncertain"
    BY <1>1, <1>4, <1>5, <1>6, PublishCopies DEF OthersOK
  <1>9. OthersOK'
    BY <1>1, <1>4, <1>8, OthersKept DEF Held, OthersOK
  <1>10. /\ mem'.turns = mem.turns /\ mem'.led = f
         /\ mem'.refs = mem.refs /\ mem'.n = mem.n
    BY <1>5, <1>8, ProjectedFields
  <1>11. left' + mem'.turns <= MaxRequests /\ mem'.turns \in Turns
    BY <1>1, <1>4, <1>10 DEF Process
  <1>12. CASE pc' = "uncertain"
    BY <1>8, <1>9, <1>11, <1>12, Continuing
  <1>13. CASE pc' = "running"
    <2>1. NextCall(mem') = c
      BY <1>1, <1>10 DEF NextCall
    <2>2. mem'.led[NextCall(mem')] = "pending" /\ ran'[NextCall(mem')] = 0
      BY <1>3, <1>4, <1>7, <1>10, <2>1 DEF Effects
    <2>3. mem'.refs[mem'.turns] < mem'.n[mem'.turns]
      BY <1>1, <1>10
    <2> QED BY <1>8, <1>9, <1>11, <1>13, <2>2, <2>3
         DEF IInv, TypeOK, PC, CopiesOK, OthersOK, Saving, InTurn, AtOneCall, NextCall, InStep
  <1> QED BY <1>8, <1>12, <1>13

\* At one call, the next call is a call.
LEMMA NextCallIsCall ==
    ASSUME mem \in Snapshots, mem.turns \in Turns,
           mem.refs[mem.turns] < mem.n[mem.turns]
    PROVE  /\ NextCall(mem) \in Calls
           /\ mem.refs[mem.turns] + 1 \in 0..MaxOrd
  <1>1. mem.refs[mem.turns] \in 0..MaxOrd /\ mem.n[mem.turns] \in 0..MaxOrd
    BY DEF Snapshots
  <1>2. mem.refs[mem.turns] + 1 \in 1..MaxOrd
    BY <1>1, LimitsAssumption
  <1> QED BY <1>2, LimitsAssumption DEF NextCall, Calls, Ordinals

\* The executor runs where all copies agree that its call is pending.
LEMMA RunExecutorInductive == ASSUME IInv, RunExecutor PROVE IInv'
  <1> DEFINE c == NextCall(mem)
  <1>1. /\ CopiesOK /\ OthersOK /\ mem.turns \in Turns /\ InStep
        /\ mem.seq \in Nat /\ mem.seq >= db.seq
        /\ left + mem.turns <= MaxRequests
        /\ mem.refs[mem.turns] < mem.n[mem.turns]
        /\ mem.led[c] = "pending" /\ ran[c] = 0
    BY InsideTurn DEF RunExecutor, InTurn, IInv, AtOneCall
  <1>2. /\ pc' = "settling" /\ ran' = [ran EXCEPT ![c] = @ + 1]
        /\ out' \in ToolOutcomes
        /\ UNCHANGED <<db, mem, cursor, invoked, resp, Process, faults>>
    BY DEF RunExecutor
  <1>3. ran \in [Calls -> Nat] /\ ExecutorAtMostOnce /\ c \in Calls
    BY <1>1, NextCallIsCall DEF OthersOK, CopiesOK
  <1> HIDE DEF c
  <1>4. ran' \in [Calls -> Nat] /\ ExecutorAtMostOnce'
    <2>1. \A d \in Calls : ran'[d] = IF d = c THEN 1 ELSE ran[d]
      BY <1>1, <1>2, <1>3
    <2>2. ran' \in [Calls -> Nat]
      BY <1>2, <1>3
    <2> QED BY <1>3, <2>1, <2>2 DEF ExecutorAtMostOnce
  <1>5. Sound(mem)'
    BY <1>1, <1>2, <1>3 DEF CopiesOK, Sound, Announced
  <1>6. CopiesOK'
    BY <1>1, <1>2, <1>5 DEF CopiesOK, InStep
  <1>7. OthersOK'
    BY <1>1, <1>2, <1>4 DEF OthersOK, Process, ProviderAtMostOnce, Results
  <1> QED BY <1>1, <1>2, <1>6, <1>7
      DEF IInv, TypeOK, PC, CopiesOK, OthersOK, Process, Saving, InTurn, AtOneCall

LEMMA SettleCallInductive == ASSUME IInv, SettleCall PROVE IInv'
  <1> DEFINE c == NextCall(mem)
             f == [mem.led EXCEPT ![c] = out]
             m == [mem EXCEPT !.led = f]
  <1>1. /\ CopiesOK /\ OthersOK /\ mem.turns \in Turns
        /\ mem.seq \in Nat /\ db.seq \in Nat /\ mem.seq >= db.seq
        /\ left + mem.turns <= MaxRequests
        /\ mem.refs[mem.turns] < mem.n[mem.turns]
        /\ out \in ToolOutcomes
    BY InsideTurn DEF SettleCall, InTurn, IInv, AtOneCall
  <1>2. mem \in Snapshots /\ mem.led \in [Calls -> LedgerStatus]
    BY <1>1 DEF CopiesOK, Snapshots
  <1>3. f \in [Calls -> LedgerStatus]
    BY <1>1, <1>2 DEF LedgerStatus, Settled
  <1>4. \A d \in Calls : mem.led[d] # "none" => f[d] # "none"
    BY <1>1, <1>2, OutcomesAssumption
  <1>5. Publish(m, "keeping", "uncertain") /\ UNCHANGED <<Effects, Held, Process>>
    BY DEF SettleCall
  <1> HIDE DEF f
  <1>6. /\ m \in Snapshots
        /\ m.seq = mem.seq /\ m.run = "running" /\ m.turns = mem.turns
        /\ m.st = mem.st /\ m.led = f /\ m.refs = mem.refs /\ m.n = mem.n
    BY <1>1, <1>3 DEF CopiesOK, Snapshots
  <1> HIDE DEF m
  <1>7. Sound(m)
    BY <1>1, <1>4, <1>6 DEF CopiesOK, Sound, Announced
  <1>8. /\ CopiesOK' /\ faults' \in 0..MaxFaults
        /\ mem' = Projected(m) /\ mem'.seq >= db'.seq
        /\ pc' \in {"keeping", "uncertain"}
    BY <1>1, <1>5, <1>6, <1>7, PublishCopies DEF OthersOK
  <1>9. OthersOK'
    BY <1>1, <1>5, <1>8, OthersKept DEF Held, OthersOK
  <1>10. /\ mem'.turns = mem.turns
         /\ mem'.refs = mem.refs /\ mem'.n = mem.n
    BY <1>6, <1>8, ProjectedFields
  <1>11. /\ left' + mem'.turns <= MaxRequests /\ mem'.turns \in Turns
         /\ mem'.refs[mem'.turns] < mem'.n[mem'.turns]
    BY <1>1, <1>5, <1>10 DEF Process
  <1> QED BY <1>8, <1>9, <1>11
      DEF IInv, TypeOK, PC, CopiesOK, OthersOK, Saving, InTurn, AtOneCall

LEMMA KeepResultInductive == ASSUME IInv, KeepResult PROVE IInv'
  <1> DEFINE t == mem.turns
             done == mem.refs[t] + 1 = mem.n[t]
             status == IF done THEN "tool_results_durable" ELSE "tool_results_partial"
             f == [mem.res EXCEPT ![NextCall(mem)] = out]
             g == [mem.refs EXCEPT ![t] = @ + 1]
             h == [mem.st EXCEPT ![t] = status]
             m == [mem EXCEPT !.res = f, !.refs = g, !.st = h]
             next == IF Terminates(m) THEN "failing" ELSE "calls"
  <1>1. /\ CopiesOK /\ OthersOK /\ mem.turns \in Turns
        /\ mem.seq \in Nat /\ db.seq \in Nat /\ mem.seq >= db.seq
        /\ left + mem.turns <= MaxRequests
        /\ mem.refs[mem.turns] < mem.n[mem.turns]
        /\ out \in Results \cup {"none"}
    BY InsideTurn DEF KeepResult, InTurn, IInv, AtOneCall, OthersOK
  <1>2. mem \in Snapshots /\ mem.run = "running" /\ Sound(mem)
    BY <1>1 DEF CopiesOK
  <1>3. NextCall(mem) \in Calls /\ mem.refs[t] + 1 \in 0..MaxOrd
    BY <1>1, <1>2, NextCallIsCall
  <1>4. f \in [Calls -> Results \cup {"none"}]
    BY <1>1, <1>2, <1>3 DEF Snapshots
  <1>5. g \in [Turns -> 0..MaxOrd]
    BY <1>1, <1>2, <1>3 DEF Snapshots
  <1>6. status \in TurnStatus \ {"none", "request_durable"}
    BY DEF TurnStatus
  <1>7. /\ ToolBoundary(m, next) /\ out' = "none"
        /\ UNCHANGED <<Effects, resp, Process>>
    BY DEF KeepResult
  <1>8. next \in {"failing", "calls"}
    OBVIOUS
  <1> HIDE DEF status, next
  <1>9. /\ h \in [Turns -> TurnStatus]
        /\ \A u \in Turns : h[u] = IF u = t THEN status ELSE mem.st[u]
    BY <1>1, <1>2, <1>6 DEF Snapshots
  <1> HIDE DEF f, g, h
  <1>10. /\ m \in Snapshots
         /\ m.seq = mem.seq /\ m.run = mem.run /\ m.turns = mem.turns
         /\ m.st = h /\ m.led = mem.led
    BY <1>2, <1>4, <1>5, <1>9 DEF Snapshots
  <1> HIDE DEF m
  <1>11. mem.turns \in Nat
    BY <1>1, LimitsAssumption DEF Turns
  <1>12. Sound(m)
    BY <1>2, <1>1, <1>6, <1>9, <1>10, <1>11 DEF Sound, Announced
  <1>13. resp' \in Responses /\ out' \in Results \cup {"none"}
    BY <1>1, <1>7 DEF OthersOK
  <1> QED BY <1>1, <1>2, <1>7, <1>8, <1>10, <1>12, <1>13, BoundaryContinues

-----------------------------------------------------------------------------
(* The end of the loop and of the process.                                 *)

\* The loop saves its verdict and leaves.
LEMMA VerdictInductive ==
    ASSUME IInv, pc \in {"top", "failing"},
           NEW term \in {"failed", "budget_exhausted"},
           NEW onError \in {"aborting", "failing"},
           Publish([mem EXCEPT !.term = term], "aborting", onError),
           UNCHANGED <<Effects, Held, Process>>
    PROVE  IInv'
  <1> DEFINE m == [mem EXCEPT !.term = term]
  <1>1. CopiesOK /\ OthersOK /\ mem.seq >= db.seq
    BY Running DEF IInv, Saving
  <1>2. /\ m \in Snapshots /\ m.seq = mem.seq /\ m.run = "running"
        /\ m.turns = mem.turns /\ m.st = mem.st /\ m.led = mem.led
    BY <1>1 DEF CopiesOK, Snapshots
  <1>3. Publish(m, "aborting", onError)
    OBVIOUS
  <1> HIDE DEF m
  <1>4. Sound(m)
    BY <1>1, <1>2 DEF CopiesOK, Sound, Announced
  <1>5. /\ CopiesOK' /\ faults' \in 0..MaxFaults /\ mem'.seq >= db'.seq
        /\ pc' \in {"aborting", "failing"}
    BY <1>1, <1>2, <1>3, <1>4, PublishCopies DEF OthersOK
  <1>6. OthersOK'
    BY <1>1, <1>5, OthersKept DEF Held, OthersOK
  <1> QED BY <1>5, <1>6, Closing

\* The engine's snapshot may be saved over whatever the store holds.
LEMMA ClosedSound ==
    ASSUME IInv, NEW verdict \in {"completed", "failed"},
           Acknowledged(Closed(verdict)) \/ Raised(Closed(verdict)),
           UNCHANGED Effects
    PROVE  /\ db' \in Snapshots /\ Sound(db)'
           /\ db'.run # "none" \/ UNCHANGED db
           /\ faults' \in 0..MaxFaults
  <1> DEFINE row == Closed(verdict)
  <1>1. /\ db \in Snapshots /\ cursor \in Snapshots /\ Sound(db) /\ Sound(cursor)
        /\ faults \in 0..MaxFaults
    BY DEF IInv, TypeOK
  <1>2. /\ row \in Snapshots /\ row.run = verdict /\ row.turns = cursor.turns
        /\ row.st = cursor.st /\ row.led = cursor.led
    BY <1>1, ClosedFields
  <1> HIDE DEF row
  <1>3. db' \in {db, row} /\ faults' \in 0..MaxFaults
    BY <1>1, SaveOutcome, LimitsAssumption DEF row
  <1>4. Sound(row)
    BY <1>1, <1>2 DEF Sound, Announced
  <1>5. Sound(db)'
    BY <1>1, <1>3, <1>4 DEF Sound, Announced, Effects
  <1> QED BY <1>1, <1>2, <1>3, <1>5

LEMMA FinishInductive ==
    ASSUME IInv, pc \in {"completing", "aborting"},
           NEW verdict \in {"completed", "failed"},
           Finish(verdict), UNCHANGED <<Effects, crashes>>
    PROVE  IInv'
  <1>1. CopiesOK /\ OthersOK
    BY Running
  <1>2. /\ db' \in Snapshots /\ Sound(db)'
        /\ db'.run # "none" \/ UNCHANGED db
        /\ faults' \in 0..MaxFaults
    BY ClosedSound DEF Finish
  <1>3. CASE /\ pc' \in {"tracing", "rescuing"}
             /\ UNCHANGED <<mem, cursor, Held, left, fresh>>
    <2>1. Sound(mem)' /\ Sound(cursor)'
      BY <1>1, <1>3 DEF CopiesOK, Sound, Announced, Effects
    <2>2. CopiesOK'
      BY <1>1, <1>2, <1>3, <2>1 DEF CopiesOK
    <2>3. OthersOK'
      BY <1>1, <1>2, <1>3, OthersKept DEF OthersOK, Held, Process
    <2> QED BY <1>3, <2>2, <2>3, Closing
  <1>4. CASE Gone
    <2>1. crashes' \in 0..MaxCrashes
      BY <1>1 DEF OthersOK
    <2> QED BY <1>2, <1>4, <2>1, Ended
  <1> QED BY <1>3, <1>4 DEF Finish

LEMMA TraceFailsInductive == ASSUME IInv, TraceFails PROVE IInv'
  <1>1. CopiesOK /\ OthersOK
    BY Running DEF TraceFails
  <1>2. faults' \in 0..MaxFaults
    BY <1>1, LimitsAssumption DEF TraceFails, Fault, OthersOK
  <1>3. UNCHANGED <<db, Effects, crashes>>
    BY DEF TraceFails
  <1>4. CASE /\ pc' = "rescuing"
             /\ UNCHANGED <<mem, cursor, Held, left, fresh>>
    <2>1. CopiesOK'
      BY <1>1, <1>3, <1>4 DEF CopiesOK, Sound, Announced, Effects
    <2>2. OthersOK'
      BY <1>1, <1>2, <1>3, <1>4, OthersKept DEF OthersOK, Held, Process
    <2> QED BY <1>4, <2>1, <2>2, Closing
  <1>5. CASE Gone
    <2>1. Sound(db)'
      BY <1>1, <1>3 DEF CopiesOK, Sound, Announced, Effects
    <2> QED BY <1>1, <1>2, <1>3, <1>5, <2>1, Ended DEF CopiesOK, OthersOK
  <1> QED BY <1>4, <1>5 DEF TraceFails

LEMMA RescueInductive == ASSUME IInv, Rescue PROVE IInv'
  <1>1. /\ Acknowledged(Closed("failed")) \/ Raised(Closed("failed"))
        /\ Gone /\ UNCHANGED Effects /\ UNCHANGED crashes
    BY DEF Rescue
  <1>2. /\ db' \in Snapshots /\ Sound(db)'
        /\ db'.run # "none" \/ UNCHANGED db
        /\ faults' \in 0..MaxFaults
    BY <1>1, ClosedSound
  <1>3. crashes' \in 0..MaxCrashes
    BY <1>1 DEF IInv, TypeOK
  <1> QED BY <1>1, <1>2, <1>3, Ended

\* The process is gone and has saved nothing on its way out.
LEMMA GoneInductive ==
    ASSUME IInv, Gone, UNCHANGED <<db, Effects, faults>>, crashes' \in 0..MaxCrashes
    PROVE  IInv'
  <1>1. db \in Snapshots /\ Sound(db) /\ faults \in 0..MaxFaults
    BY DEF IInv, TypeOK
  <1>2. Sound(db)'
    BY <1>1 DEF Sound, Announced, Effects
  <1> QED BY <1>1, <1>2, Ended

-----------------------------------------------------------------------------
(* The theorems.                                                           *)

\* The steps of execute_tool_proposal for one call.
LEMMA CallStepInductive ==
    ASSUME IInv, CallStep
    PROVE  IInv'
  <1> PICK c \in Calls : \/ StopStalled(c) \/ ReuseLedger(c)
                         \/ ReuseSearch(c) \/ RefuseCall(c) \/ BeginCall(c)
    BY DEF CallStep
  <1>1. CASE StopStalled(c)
    <2>1. /\ pc \in {"calls", "binding"} /\ pc' = "failing"
          /\ UNCHANGED <<db, mem, cursor, Effects, Held, Process, faults>>
      BY <1>1 DEF StopStalled, AtCall
    <2>2. faults' \in 0..MaxFaults
      BY <2>1 DEF IInv, TypeOK
    <2> QED BY <2>1, <2>2, QuietInductive DEF InTurn
  <1>2. CASE ReuseLedger(c) \/ ReuseSearch(c) \/ RefuseCall(c)
    <2>1. /\ AtCall(c) /\ pc' = "keeping"
          /\ UNCHANGED <<db, mem, cursor, Effects, resp, Process, faults>>
      BY <1>2 DEF ReuseLedger, ReuseSearch, RefuseCall
    <2>2. out' \in Results
      BY <1>2 DEF ReuseLedger, ReuseSearch, RefuseCall, Results, Settled
    <2> QED BY <2>1, <2>2, ResultInductive
  <1>3. CASE BeginCall(c)
    BY <1>3, BeginCallInductive
  <1> QED BY <1>1, <1>2, <1>3

\* Every step, and doing nothing, preserves the invariant.
LEMMA NextInductive == IInv /\ [Next]_vars => IInv'
  <1> SUFFICES ASSUME IInv, [Next]_vars PROVE IInv'
    OBVIOUS
  <1>0. faults \in 0..MaxFaults /\ crashes \in 0..MaxCrashes
    BY DEF IInv, TypeOK
  <1>1. CASE Start
    BY <1>1, StartInductive
  <1>2. CASE Resume
    BY <1>2, ResumeInductive
  <1>3. CASE Crash
    <2>1. crashes' \in 0..MaxCrashes
      BY <1>0, <1>3, LimitsAssumption DEF Crash
    <2> QED BY <1>3, <2>1, GoneInductive DEF Crash
  <1>4. CASE Step
    <2>1. CASE WriteRequest
      BY <2>1, WriteRequestInductive
    <2>2. CASE ExhaustSteps
      BY <2>2, VerdictInductive DEF ExhaustSteps
    <2>3. CASE ArtifactFails
      <3>1. faults' \in 0..MaxFaults
        BY <1>0, <2>3, LimitsAssumption DEF ArtifactFails, Fault
      <3> QED BY <2>3, <3>1, QuietInductive DEF ArtifactFails, InTurn
    <2>4. CASE SendRequest
      BY <2>4, SendRequestInductive
    <2>5. CASE Invoke
      BY <2>5, InvokeInductive
    <2>6. CASE InvokeFails
      BY <2>6, InvokeFailsInductive
    <2>7. CASE ObtainResponse
      BY <2>7, ObtainResponseInductive
    <2>8. CASE StoreResponse
      BY <2>8, StoreResponseInductive
    <2>9. CASE AcceptFinal
      BY <2>9, AcceptFinalInductive
    <2>10. CASE AcceptError
      BY <2>10, MarkFailedInductive DEF AcceptError
    <2>11. CASE AcceptTools
      BY <1>0, <2>11, QuietInductive DEF AcceptTools, InTurn
    <2>12. CASE BindProposal
      BY <2>12, BindProposalInductive
    <2>13. CASE ProposalDone
      BY <1>0, <2>13, QuietInductive DEF ProposalDone, InTurn
    <2>14. CASE CallStep
      BY <2>14, CallStepInductive
    <2>15. CASE RunExecutor
      BY <2>15, RunExecutorInductive
    <2>16. CASE SettleCall
      BY <2>16, SettleCallInductive
    <2>17. CASE StopUncertain
      BY <2>17, MarkFailedInductive DEF StopUncertain
    <2>18. CASE KeepResult
      BY <2>18, KeepResultInductive
    <2>19. CASE FailLoop
      BY <2>19, VerdictInductive DEF FailLoop
    <2>20. CASE FinishAnswered
      BY <2>20, FinishInductive DEF FinishAnswered
    <2>21. CASE FinishFailed
      BY <2>21, FinishInductive DEF FinishFailed
    <2>22. CASE Trace
      BY <1>0, <2>22, GoneInductive DEF Trace
    <2>23. CASE TraceFails
      BY <2>23, TraceFailsInductive
    <2>24. CASE Rescue
      BY <2>24, RescueInductive
    <2> QED BY <1>4, <2>1, <2>2, <2>3, <2>4, <2>5, <2>6, <2>7, <2>8, <2>9,
               <2>10, <2>11, <2>12, <2>13, <2>14, <2>15, <2>16, <2>17, <2>18,
               <2>19, <2>20, <2>21, <2>22, <2>23, <2>24 DEF Step
  <1>5. CASE UNCHANGED vars
    BY <1>5 DEF vars, IInv, TypeOK, Sound, Announced, InStep, NextCall,
                Saving, InTurn, AtOneCall, ProviderAtMostOnce, ExecutorAtMostOnce
  <1> QED BY <1>1, <1>2, <1>3, <1>4, <1>5 DEF Next

\* In every reachable state each copy of the run's state announces every
\* effect, and an effect is caused only where all copies agree on it.
THEOREM Inductive == Spec => []IInv
  BY InitInductive, NextInductive, PTL DEF Spec

\* The variables keep their types, through crashes, failed saves and
\* resumptions.
THEOREM TypeCorrect == Spec => []TypeOK
  <1>1. IInv => TypeOK
    BY DEF IInv
  <1> QED BY <1>1, Inductive, PTL

\* The newest checkpoint has a sent record for every request the provider
\* received and a ledger record for every tool that ran, also after a crash
\* and after the engine has saved a snapshot of its own.
THEOREM EffectsAreAnnounced == Spec => []EffectsAnnounced
  <1>1. IInv => EffectsAnnounced
    BY DEF IInv, Sound, EffectsAnnounced
  <1> QED BY <1>1, Inductive, PTL

\* No turn's request reaches the provider twice.
THEOREM ProviderOnce == Spec => []ProviderAtMostOnce
  <1>1. IInv => ProviderAtMostOnce
    BY DEF IInv
  <1> QED BY <1>1, Inductive, PTL

\* No tool call's executor runs twice.
THEOREM ExecutorOnce == Spec => []ExecutorAtMostOnce
  <1>1. IInv => ExecutorAtMostOnce
    BY DEF IInv
  <1> QED BY <1>1, Inductive, PTL

-----------------------------------------------------------------------------
(* The run implements the at-most-once journal.                            *)

\* Only three steps cause an effect.
LEMMA EffectSteps ==
    ASSUME [Next]_vars
    PROVE  UNCHANGED Effects \/ Invoke \/ InvokeFails \/ RunExecutor
  <1>1. CASE Start \/ Resume \/ Crash
    BY <1>1 DEF Start, Resume, Crash
  <1>2. CASE WriteRequest \/ ExhaustSteps \/ ArtifactFails \/ SendRequest
    BY <1>2 DEF WriteRequest, ExhaustSteps, ArtifactFails, SendRequest
  <1>3. CASE ObtainResponse \/ StoreResponse \/ AcceptFinal \/ AcceptError \/ AcceptTools
    BY <1>3 DEF ObtainResponse, StoreResponse, AcceptFinal, AcceptError, AcceptTools
  <1>4. CASE BindProposal \/ ProposalDone \/ SettleCall \/ StopUncertain \/ KeepResult
    BY <1>4 DEF BindProposal, ProposalDone, SettleCall, StopUncertain, KeepResult
  <1>5. CASE CallStep
    BY <1>5 DEF CallStep, StopStalled, ReuseLedger, ReuseSearch,
                RefuseCall, BeginCall
  <1>6. CASE FailLoop \/ FinishAnswered \/ FinishFailed \/ Trace \/ TraceFails \/ Rescue
    BY <1>6 DEF FailLoop, FinishAnswered, FinishFailed, Trace, TraceFails, Rescue
  <1>7. CASE UNCHANGED vars
    BY <1>7 DEF vars, Effects
  <1> QED BY <1>1, <1>2, <1>3, <1>4, <1>5, <1>6, <1>7 DEF Next, Step

\* An external effect is a turn's request or a call.
LEMMA EffectKinds ==
    ASSUME NEW a \in ExternalEffects
    PROVE  /\ a[1] \in Turns
           /\ a[2] # 0 => a \in Calls
  BY LimitsAssumption DEF ExternalEffects, Calls, Ordinals

\* A step without an effect only revises the promises.
LEMMA QuietStepRevises ==
    ASSUME IInv', UNCHANGED Effects
    PROVE  Journal!Revise
  <1>1. Performed' = Performed
    BY DEF Performed, Effects
  <1>2. TypeOK' /\ Announced(db)'
    BY DEF IInv, Sound
  <1>3. ASSUME NEW a \in ExternalEffects, Performed'[a] > 0
        PROVE  a \in Promised'
    BY <1>2, <1>3, EffectKinds DEF TypeOK, Announced, Performed, Promised
  <1>4. Promised' \in SUBSET ExternalEffects
    BY DEF Promised
  <1> QED BY <1>1, <1>3, <1>4 DEF Journal!Revise

\* A provider call performs a promised effect for the first time.
LEMMA InvocationPerforms ==
    ASSUME IInv, pc = "invoking",
           invoked' = [invoked EXCEPT ![mem.turns] = @ + 1],
           UNCHANGED <<db, ran>>
    PROVE  \E a \in ExternalEffects : Journal!Perform(a)
  <1> DEFINE t == mem.turns
             a == <<t, 0>>
  <1>1. /\ t \in Turns /\ invoked \in [Turns -> Nat] /\ ran \in [Calls -> Nat]
        /\ invoked[t] = 0 /\ db.st[t] = "request_sent"
    BY DEF IInv, TypeOK, InTurn, InStep
  <1>2. a \in ExternalEffects /\ a[1] = t /\ a[2] = 0
    BY <1>1, LimitsAssumption DEF ExternalEffects
  <1>3. a \in Promised
    BY <1>1, <1>2 DEF Promised
  <1>4. Performed[a] = 0
    BY <1>1, <1>2 DEF Performed
  <1>5. invoked' = [invoked EXCEPT ![t] = 1]
    BY <1>1
  <1>6. \A b \in ExternalEffects : b[1] = t /\ b[2] = 0 => b = a
    BY DEF ExternalEffects
  <1> HIDE DEF a, t
  <1>7. Performed' = [Performed EXCEPT ![a] = 1]
    <2>1. ASSUME NEW b \in ExternalEffects
          PROVE  Performed'[b] = [Performed EXCEPT ![a] = 1][b]
      <3>1. CASE b = a
        BY <1>1, <1>2, <1>5, <2>1, <3>1 DEF Performed
      <3>2. CASE b # a
        <4>1. b[1] # t \/ b[2] # 0
          BY <1>6, <2>1, <3>2
        <4> QED BY <1>1, <1>5, <2>1, <3>2, <4>1, EffectKinds DEF Performed
      <3> QED BY <3>1, <3>2
    <2> QED BY <2>1 DEF Performed
  <1>8. Promised' = Promised
    BY DEF Promised
  <1> QED BY <1>2, <1>3, <1>4, <1>7, <1>8 DEF Journal!Perform

\* So does an executor.
LEMMA ExecutionPerforms ==
    ASSUME IInv, RunExecutor
    PROVE  \E a \in ExternalEffects : Journal!Perform(a)
  <1> DEFINE c == NextCall(mem)
  <1>1. /\ c \in Calls /\ ran \in [Calls -> Nat]
        /\ ran[c] = 0 /\ db.led[c] = "pending"
    BY NextCallIsCall DEF IInv, TypeOK, InTurn, InStep, AtOneCall, RunExecutor
  <1> HIDE DEF c
  <1>2. c \in ExternalEffects /\ c[2] # 0
    BY <1>1, LimitsAssumption DEF ExternalEffects, Calls, Ordinals
  <1>3. c \in Promised
    BY <1>1, <1>2 DEF Promised
  <1>4. Performed[c] = 0
    BY <1>1, <1>2 DEF Performed
  <1>5. ran' = [ran EXCEPT ![c] = 1] /\ UNCHANGED <<db, invoked>>
    BY <1>1 DEF RunExecutor, c
  <1>6. Performed' = [Performed EXCEPT ![c] = 1]
    <2>1. ASSUME NEW b \in ExternalEffects
          PROVE  Performed'[b] = [Performed EXCEPT ![c] = 1][b]
      BY <1>1, <1>2, <1>5, <2>1, EffectKinds DEF Performed
    <2> QED BY <2>1 DEF Performed
  <1>7. Promised' = Promised
    BY <1>5 DEF Promised
  <1> QED BY <1>2, <1>3, <1>4, <1>6, <1>7 DEF Journal!Perform

\* The initial checkpoint promises nothing and nothing was performed.
LEMMA JournalInit == Init => Journal!Init
  <1> SUFFICES ASSUME Init PROVE Journal!Init
    OBVIOUS
  <1>1. /\ \A t \in Turns : db.st[t] = "none" /\ invoked[t] = 0
        /\ \A c \in Calls : db.led[c] = "none" /\ ran[c] = 0
    BY DEF Init, Blank
  <1>2. Promised = {}
    BY <1>1, EffectKinds DEF Promised
  <1>3. Performed = [a \in ExternalEffects |-> 0]
    BY <1>1, EffectKinds DEF Performed
  <1> QED BY <1>2, <1>3 DEF Journal!Init

\* Every step is a step of the journal.
LEMMA JournalStep == IInv /\ IInv' /\ [Next]_vars => [Journal!Next]_Journal!vars
  <1> SUFFICES ASSUME IInv, IInv', [Next]_vars
               PROVE  Journal!Next
    BY DEF Journal!vars
  <1>1. CASE UNCHANGED Effects
    BY <1>1, QuietStepRevises DEF Journal!Next
  <1>2. CASE Invoke \/ InvokeFails
    BY <1>2, InvocationPerforms DEF Invoke, InvokeFails, Journal!Next
  <1>3. CASE RunExecutor
    BY <1>3, ExecutionPerforms DEF Journal!Next
  <1> QED BY <1>1, <1>2, <1>3, EffectSteps

\* The durable run implements the at-most-once journal: its newest
\* checkpoint promises a request or a tool execution before it happens,
\* keeps the promise on record once it did, and none happens twice.
THEOREM RunImplementsJournal == Spec => JournalSpec
  BY JournalInit, JournalStep, Inductive, PTL DEF Spec, JournalSpec, Journal!Spec

=============================================================================
