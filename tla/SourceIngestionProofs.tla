------------------------ MODULE SourceIngestionProofs ------------------------
(***************************************************************************)
(* Theorems of SourceIngestion, for every set of closers and versions and   *)
(* every number of segments: shutting down closes the stores under nobody   *)
(* and refuses nothing that admitted work still asks for, a complete source *)
(* was reviewed, and a busy one is owned.                                   *)
(*                                                                         *)
(* The argument is IInv.  About shutting down: each closer has done the     *)
(* stages behind it, and no step of others undoes one.  About a source: an  *)
(* ingestion holds what it has found until it is captured.                  *)
(***************************************************************************)
EXTENDS SourceIngestion, TLAPS

-----------------------------------------------------------------------------
(* Shutting down.                                                          *)

\* The order of the stages of close: a group is waited for after it was
\* stopped, one that others hand over to is stopped after they were waited
\* for, and the stores are closed last.
LEMMA CloseOrder ==
    /\ Len(Close) = 14
    /\ \A k \in 1..14 : Close[k].do \in {"stop", "wait", "enter", "close"}
    /\ \A k \in 1..14 : Close[k].do = "wait" =>
          \E j \in 1..(k - 1) : Close[j] = Stop(Close[k].of)
    /\ \A k \in 1..14 : Close[k].do = "stop" /\ Close[k].of \in Tasks \ {"http", "import", "start"} =>
          /\ \E j \in 1..(k - 1) : Close[j] = Wait(Caller[Close[k].of])
    /\ \A k \in 1..14 : Close[k].do = "close" =>
          \A t \in Tasks : \E j \in 1..(k - 1) : Close[j] = Wait(t)
    /\ \A k \in 1..14 : Close[k].do = "close" <=> k = 14
    /\ \A k \in 1..14 : Close[k].do = "enter" <=> k = 4
  <1>1. /\ Len(Close) = 14
        /\ Close[1] = Stop("import") /\ Close[2] = Stop("start") /\ Close[3] = Stop("http")
        /\ Close[4] = Enter /\ Close[5] = Wait("import") /\ Close[6] = Stop("ingest")
        /\ Close[7] = Wait("ingest") /\ Close[8] = Wait("start") /\ Close[9] = Stop("run")
        /\ Close[10] = Wait("run") /\ Close[11] = Stop("send") /\ Close[12] = Wait("send")
        /\ Close[13] = Wait("http") /\ Close[14] = CloseStores
    BY DEF Close
  <1>2. /\ Caller["ingest"] = "import" /\ Caller["run"] = "start" /\ Caller["send"] = "run"
    BY DEF Caller
  <1> HIDE DEF Close
  <1> QED BY <1>1, <1>2 DEF Stop, Wait, Enter, CloseStores, Tasks

\* The types of what a closer is doing.
LEMMA StageType ==
    ASSUME ShutdownInv, NEW c \in Closers
    PROVE  /\ closer[c] \in 0..14
           /\ closer[c] # 0 => closer[c] \in 1..14
  <1> QED BY CloseOrder DEF ShutdownInv, ShutdownTypeOK

\* Work that comes and goes without touching the closers: only a group that
\* still admits gets more of it.
LEMMA WorkStep ==
    ASSUME ShutdownInv, UNCHANGED <<accepting, closer, entered, closing, closed>>,
           live' \subseteq live \cup (accepting \cap Tasks), lock' \in Tasks \cup {None}
    PROVE  ShutdownInv'
  <1>1. ShutdownTypeOK' /\ (closed' => accepting' = {} /\ live' = {})
    BY DEF ShutdownInv, ShutdownTypeOK
  <1>2. PassedIsDone'
    BY DEF ShutdownInv, PassedIsDone
  <1>3. CallersFirst'
    BY DEF ShutdownInv, CallersFirst
  <1> QED BY <1>1, <1>2, <1>3 DEF ShutdownInv

\* A closer goes on to its next stage, having done the one it was at.
LEMMA Advanced ==
    ASSUME ShutdownInv, NEW c \in Closers, Advance(c), closer[c] < 14,
           accepting' \subseteq accepting, live' = live,
           \A d \in Closers \ {c} : closer[d] > 4 => entered' = entered,
           closer[c] > 4 => entered' = entered,
           closer[c] # 0 => LET s == Close[closer[c]] IN
              /\ s.do \in {"stop", "wait"} => s.of \notin accepting'
              /\ s.do = "wait" => s.of \notin live'
              /\ s.do = "enter" => entered' = c
    PROVE  PassedIsDone' /\ closer' \in [Closers -> 0..Len(Close)]
  <1>1. /\ closer \in [Closers -> 0..14] /\ PassedIsDone
        /\ closer' = [closer EXCEPT ![c] = @ + 1]
    BY CloseOrder DEF ShutdownInv, ShutdownTypeOK, Advance
  <1>2. closer' \in [Closers -> 0..Len(Close)]
    BY <1>1, CloseOrder
  <1>3. ASSUME NEW d \in Closers, NEW k \in 1..(closer'[d] - 1)
        PROVE  /\ Close[k].do \in {"stop", "wait"} => Close[k].of \notin accepting'
               /\ Close[k].do = "wait" => Close[k].of \notin live'
               /\ Close[k].do = "enter" => entered' = d
    <2>1. k \in 1..14 /\ closer[d] \in 0..14 /\ closer'[d] \in 0..14
      BY <1>1, <1>2, CloseOrder
    <2>2. CASE k < closer[d]
      <3>1. /\ Close[k].do \in {"stop", "wait"} => Close[k].of \notin accepting
            /\ Close[k].do = "wait" => Close[k].of \notin live
            /\ Close[k].do = "enter" => entered = d
        BY <1>1, <2>1, <2>2 DEF PassedIsDone
      <3>2. Close[k].do = "enter" => closer[d] > 4
        BY <2>1, <2>2, CloseOrder
      <3> QED BY <3>1, <3>2
    <2>3. CASE k >= closer[d]
      <3>1. d = c /\ k = closer[c]
        BY <1>1, <2>1, <2>3
      <3> QED BY <3>1, <2>1
    <2> QED BY <2>1, <2>2, <2>3
  <1> QED BY <1>2, <1>3 DEF PassedIsDone

\* Whoever is past the close lock holds it.
LEMMA Holder ==
    ASSUME ShutdownInv, NEW c \in Closers, closer[c] > 4
    PROVE  entered = c /\ entered # None
  <1>1. closer[c] \in 0..14
    BY StageType
  <1>2. 4 \in 1..(closer[c] - 1)
    BY <1>1
  <1> QED BY <1>2, CloseOrder, ShutdownAssumption DEF ShutdownInv, PassedIsDone

\* A closer that leaves: what it passed does not matter any more.
LEMMA Left ==
    ASSUME ShutdownInv, NEW c \in Closers, closer' = [closer EXCEPT ![c] = 0],
           UNCHANGED <<accepting, live>>,
           \A d \in Closers \ {c} : closer[d] > 4 => entered' = entered
    PROVE  PassedIsDone' /\ closer' \in [Closers -> 0..Len(Close)]
  <1>1. closer \in [Closers -> 0..14] /\ PassedIsDone
    BY CloseOrder DEF ShutdownInv, ShutdownTypeOK
  <1>2. closer' \in [Closers -> 0..Len(Close)]
    BY <1>1, CloseOrder
  <1>3. ASSUME NEW d \in Closers, NEW k \in 1..(closer'[d] - 1)
        PROVE  /\ Close[k].do \in {"stop", "wait"} => Close[k].of \notin accepting'
               /\ Close[k].do = "wait" => Close[k].of \notin live'
               /\ Close[k].do = "enter" => entered' = d
    <2>1. d # c /\ closer'[d] = closer[d] /\ closer[d] \in 0..14
      BY <1>1
    <2>2. k \in 1..14 /\ (Close[k].do = "enter" => closer[d] > 4)
      BY <2>1, CloseOrder
    <2> QED BY <1>1, <2>1, <2>2 DEF PassedIsDone
  <1> QED BY <1>2, <1>3 DEF PassedIsDone

\* The steps of close keep it.
LEMMA ClosingStep ==
    ASSUME ShutdownInv, NEW c \in Closers, Closing(c) \/ TimesOut(c)
    PROVE  ShutdownInv' /\ live' = live /\ lock' = lock
  <1>1. /\ closer[c] \in 0..14 /\ ShutdownTypeOK /\ CallersFirst /\ PassedIsDone
        /\ closed => accepting = {} /\ live = {}
    BY StageType DEF ShutdownInv
  <1>2. \A d \in Closers \ {c} : closer[d] > 4 => entered = d /\ entered # None
    BY Holder
  <1>3. closer[c] > 4 => entered = c
    BY Holder
  <1>4. CASE Begin(c)
    <2>1. PassedIsDone' /\ closer' \in [Closers -> 0..Len(Close)]
      BY <1>4, Advanced DEF Begin
    <2> QED BY <2>1, <1>1, <1>4 DEF Begin, ShutdownInv, ShutdownTypeOK, CallersFirst
  <1>5. CASE StopAccepting(c)
    <2>1. closer[c] \in 1..14 /\ closer[c] < 14 /\ Close[closer[c]].do = "stop"
      BY <1>1, <1>5, CloseOrder DEF StopAccepting, At
    <2>2. accepting' = accepting \ {Close[closer[c]].of} /\ Advance(c)
          /\ UNCHANGED <<live, lock, entered, closing, closed>>
      BY <1>5 DEF StopAccepting, Of
    <2>3. PassedIsDone' /\ closer' \in [Closers -> 0..Len(Close)]
      BY <2>1, <2>2, Advanced
    <2>4. CallersFirst'
      <3>1. ASSUME NEW t \in Tasks \ {"http", "import", "start"}, t = Close[closer[c]].of
            PROVE  Caller[t] \notin accepting \cup live
        <4>1. PICK j \in 1..(closer[c] - 1) : Close[j] = Wait(Caller[t])
          BY <2>1, <3>1, CloseOrder
        <4>2. Close[j].do = "wait" /\ Close[j].of = Caller[t]
          BY <4>1 DEF Wait
        <4> QED BY <4>2, <1>1 DEF PassedIsDone
      <3> QED BY <3>1, <2>2, <1>1 DEF CallersFirst
    <2> QED BY <2>2, <2>3, <2>4, <1>1 DEF ShutdownInv, ShutdownTypeOK
  <1>6. CASE EnterClose(c)
    <2>1. closer[c] = 4 /\ entered = None
      BY <1>1, <1>6, CloseOrder DEF EnterClose, At
    <2>2. \A d \in Closers \ {c} : ~(closer[d] > 4)
      BY <2>1, <1>2
    <2>3. CASE closed
      <3>1. closer' = [closer EXCEPT ![c] = 0] /\ UNCHANGED <<accepting, live, lock, entered, closing, closed>>
        BY <1>6, <2>3 DEF EnterClose
      <3>2. PassedIsDone' /\ closer' \in [Closers -> 0..Len(Close)]
        BY <3>1, Left
      <3> QED BY <3>1, <3>2, <1>1 DEF ShutdownInv, ShutdownTypeOK, CallersFirst
    <2>4. CASE ~closed
      <3>1. Advance(c) /\ entered' = c /\ UNCHANGED <<accepting, live, lock, closing, closed>>
        BY <1>6, <2>4 DEF EnterClose
      <3>2. PassedIsDone' /\ closer' \in [Closers -> 0..Len(Close)]
        BY <2>1, <2>2, <3>1, CloseOrder, Advanced
      <3> QED BY <3>1, <3>2, <1>1 DEF ShutdownInv, ShutdownTypeOK, CallersFirst
    <2> QED BY <2>3, <2>4
  <1>7. CASE WaitFor(c)
    <2>1. closer[c] \in 1..14 /\ closer[c] < 14 /\ Close[closer[c]].do = "wait"
      BY <1>1, <1>7, CloseOrder DEF WaitFor, At
    <2>2. Close[closer[c]].of \notin live /\ Advance(c)
          /\ UNCHANGED <<accepting, live, lock, entered, closing, closed>>
      BY <1>7 DEF WaitFor, Of
    <2>3. Close[closer[c]].of \notin accepting
      <3>1. PICK j \in 1..(closer[c] - 1) : Close[j] = Stop(Close[closer[c]].of)
        BY <2>1, CloseOrder
      <3>2. Close[j].do = "stop" /\ Close[j].of = Close[closer[c]].of
        BY <3>1 DEF Stop
      <3> QED BY <3>2, <1>1 DEF PassedIsDone
    <2>4. PassedIsDone' /\ closer' \in [Closers -> 0..Len(Close)]
      BY <2>1, <2>2, <2>3, Advanced
    <2> QED BY <2>2, <2>4, <1>1 DEF ShutdownInv, ShutdownTypeOK, CallersFirst
  <1>8. CASE CloseStore(c)
    <2>1. closer[c] \in 1..14 /\ Close[closer[c]].do = "close" /\ closer[c] = 14
      BY <1>1, <1>8, CloseOrder DEF CloseStore, At
    <2>2. closed' = TRUE /\ entered' = None /\ closer' = [closer EXCEPT ![c] = 0]
          /\ UNCHANGED <<accepting, live, lock, closing>>
      BY <1>8 DEF CloseStore
    <2>3. accepting = {} /\ live = {}
      <3>1. ASSUME NEW t \in Tasks PROVE t \notin accepting /\ t \notin live
        <4>1. PICK j \in 1..(closer[c] - 1) : Close[j] = Wait(t)
          BY <2>1, CloseOrder
        <4>2. Close[j].do = "wait" /\ Close[j].of = t
          BY <4>1 DEF Wait
        <4> QED BY <4>2, <1>1 DEF PassedIsDone
      <3> QED BY <3>1, <1>1 DEF ShutdownTypeOK
    <2>4. \A d \in Closers \ {c} : ~(closer[d] > 4)
      <3>1. entered = c
        BY <1>3, <2>1
      <3> QED BY <1>2, <3>1
    <2>5. PassedIsDone' /\ closer' \in [Closers -> 0..Len(Close)]
      BY <2>2, <2>4, Left
    <2> QED BY <2>2, <2>3, <2>5, <1>1 DEF ShutdownInv, ShutdownTypeOK, CallersFirst
  <1>9. CASE TimesOut(c)
    <2>1. closer' = [closer EXCEPT ![c] = 0] /\ UNCHANGED <<accepting, live, lock, closing, closed>>
          /\ entered' = IF entered = c THEN None ELSE entered
      BY <1>9 DEF TimesOut
    <2>2. \A d \in Closers \ {c} : closer[d] > 4 => entered' = entered
      BY <1>2, <2>1
    <2>3. PassedIsDone' /\ closer' \in [Closers -> 0..Len(Close)]
      BY <2>1, <2>2, Left
    <2> QED BY <2>1, <2>3, <1>1 DEF ShutdownInv, ShutdownTypeOK, CallersFirst
  <1> QED BY <1>4, <1>5, <1>6, <1>7, <1>8, <1>9 DEF Closing

\* A process that has just started is at the beginning of all this.
LEMMA StartedAnew ==
    /\ ShutdownInit => ShutdownInv
    /\ Renewed => ShutdownInv'
  <1>1. ASSUME ShutdownInit PROVE ShutdownInv
    <2>1. closer \in [Closers -> 0..Len(Close)] /\ \A c \in Closers : closer[c] = 0
      BY <1>1, CloseOrder DEF ShutdownInit
    <2>2. ShutdownTypeOK
      BY <1>1, <2>1 DEF ShutdownInit, ShutdownTypeOK
    <2>3. PassedIsDone /\ CallersFirst
      BY <1>1, <2>1 DEF ShutdownInit, PassedIsDone, CallersFirst
    <2> QED BY <1>1, <2>2, <2>3 DEF ShutdownInit, ShutdownInv
  <1>2. ASSUME Renewed PROVE ShutdownInv'
    <2>1. closer' \in [Closers -> 0..Len(Close)] /\ \A c \in Closers : closer'[c] = 0
      BY <1>2, CloseOrder DEF Renewed
    <2>2. ShutdownTypeOK'
      BY <1>2, <2>1 DEF Renewed, ShutdownTypeOK
    <2>3. PassedIsDone' /\ CallersFirst'
      BY <1>2, <2>1 DEF Renewed, PassedIsDone, CallersFirst
    <2> QED BY <1>2, <2>2, <2>3 DEF Renewed, ShutdownInv
  <1> QED BY <1>1, <1>2

-----------------------------------------------------------------------------
(* One source.                                                             *)

LEMMA Initially == Init => IInv
  <1> SUFFICES ASSUME Init PROVE IInv
    OBVIOUS
  <1> USE DEF Rows, Plans, Work
  <1>1. ShutdownInv
    BY StartedAnew DEF Init
  <1>2. worker = Idle /\ worker.at = "idle" /\ live = {}
    BY DEF Init, Idle, ShutdownInit
  <1>3. TypeOK
    <2>1. Length[version] + 1 \in Nat /\ 1 \in 1..(Length[version] + 1)
      BY IngestionAssumption DEF Init
    <2>2. NoSegment \in Rows
      BY DEF NoSegment
    <2>3. /\ DOMAIN segment = Versions /\ DOMAIN review = Versions
          /\ \A v \in Versions : segment[v] = [g \in Segments(v) |-> NoSegment] /\ review[v] = {}
      BY DEF Init
    <2>4. worker \in Work({"idle", "begin", "loop", "asked", "capture"}, {<<>>} \cup Plans)
      BY <1>2, <2>1 DEF Idle
    <2> QED BY <1>1, <1>2, <2>2, <2>3, <2>4 DEF Init, ShutdownInv, TypeOK, InLoop
  <1>4. Placed
    BY <1>2 DEF Init, Placed, Idle
  <1>5. Attempts /\ NothingForgotten
    BY <1>2, IngestionAssumption DEF Init, Attempts, NothingForgotten, NoSegment, Accepted, InLoop
  <1>6. CompleteIsReviewed /\ BusyIsOwned
    BY IngestionAssumption DEF Init, CompleteIsReviewed, BusyIsOwned, Busy
  <1> QED BY <1>1, <1>3, <1>4, <1>5, <1>6 DEF IInv

\* Requests.
LEMMA ChangeInductive == ASSUME IInv, Change PROVE IInv'
  <1> USE IngestionAssumption DEF Rows, Plans, Work
  <1>1. /\ request = "waiting" /\ "import" \in live /\ lock' = "import" /\ status # Busy
        /\ status' = Busy /\ version' \in Versions /\ request' \in {"reconcile", "start"}
        /\ UNCHANGED <<accepting, live, closer, entered, closing, closed,
                       segment, review, worker, broken, abandoned>>
    BY DEF Change, Import, Update, Retry, Commit, IInv, TypeOK, Busy
  <1>2. worker.at = "idle" /\ worker = Idle
    BY <1>1 DEF IInv, Placed, Idle
  <1>3. ShutdownInv'
    BY <1>1, WorkStep DEF IInv, Tasks
  <1>4. TypeOK'
    BY <1>1, <1>2, <1>3 DEF IInv, TypeOK, ShutdownInv, Idle, InLoop, Busy
  <1>5. Placed'
    BY <1>1, <1>2 DEF IInv, Placed
  <1>6. Attempts'
    BY <1>1, <1>2 DEF IInv, Attempts
  <1>7. NothingForgotten'
    BY <1>1, <1>2 DEF IInv, NothingForgotten, Settled, Accepted, InLoop
  <1>8. CompleteIsReviewed' /\ BusyIsOwned'
    BY <1>1 DEF CompleteIsReviewed, BusyIsOwned, Owned, Busy
  <1> QED BY <1>3, <1>4, <1>5, <1>6, <1>7, <1>8 DEF IInv

LEMMA AnswerInductive == ASSUME IInv, Answer PROVE IInv'
  <1> USE IngestionAssumption DEF Rows, Plans, Work
  <1>1. /\ request = "waiting" /\ live' = live \ {"import"}
        /\ \/ status' = status
           \/ status # Busy /\ status' = "DELETED"
        /\ UNCHANGED <<accepting, lock, closer, entered, closing, closed,
                       version, segment, review, request, worker, broken, abandoned>>
    BY DEF Answer
  <1>2. ShutdownInv'
    BY <1>1, WorkStep DEF IInv, ShutdownInv, ShutdownTypeOK
  <1>3. TypeOK'
    BY <1>1, <1>2 DEF IInv, TypeOK, ShutdownInv, InLoop
  <1>4. Placed'
    BY <1>1 DEF IInv, Placed, Busy
  <1>5. Attempts'
    BY <1>1 DEF IInv, Attempts
  <1>6. NothingForgotten'
    BY <1>1 DEF IInv, NothingForgotten, Settled, Accepted, InLoop, Placed, Busy
  <1>7. CompleteIsReviewed' /\ BusyIsOwned'
    BY <1>1 DEF IInv, CompleteIsReviewed, BusyIsOwned, Owned, Busy
  <1> QED BY <1>2, <1>3, <1>4, <1>5, <1>6, <1>7 DEF IInv

LEMMA ReconcileInductive == ASSUME IInv, Reconcile PROVE IInv'
  <1> USE IngestionAssumption DEF Rows, Plans, Work
  <1>1. /\ request = "reconcile" /\ request' = "start"
        /\ UNCHANGED <<shutdownVars, durable, worker, broken, abandoned>>
    BY DEF Reconcile
  <1>2. ShutdownInv'
    BY <1>1, WorkStep DEF IInv, ShutdownInv, ShutdownTypeOK, shutdownVars
  <1>3. TypeOK'
    BY <1>1, <1>2 DEF IInv, TypeOK, ShutdownInv, InLoop, durable
  <1>4. Placed' /\ Attempts'
    BY <1>1 DEF IInv, Placed, Attempts, durable, shutdownVars
  <1>5. NothingForgotten'
    BY <1>1 DEF IInv, NothingForgotten, Settled, Accepted, InLoop, durable
  <1>6. CompleteIsReviewed' /\ BusyIsOwned'
    BY <1>1 DEF IInv, CompleteIsReviewed, BusyIsOwned, Owned, durable
  <1> QED BY <1>2, <1>3, <1>4, <1>5, <1>6 DEF IInv

LEMMA ReconcileFailsInductive == ASSUME IInv, ReconcileFails PROVE IInv'
  <1> USE IngestionAssumption DEF Rows, Plans, Work
  <1>1. /\ request = "reconcile" /\ request' = "waiting" /\ lock' = None
        /\ live' = live \ {"import"} /\ abandoned' = TRUE
        /\ UNCHANGED <<accepting, closer, entered, closing, closed, durable, worker, broken>>
    BY DEF ReconcileFails
  <1>2. ShutdownInv'
    BY <1>1, WorkStep DEF IInv, ShutdownInv, ShutdownTypeOK
  <1>3. TypeOK'
    BY <1>1, <1>2 DEF IInv, TypeOK, ShutdownInv, InLoop, durable
  <1>4. Placed' /\ Attempts'
    BY <1>1 DEF IInv, Placed, Attempts, durable
  <1>5. NothingForgotten'
    BY <1>1 DEF IInv, NothingForgotten, Settled, Accepted, InLoop, durable, Placed
  <1>6. CompleteIsReviewed' /\ BusyIsOwned'
    BY <1>1 DEF IInv, CompleteIsReviewed, BusyIsOwned, durable
  <1> QED BY <1>2, <1>3, <1>4, <1>5, <1>6 DEF IInv

LEMMA StartIngestionInductive == ASSUME IInv, StartIngestion PROVE IInv'
  <1> USE IngestionAssumption DEF Rows, Plans, Work
  <1>1. /\ request = "start" /\ request' = "waiting" /\ lock' = None
        /\ worker = Idle /\ status = Busy /\ "ingest" \notin live
        /\ \/ /\ "ingest" \in accepting /\ live' = (live \ {"import"}) \cup {"ingest"}
              /\ worker' = [worker EXCEPT !.at = "begin"] /\ abandoned' = abandoned
           \/ /\ live' = live \ {"import"}
              /\ worker' = [worker EXCEPT !.at = "idle"] /\ abandoned' = TRUE
        /\ UNCHANGED <<accepting, closer, entered, closing, closed, durable, broken>>
    BY DEF StartIngestion, IInv, TypeOK, Placed, Idle
  <1>2. ShutdownInv'
    BY <1>1, WorkStep DEF IInv, ShutdownInv, ShutdownTypeOK, Tasks
  <1>3. worker' = [Idle EXCEPT !.at = worker'.at] /\ worker'.at \in {"begin", "idle"}
    BY <1>1 DEF Idle
  <1>4. TypeOK'
    <2>1. Length[version] \in Nat /\ 1 \in 1..(Length[version] + 1)
      BY DEF IInv, TypeOK
    <2> QED BY <1>1, <1>2, <1>3, <2>1 DEF IInv, TypeOK, ShutdownInv, InLoop, durable, Idle
  <1>5. Placed'
    BY <1>1, <1>3 DEF IInv, Placed, durable, Idle
  <1>6. Attempts'
    BY <1>1, <1>3 DEF IInv, Attempts, durable
  <1>7. NothingForgotten'
    BY <1>1, <1>3 DEF IInv, NothingForgotten, Settled, Accepted, InLoop, durable
  <1>8. CompleteIsReviewed' /\ BusyIsOwned'
    BY <1>1, <1>3 DEF IInv, CompleteIsReviewed, BusyIsOwned, Owned, durable, Idle, Busy
  <1> QED BY <1>2, <1>4, <1>5, <1>6, <1>7, <1>8 DEF IInv

-----------------------------------------------------------------------------
(* The ingestion.                                                          *)

\* While it is at work, nothing but the ingestion touches its version.
LEMMA AtWork ==
    ASSUME IInv, worker.at # "idle"
    PROVE  /\ status = Busy /\ request = "waiting" /\ "ingest" \in live
           /\ version \in Versions /\ Length[version] \in Nat
           /\ DOMAIN segment = Versions /\ DOMAIN review = Versions
           /\ worker \in Work({"idle", "begin", "loop", "asked", "capture"}, {<<>>} \cup Plans)
  BY IngestionAssumption DEF IInv, TypeOK, Placed, Work

\* A step of the loop, which leaves the source and its shutdown as they are.
LEMMA Inside ==
    ASSUME IInv, worker.at # "idle", worker'.at # "idle",
           UNCHANGED <<ingesting, live, status, version, broken, abandoned>>,
           lock' \in {lock, "ingest"},
           DOMAIN segment' = Versions, DOMAIN review' = Versions,
           \A v \in Versions \ {version} : segment'[v] = segment[v] /\ review'[v] = review[v],
           segment'[version] \in [Segments(version) ->
                Rows],
           review'[version] \subseteq Segments(version),
           worker' \in Work({"loop", "asked", "capture"}, Plans),
           Attempts',
           version \notin broken =>
                Accepted(version)' \subseteq review'[version] \cup (worker'.found \cap worker'.fresh)
    PROVE  IInv'
  <1> USE AtWork, IngestionAssumption DEF Rows, Plans, Work
  <1>1. ShutdownInv'
    <2>1. lock' \in Tasks \cup {None}
      BY DEF IInv, ShutdownInv, ShutdownTypeOK, Tasks
    <2> QED BY <2>1, WorkStep DEF IInv, ingesting
  <1>2. TypeOK'
    <2>1. \A v \in Versions :
            /\ segment'[v] \in [Segments(v) ->
                Rows]
            /\ review'[v] \subseteq Segments(v)
      BY DEF IInv, TypeOK
    <2> QED BY <1>1, <2>1 DEF IInv, TypeOK, ShutdownInv, InLoop, ingesting
  <1>3. Placed'
    BY DEF IInv, Placed, ingesting
  <1>4. NothingForgotten'
    <2>1. InLoop' /\ ~Settled(version)' /\ version' = version /\ broken' = broken
      BY DEF InLoop, Settled, ingesting
    <2>2. \A v \in Versions \ {version} : Accepted(v)' = Accepted(v) /\ Settled(v)' /\ Settled(v)
      BY DEF Accepted, Settled
    <2> QED BY <2>1, <2>2 DEF IInv, NothingForgotten
  <1>5. CompleteIsReviewed' /\ BusyIsOwned'
    BY DEF IInv, CompleteIsReviewed, BusyIsOwned, Owned, Busy
  <1> QED BY <1>1, <1>2, <1>3, <1>4, <1>5 DEF IInv

LEMMA ReadSegmentsInductive == ASSUME IInv, ReadSegments PROVE IInv'
  <1> USE DEF Rows, Plans, Work
  <1> DEFINE S == Segments(version)
             new == [NoSegment EXCEPT !.state = "PENDING"]
             rows == [g \in S |-> IF segment[version][g].state = None
                                  THEN new ELSE segment[version][g]]
  <1>1. /\ worker.at = "begin" /\ worker = [Idle EXCEPT !.at = "begin"]
        /\ segment' = [segment EXCEPT ![version] = rows]
        /\ worker' = [worker EXCEPT !.at = "loop", !.read = [g \in S |-> Plan(rows[g])]]
        /\ UNCHANGED <<ingesting, live, lock, status, version, review, broken, abandoned>>
    BY DEF ReadSegments, IInv, Placed
  <1>2. \A g \in S : segment[version][g] \in Rows
    BY AtWork, <1>1 DEF IInv, TypeOK
  <1>3. new \in Rows /\ new.state = "PENDING" /\ new.retryable = FALSE /\ new.attempts = 0
    <2>1. NoSegment \in Rows /\ NoSegment.retryable = FALSE /\ NoSegment.attempts = 0
      BY DEF NoSegment
    <2> QED BY <2>1
  <1> HIDE DEF new
  <1>4. \A g \in S : rows[g] \in Rows
    BY <1>2, <1>3
  <1>5. \A g \in S : Plan(rows[g]) \in {"ask", "replay", "skip"}
    BY DEF Plan
  <1>6. /\ worker'.at = "loop" /\ worker'.next = 1 /\ worker'.fresh = {} /\ worker'.found = {}
        /\ worker'.read = [g \in S |-> Plan(rows[g])]
        /\ worker' \in Work({"loop", "asked", "capture"}, Plans)
    <2>1. 1 \in 1..(Length[version] + 1)
      BY AtWork, <1>1
    <2> HIDE DEF rows
    <2> QED BY <1>1, <1>5, <2>1, AtWork DEF Idle
  <1>7. segment'[version] = rows /\ \A v \in Versions \ {version} : segment'[v] = segment[v]
    BY <1>1, AtWork
  <1>8. \A g \in S : /\ rows[g].state \in {None, "PENDING"} => rows[g].attempts = 0
                     /\ rows[g].retryable => rows[g].attempts < 2
                     /\ Plan(rows[g]) = "ask" => rows[g].attempts < 2
                     /\ rows[g].state = "ACCEPTED" => segment[version][g].state = "ACCEPTED"
    <2>1. \A g \in S : /\ segment[version][g].state \in {None, "PENDING"} => segment[version][g].attempts = 0
                       /\ segment[version][g].retryable => segment[version][g].attempts < 2
      BY AtWork, <1>1 DEF IInv, Attempts
    <2> QED BY <1>2, <1>3, <2>1 DEF Plan, Eligible
  <1>9. Attempts'
    <2>1. \A g \in S : segment'[version][g] = rows[g] /\ worker'.read[g] = Plan(rows[g])
      BY <1>6, <1>7
    <2>2. \A v \in Versions \ {version} : \A g \in Segments(v) :
              /\ segment'[v][g].state \in {None, "PENDING"} => segment'[v][g].attempts = 0
              /\ segment'[v][g].retryable => segment'[v][g].attempts < 2
      BY <1>7 DEF IInv, Attempts
    <2>3. version' = version /\ worker'.at = "loop"
      BY <1>1, <1>6
    <2> HIDE DEF rows
    <2> QED BY <1>8, <2>1, <2>2, <2>3 DEF Attempts
  <1>10. version \notin broken => Accepted(version)' \subseteq review'[version]
    <2>1. version \notin broken => Accepted(version) \subseteq review[version]
      BY <1>1, AtWork DEF IInv, NothingForgotten, Settled
    <2>2. Accepted(version)' \subseteq Accepted(version)
      BY <1>1, <1>7, <1>8 DEF Accepted
    <2> QED BY <1>1, <2>1, <2>2
  <1>11. /\ DOMAIN segment' = Versions /\ DOMAIN review' = Versions
         /\ segment'[version] \in [S -> Rows] /\ review'[version] \subseteq S
         /\ \A v \in Versions \ {version} : segment'[v] = segment[v] /\ review'[v] = review[v]
    BY <1>1, <1>4, <1>7, AtWork DEF IInv, TypeOK
  <1> HIDE DEF rows
  <1> QED BY <1>1, <1>6, <1>9, <1>10, <1>11, Inside 

\* The loop goes past a segment without asking about it.
LEMMA PassOverInductive == ASSUME IInv, Replay \/ Skip PROVE IInv'
  <1> USE DEF Rows, Plans, Work
  <1>1. /\ worker.at = "loop" /\ worker.next \in Segments(version)
        /\ worker' \in {Next1, [Next1 EXCEPT !.found = @ \cup {worker.next}]}
        /\ UNCHANGED <<ingesting, live, lock, durable, broken, abandoned>>
    BY DEF Replay, Skip, Current
  <1>2. worker.read \in Plans
    BY <1>1 DEF IInv, TypeOK, InLoop
  <1>3. /\ worker'.at = "loop" /\ worker'.next = worker.next + 1
        /\ worker'.read = worker.read /\ worker'.fresh = worker.fresh
        /\ worker.found \subseteq worker'.found
        /\ worker' \in Work({"loop", "asked", "capture"}, Plans)
    <2>1. worker.next + 1 \in 1..(Length[version] + 1)
      <3>1. worker.next \in 1..Length[version] /\ Length[version] \in Nat
        BY <1>1, AtWork DEF Segments
      <3> QED BY <3>1
    <2>2. Next1 = [worker EXCEPT !.next = worker.next + 1]
      BY DEF Next1
    <2>3. CASE worker' = Next1
      BY <1>1, <1>2, <2>1, <2>2, <2>3, AtWork
    <2>4. CASE worker' = [Next1 EXCEPT !.found = @ \cup {worker.next}]
      BY <1>1, <1>2, <2>1, <2>2, <2>4, AtWork
    <2> QED BY <1>1, <2>3, <2>4
  <1>4. Attempts'
    <2>1. worker.next \in Nat /\ \A g \in Segments(version) : g \in Nat
      BY AtWork, <1>1 DEF Segments
    <2> QED BY <1>1, <1>3, <2>1 DEF IInv, Attempts, durable
  <1>5. version \notin broken => Accepted(version)' \subseteq review'[version] \cup (worker'.found \cap worker'.fresh)
    BY <1>1, <1>3 DEF IInv, NothingForgotten, InLoop, Accepted, durable
  <1> QED BY <1>1, <1>3, <1>4, <1>5, Inside, AtWork DEF IInv, TypeOK, durable

LEMMA AskInductive == ASSUME IInv, Ask PROVE IInv'
  <1> USE DEF Rows, Plans, Work
  <1> DEFINE S == Segments(version)
             n == worker.next
  <1>1. /\ worker.at = "loop" /\ n \in S /\ worker.read[n] = "ask"
        /\ segment' = [segment EXCEPT ![version][n].state = "RUNNING"]
        /\ worker' = [worker EXCEPT !.at = "asked", !.fresh = @ \cup {n}]
        /\ UNCHANGED <<ingesting, live, lock, status, version, review, broken, abandoned>>
    BY DEF Ask, Current
  <1>2. worker.read \in Plans /\ segment[version] \in [S -> Rows]
        /\ review[version] \subseteq S
    BY <1>1, AtWork DEF IInv, TypeOK, InLoop
  <1>3. /\ worker'.at = "asked" /\ worker'.next = n /\ worker'.found = worker.found
        /\ worker'.fresh = worker.fresh \cup {n}
        /\ worker' \in Work({"loop", "asked", "capture"}, Plans)
    BY <1>1, <1>2, AtWork
  <1>4. /\ DOMAIN segment' = Versions
        /\ \A v \in Versions \ {version} : segment'[v] = segment[v]
        /\ segment'[version] \in [S -> Rows]
        /\ \A g \in S \ {n} : segment'[version][g] = segment[version][g]
        /\ segment'[version][n].state = "RUNNING"
        /\ segment'[version][n].retryable = segment[version][n].retryable
        /\ segment'[version][n].attempts = segment[version][n].attempts
    BY <1>1, <1>2, AtWork
  <1>5. segment[version][n].attempts < 2
    BY <1>1, AtWork DEF IInv, Attempts, Segments
  <1>6. Attempts'
    <2>1. None # "RUNNING"
      BY IngestionAssumption
    <2> QED BY <1>1, <1>3, <1>4, <1>5, <2>1 DEF IInv, Attempts
  <1>7. version \notin broken => Accepted(version)' \subseteq review'[version] \cup (worker'.found \cap worker'.fresh)
    <2>1. Accepted(version)' \subseteq Accepted(version)
      BY <1>1, <1>4 DEF Accepted
    <2> QED BY <1>1, <1>3, <2>1 DEF IInv, NothingForgotten, InLoop
  <1> HIDE DEF n
  <1> QED BY <1>1, <1>2, <1>3, <1>4, <1>6, <1>7, Inside, AtWork

LEMMA SaveAttemptInductive == ASSUME IInv, SaveAttempt PROVE IInv'
  <1> USE DEF Rows, Plans, Work
  <1> DEFINE S == Segments(version)
             n == worker.next
  <1>1. PICK o \in Outcomes :
        /\ worker.at = "asked"
        /\ segment' = [segment EXCEPT ![version][n] = Saved(@, o)]
        /\ worker' = [Next1 EXCEPT !.at = "loop",
                !.found = IF o.state = "ACCEPTED" THEN @ \cup {n} ELSE @]
        /\ UNCHANGED <<ingesting, live, lock, status, version, review, broken, abandoned>>
    BY DEF SaveAttempt
  <1>2. /\ worker.read \in Plans /\ segment[version] \in [S -> Rows]
        /\ review[version] \subseteq S
        /\ n \in S /\ n \in worker.fresh /\ segment[version][n].attempts < 2
    BY <1>1, AtWork DEF IInv, TypeOK, InLoop, Attempts
  <1>3. o.state \in {"FAILED", "ACCEPTED"} /\ o.retryable \in BOOLEAN
    <2>1. CASE o \in [state : {"FAILED"}, retryable : BOOLEAN]
      BY <2>1
    <2>2. CASE o = [state |-> "ACCEPTED", retryable |-> FALSE]
      BY <2>2
    <2> QED BY <2>1, <2>2 DEF Outcomes
  <1>4. /\ worker'.at = "loop" /\ worker'.next = n + 1 /\ worker'.read = worker.read
        /\ worker'.found = (IF o.state = "ACCEPTED" THEN worker.found \cup {n} ELSE worker.found)
        /\ worker'.fresh = worker.fresh
        /\ worker' \in Work({"loop", "asked", "capture"}, Plans)
    <2>1. n + 1 \in 1..(Length[version] + 1)
      <3>1. n \in 1..Length[version]
        BY <1>1 DEF IInv, Attempts, Segments
      <3>2. Length[version] \in Nat
        BY <1>1, AtWork
      <3> QED BY <3>1, <3>2
    <2>2. Next1 = [worker EXCEPT !.next = n + 1]
      BY DEF Next1
    <2> QED BY <1>1, <1>2, <2>1, <2>2, AtWork
  <1> DEFINE row == Saved(segment[version][n], o)
  <1>5. /\ row \in Rows /\ row.state = o.state /\ row.attempts \in 1..2
        /\ row.retryable => row.attempts < 2
    <2> DEFINE old == segment[version][n]
               left == o.retryable /\ old.attempts + 1 < 2
    <2>1. old.attempts \in 0..1
      BY <1>2
    <2>2. row = [state |-> o.state, retryable |-> left, attempts |-> old.attempts + 1]
      BY DEF Saved
    <2>3. left \in BOOLEAN /\ (left => old.attempts + 1 < 2)
      OBVIOUS
    <2> HIDE DEF left, old, row
    <2> QED BY <1>3, <2>1, <2>2, <2>3
  <1> HIDE DEF row
  <1>6. /\ DOMAIN segment' = Versions
        /\ \A v \in Versions \ {version} : segment'[v] = segment[v]
        /\ segment'[version] \in [S -> Rows]
        /\ \A g \in S \ {n} : segment'[version][g] = segment[version][g]
        /\ segment'[version][n] = row
    BY <1>1, <1>2, <1>5, AtWork DEF row
  <1>7. Attempts'
    <2>1. o.state \notin {None, "PENDING"} \/ o.state = None
      BY <1>3
    <2>2. n \in Nat /\ \A g \in S : g \in Nat
      BY <1>2 DEF Segments
    <2>3. \A g \in S : g >= worker'.next => g # n
      BY <1>4, <2>2
    <2>4. \A g \in S : g >= worker'.next /\ worker'.read[g] = "ask" => segment'[version][g].attempts < 2
      <3>1. \A g \in S : g >= n /\ worker.read[g] = "ask" => segment[version][g].attempts < 2
        BY <1>1 DEF IInv, Attempts
      <3>2. \A g \in S : g >= worker'.next => g >= n
        BY <1>4, <2>2
      <3> HIDE DEF S
      <3> QED BY <1>4, <1>6, <2>3, <3>1, <3>2
    <2>5. \A v \in Versions : \A g \in Segments(v) :
              /\ segment'[v][g].state \in {None, "PENDING"} => segment'[v][g].attempts = 0
              /\ segment'[v][g].retryable => segment'[v][g].attempts < 2
      <3>1. \A v \in Versions : \A g \in Segments(v) :
              /\ segment[v][g].state \in {None, "PENDING"} => segment[v][g].attempts = 0
              /\ segment[v][g].retryable => segment[v][g].attempts < 2
        BY DEF IInv, Attempts
      <3>2. row.state \notin {None, "PENDING"}
        BY <1>3, <1>5, IngestionAssumption
      <3>3. \A v \in Versions \ {version} : segment'[v] = segment[v]
        BY <1>6
      <3>4. \A g \in S \ {n} : segment'[version][g] = segment[version][g]
        BY <1>6
      <3>5. segment'[version][n] = row
        BY <1>6
      <3> QED BY <1>5, <3>1, <3>2, <3>3, <3>4, <3>5
    <2> QED BY <1>1, <1>4, <2>4, <2>5 DEF Attempts
  <1>8. version \notin broken => Accepted(version)' \subseteq review'[version] \cup (worker'.found \cap worker'.fresh)
    <2>1. version \notin broken => Accepted(version) \subseteq review[version] \cup (worker.found \cap worker.fresh)
      BY <1>1 DEF IInv, NothingForgotten, InLoop
    <2>2. \A g \in Accepted(version)' : g \in Accepted(version) \/ (g = n /\ o.state = "ACCEPTED")
      BY <1>1, <1>5, <1>6 DEF Accepted
    <2> QED BY <1>1, <1>2, <1>4, <2>1, <2>2
  <1> HIDE DEF n
  <1> QED BY <1>1, <1>2, <1>4, <1>6, <1>7, <1>8, Inside, AtWork

LEMMA CaptureInductive ==
    ASSUME IInv, BeginCapture \/ \E g \in ToCapture : Capture(g)
    PROVE  IInv'
  <1> USE DEF Rows, Plans, Work
  <1>1. /\ worker.at \in {"loop", "capture"} /\ worker'.at = "capture"
        /\ worker'.next = worker.next /\ worker'.read = worker.read
        /\ worker'.fresh = worker.fresh /\ worker'.found = worker.found
        /\ worker' \in Work({"loop", "asked", "capture"}, Plans)
        /\ lock' \in {lock, "ingest"}
        /\ UNCHANGED <<ingesting, live, status, version, segment, broken, abandoned>>
    <2>1. CASE BeginCapture
      <3>1. /\ worker.at = "loop" /\ worker' = [worker EXCEPT !.at = "capture"] /\ lock' = "ingest"
            /\ UNCHANGED <<ingesting, live, status, version, segment, broken, abandoned>>
        BY <2>1 DEF BeginCapture, durable
      <3>2. worker.read \in Plans
        BY <3>1 DEF IInv, TypeOK, InLoop
      <3> QED BY <3>1, <3>2, AtWork
    <2>2. CASE \E g \in ToCapture : Capture(g)
      <3>1. /\ worker.at = "capture" /\ worker' = worker
            /\ UNCHANGED <<ingesting, live, lock, status, version, segment, broken, abandoned>>
        BY <2>2 DEF Capture
      <3>2. worker.read \in Plans
        BY <3>1 DEF IInv, TypeOK, InLoop
      <3> QED BY <3>1, <3>2, AtWork
    <2> QED BY <2>1, <2>2
  <1>2. /\ DOMAIN review' = Versions /\ review[version] \subseteq review'[version]
        /\ review'[version] \subseteq Segments(version)
        /\ \A v \in Versions \ {version} : review'[v] = review[v]
    <2>1. /\ DOMAIN review = Versions /\ version \in Versions /\ review[version] \subseteq Segments(version)
          /\ worker.found \subseteq Segments(version)
      BY <1>1, AtWork DEF IInv, TypeOK
    <2>2. CASE review' = review
      BY <2>1, <2>2
    <2>3. CASE \E g \in ToCapture : review' = [review EXCEPT ![version] = @ \cup {g}]
      BY <2>1, <2>3 DEF ToCapture
    <2> QED BY <2>2, <2>3 DEF BeginCapture, Capture, durable
  <1>3. Attempts'
    BY <1>1 DEF IInv, Attempts
  <1>4. version \notin broken => Accepted(version)' \subseteq review'[version] \cup (worker'.found \cap worker'.fresh)
    BY <1>1, <1>2 DEF IInv, NothingForgotten, InLoop, Accepted
  <1>5. /\ DOMAIN segment' = Versions /\ segment'[version] \in [Segments(version) -> Rows]
        /\ \A v \in Versions \ {version} : segment'[v] = segment[v]
    BY <1>1, AtWork DEF IInv, TypeOK
  <1> QED BY <1>1, <1>2, <1>3, <1>4, <1>5, Inside

\* However an ingestion ends, what it leaves as accepted is captured, or the
\* version counts as broken.
LEMMA Ended ==
    ASSUME IInv, worker.at # "idle", NEW result \in {"COMPLETE", "PARTIAL", "FAILED"},
           EndWith(result), broken' \in {broken, broken \cup {version}},
           version \notin broken' => Accepted(version) \subseteq review[version],
           result = "COMPLETE" => Accepted(version) = Segments(version)
    PROVE  IInv'
  <1> USE AtWork, IngestionAssumption DEF Rows, Plans, Work
  <1>1. /\ status' = result /\ worker' = Idle /\ worker'.at = "idle" /\ lock' = None
        /\ live' = live \ {"ingest"} /\ request' = "waiting" /\ result # Busy
        /\ UNCHANGED <<accepting, closer, entered, closing, closed, version, segment, review, abandoned>>
    BY DEF EndWith, Idle, ingesting, Busy
  <1>2. ShutdownInv'
    BY <1>1, WorkStep DEF IInv, ShutdownInv, ShutdownTypeOK
  <1>3. TypeOK'
    <2>1. 1 \in 1..(Length[version] + 1)
      OBVIOUS
    <2>2. worker' \in Work({"idle"}, {<<>>})'
      BY <1>1, <2>1 DEF Idle
    <2> QED BY <1>1, <1>2, <2>2 DEF IInv, TypeOK, ShutdownInv, InLoop
  <1>4. Placed'
    BY <1>1 DEF Placed, Idle
  <1>5. Attempts'
    BY <1>1 DEF IInv, Attempts
  <1>6. NothingForgotten'
    <2>1. \A v \in Versions \ {version} : v \notin broken' => Accepted(v) \subseteq review[v]
      BY DEF IInv, NothingForgotten, Settled
    <2> QED BY <1>1, <2>1 DEF NothingForgotten, Accepted, InLoop
  <1>7. CompleteIsReviewed'
    <2>1. review[version] \subseteq Segments(version)
      BY DEF IInv, TypeOK
    <2>2. result = "COMPLETE" => /\ version \in broken' \/ review[version] = Segments(version)
                               /\ \A g \in Segments(version) : segment[version][g].state = "ACCEPTED"
      BY <2>1 DEF Accepted
    <2> QED BY <1>1, <2>2 DEF CompleteIsReviewed
  <1>8. BusyIsOwned'
    BY <1>1 DEF BusyIsOwned
  <1> QED BY <1>2, <1>3, <1>4, <1>5, <1>6, <1>7, <1>8 DEF IInv

LEMMA EndIngestionInductive == ASSUME IInv, EndIngestion PROVE IInv'
  <1>1. PICK result \in Results : EndWith(result)
    BY DEF EndIngestion
  <1>2. worker.at = "capture" /\ ToCapture = {} /\ broken' = broken
    BY DEF EndIngestion
  <1>3. version \notin broken => Accepted(version) \subseteq review[version]
    BY <1>2 DEF IInv, NothingForgotten, InLoop, ToCapture
  <1>4. /\ result \in {"COMPLETE", "PARTIAL", "FAILED"}
        /\ result = "COMPLETE" => Accepted(version) = Segments(version)
    BY DEF Results, Accepted
  <1> QED BY <1>1, <1>2, <1>3, <1>4, Ended

LEMMA IngestionRaisesInductive == ASSUME IInv, IngestionRaises PROVE IInv'
  <1>1. /\ worker.at # "idle" /\ EndWith("FAILED")
        /\ broken' = IF worker.at = "begin" THEN broken ELSE broken \cup {version}
    BY DEF IngestionRaises
  <1>2. version \notin broken' => Accepted(version) \subseteq review[version]
    BY <1>1, AtWork DEF IInv, NothingForgotten, Settled
  <1> QED BY <1>1, <1>2, Ended

-----------------------------------------------------------------------------
(* The process, and the specification.                                     *)

LEMMA RestartInductive == ASSUME IInv, Restart PROVE IInv'
  <1> USE IngestionAssumption DEF Rows, Plans, Work
  <1>1. /\ request' = "waiting" /\ worker' = Idle /\ worker'.at = "idle" /\ live' = {}
        /\ abandoned' = (abandoned \/ status = Busy)
        /\ UNCHANGED <<status, version, segment, review, broken>>
    BY DEF Restart, Idle, durable, Renewed
  <1>2. ShutdownInv'
    BY StartedAnew DEF Restart
  <1>3. TypeOK'
    <2>1. Length[version] \in Nat /\ 1 \in 1..(Length[version] + 1)
      BY DEF IInv, TypeOK
    <2>2. worker' \in Work({"idle"}, {<<>>})'
      BY <1>1, <2>1 DEF Idle
    <2>3. abandoned' \in BOOLEAN
      BY <1>1
    <2> QED BY <1>1, <1>2, <2>2, <2>3 DEF IInv, TypeOK, ShutdownInv, InLoop
  <1>4. Placed'
    BY <1>1 DEF Placed, Idle
  <1>5. Attempts'
    BY <1>1 DEF IInv, Attempts
  <1>6. NothingForgotten'
    BY <1>1 DEF IInv, NothingForgotten, Settled, Accepted, InLoop
  <1>7. CompleteIsReviewed' /\ BusyIsOwned'
    BY <1>1 DEF IInv, CompleteIsReviewed, BusyIsOwned
  <1> QED BY <1>2, <1>3, <1>4, <1>5, <1>6, <1>7 DEF IInv

\* Steps of the other work and of the closers leave the source alone.
LEMMA Elsewhere ==
    ASSUME IInv, UNCHANGED product, ShutdownInv',
           "import" \in live => "import" \in live',
           "ingest" \in live <=> "ingest" \in live'
    PROVE  IInv'
  <1> USE DEF product, durable, Rows, Plans, Work
  <1>1. TypeOK'
    BY DEF IInv, TypeOK, ShutdownInv, InLoop
  <1>2. Placed'
    BY DEF IInv, Placed
  <1>3. Attempts' /\ NothingForgotten'
    BY DEF IInv, Attempts, NothingForgotten, Settled, Accepted, InLoop
  <1>4. CompleteIsReviewed' /\ BusyIsOwned'
    BY DEF IInv, CompleteIsReviewed, BusyIsOwned, Owned
  <1> QED BY <1>1, <1>2, <1>3, <1>4 DEF IInv

LEMMA Inductive == IInv /\ [Next]_vars => IInv'
  <1> SUFFICES ASSUME IInv, [Next]_vars PROVE IInv'
    OBVIOUS
  <1>1. CASE Change \/ Answer \/ Reconcile \/ ReconcileFails \/ StartIngestion
    BY <1>1, ChangeInductive, AnswerInductive, ReconcileInductive, ReconcileFailsInductive,
       StartIngestionInductive
  <1>2. CASE Ingesting \/ IngestionRaises
    <2>1. CASE ReadSegments \/ Replay \/ Skip \/ Ask \/ SaveAttempt
      BY <2>1, ReadSegmentsInductive, PassOverInductive, AskInductive, SaveAttemptInductive
    <2>2. CASE BeginCapture \/ \E g \in ToCapture : Capture(g)
      BY <2>2, CaptureInductive
    <2>3. CASE EndIngestion \/ IngestionRaises
      BY <2>3, EndIngestionInductive, IngestionRaisesInductive
    <2> QED BY <1>2, <2>1, <2>2, <2>3 DEF Ingesting
  <1>3. CASE Restart
    BY <1>3, RestartInductive
  <1>4. ASSUME NEW t \in Tasks \ {"ingest"}, Admit(t), UNCHANGED product PROVE IInv'
    <2>1. ShutdownInv'
      BY <1>4, WorkStep DEF Admit, IInv, ShutdownInv, ShutdownTypeOK
    <2> QED BY <1>4, <2>1, Elsewhere DEF Admit
  <1>5. ASSUME NEW t \in Others, Finish(t), UNCHANGED product PROVE IInv'
    <2>1. ShutdownInv'
      BY <1>5, WorkStep DEF Finish, IInv, ShutdownInv, ShutdownTypeOK
    <2> QED BY <1>5, <2>1, Elsewhere DEF Finish, Others
  <1>6. ASSUME NEW c \in Closers, Closing(c) \/ TimesOut(c), UNCHANGED product PROVE IInv'
    BY <1>6, ClosingStep, Elsewhere DEF IInv
  <1>7. CASE UNCHANGED vars
    <2>1. ShutdownInv'
      BY <1>7, WorkStep DEF vars, shutdownVars, IInv, ShutdownInv, ShutdownTypeOK
    <2> QED BY <1>7, <2>1, Elsewhere DEF vars, shutdownVars, product
  <1> QED BY <1>1, <1>2, <1>3, <1>4, <1>5, <1>6, <1>7 DEF Next

\* The inductive invariant, TypeOK among its parts, holds of every run of the
\* application, through closes, timeouts and restarts (ui/product.py,
\* ui/lifecycle.py).
THEOREM InvariantHolds == Spec => []IInv
  BY Initially, Inductive, PTL DEF Spec

\* The stores are closed under nobody: whatever was admitted, timed out or
\* tried again before, no admitted work is alive once close has closed them
\* (ui/product.py: close).
THEOREM CloseIsQuiet == Spec => []ClosedIsQuiet
  <1>1. IInv => ClosedIsQuiet
    BY DEF IInv, ShutdownInv, ClosedIsQuiet
  <1> QED BY <1>1, InvariantHolds, PTL

\* Shutting down never refuses the ingestion of an admitted import, the run of
\* a started investigation or a call of a running one (ui/product.py: close).
THEOREM AdmittedWorkGoesOn == Spec => []FollowedThrough
  <1>1. IInv => FollowedThrough
    BY DEF IInv, ShutdownInv, CallersFirst, FollowedThrough
  <1> QED BY <1>1, InvariantHolds, PTL

\* A complete source had every segment accepted and its candidates captured,
\* for every number of segments, unless an ingestion of it raised
\* (ui/product.py: _ingest).
THEOREM CompleteWasReviewed == Spec => []CompleteIsReviewed
  <1>1. IInv => CompleteIsReviewed
    BY DEF IInv
  <1> QED BY <1>1, InvariantHolds, PTL

\* A busy source has a request or an ingestion at work on it, unless the
\* process died or a request failed half-way (ui/product.py: _ingest).
THEOREM BusyHasAnOwner == Spec => []BusyIsOwned
  <1>1. IInv => BusyIsOwned
    BY DEF IInv
  <1> QED BY <1>1, InvariantHolds, PTL
=============================================================================
