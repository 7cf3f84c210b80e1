------------------------- MODULE DecisionMemoryProofs -------------------------
(***************************************************************************)
(* Proofs about DecisionMemory, for every set of claims, sources, versions  *)
(* and every number of changes: the inductive invariant (InvariantHolds),   *)
(* one valid version at a time, sources that still say what is valid, and   *)
(* nothing revived.  The decision that answers for a time is a maximum      *)
(* (AsOf); that there is one rests on the order of the naturals.            *)
(***************************************************************************)
EXTENDS DecisionMemory, WellFoundedInduction, TLAPS

-----------------------------------------------------------------------------
(* The latest of the decisions valid at a time.                            *)

\* Every nonempty set of natural numbers has a least element.
LEMMA LeastNatural ==
    ASSUME NEW T, T \subseteq Nat, T # {}
    PROVE  \E x \in T : \A y \in T : x <= y
<1> DEFINE R == {ss \in Nat \X Nat : ss[1] < ss[2]}
<1>1. IsWellFoundedOn(R, Nat)
    BY NatLessThanWellFounded DEF OpToRel
<1>2. PICK x \in T : \A y \in T : ~(<<y, x>> \in R)
    BY <1>1, WFMin
<1>3. ASSUME NEW y \in T PROVE x <= y
    <2>1. x \in Nat /\ y \in Nat
        BY <1>2
    <2>2. <<y, x>> \in Nat \X Nat
        BY <2>1
    <2>3. ~(y < x)
        BY <1>2, <2>2
    <2> QED BY <2>1, <2>3
<1> QED BY <1>2, <1>3

\* What is known of a claim.
LEMMA ClaimFacts ==
    ASSUME NEW c \in Candidates
    PROVE  /\ From(c) \in Nat /\ Claim[c].until \in 1..Forever /\ From(c) < Claim[c].until
           /\ Claim[c].source \in Sources /\ Claim[c].version \in Versions
           /\ (Verified(c) => Present(c))
    BY DecisionAssumption DEF ClaimOf, From, Verified, Present

\* AsOf is a decision that is valid at t, and none of them begins later.
LEMMA AsOfIsLatest ==
    ASSUME NEW t \in Nat, AsOf(t) # None \/ ValidAt(t) # {}
    PROVE  /\ AsOf(t) # None /\ AsOf(t) \in ValidAt(t)
           /\ \A e \in ValidAt(t) : From(e) <= From(AsOf(t))
<1> DEFINE T == {t - From(e) : e \in ValidAt(t)}
<1>1. ValidAt(t) # {}
    BY DEF AsOf
<1>2. \A e \in ValidAt(t) : e \in Candidates /\ From(e) \in Nat /\ From(e) <= t
    BY ClaimFacts DEF ValidAt, Written
<1>3. T \subseteq Nat /\ T # {}
    BY <1>1, <1>2
<1>4. PICK x \in T : \A y \in T : x <= y
    <2> HIDE DEF T
    <2> QED BY <1>3, LeastNatural
<1>5. PICK d \in ValidAt(t) : x = t - From(d)
    BY <1>4
<1>6. ASSUME NEW e \in ValidAt(t) PROVE From(e) <= From(d)
    <2>1. t - From(d) <= t - From(e)
        BY <1>4, <1>5
    <2> QED BY <2>1, <1>2
<1>7. /\ AsOf(t) \in ValidAt(t)
      /\ \A e \in ValidAt(t) : From(e) <= From(AsOf(t))
    BY <1>1, <1>5, <1>6 DEF AsOf
<1> QED BY <1>7, <1>2, DecisionAssumption

-----------------------------------------------------------------------------
(* Steps that leave the records and the receipts alone.                    *)

\* At the start nothing is written.
LEMMA InitHolds == Init => IInv
<1> SUFFICES ASSUME Init PROVE IInv
    OBVIOUS
<1>1. Written = {}
    BY DEF Init, Written
<1>2. TypeOK
    <2>1. content \in [Sources -> Versions \cup {Removed}]
        BY DEF Init
    <2>2. workflow \in [Candidates -> States \cup {None}]
        BY DEF Init
    <2>3. grant \in [Candidates -> [by : {None, "human", "policy"},
                                    revalidates : Candidates \cup {None}]]
        BY DEF Init
    <2>4. decision \in [Candidates -> Records \cup {None}]
        BY DEF Init
    <2>5. receipt \in [Candidates -> Receipts \cup {None}]
        BY DEF Init
    <2>6. \A c \in Candidates : workflow[c] \notin {"MATERIALIZED", "DUPLICATE"}
        BY NoneAssumption DEF Init, States
    <2>7. restored \subseteq Candidates /\ changes \in 0..MaxChanges
        BY DecisionAssumption DEF Init
    <2> QED BY <2>1, <2>2, <2>3, <2>4, <2>5, <2>6, <2>7 DEF TypeOK, Init
<1> QED BY <1>1, <1>2 DEF IInv, Receipted, OneVersionAtATime, RestsOnSource

\* What is said of the records alone outlives a step that leaves them alone.
LEMMA RecordsStand ==
    ASSUME Receipted, OneVersionAtATime, UNCHANGED <<decision, receipt, restored>>
    PROVE  Receipted' /\ OneVersionAtATime'
    BY DEF Receipted, OneVersionAtATime, Written, Valid, From

\* A step of the review: a candidate goes to a state that needs no receipt.
LEMMA WorkflowMoves ==
    ASSUME IInv, NEW c \in Candidates, NEW state \in States \ {"MATERIALIZED", "DUPLICATE"},
           workflow' = [workflow EXCEPT ![c] = state],
           grant' \in [Candidates -> [by : {None, "human", "policy"},
                                      revalidates : Candidates \cup {None}]],
           UNCHANGED <<content, decision, receipt, others>>
    PROVE  IInv'
<1>1. workflow' \in [Candidates -> States \cup {None}]
    BY DEF IInv, TypeOK
<1>2. \A b \in Candidates : workflow'[b] \in {"MATERIALIZED", "DUPLICATE"} =>
          receipt'[b] # None /\ receipt'[b].result = workflow'[b]
    BY DEF IInv, TypeOK
<1>3. receipt' \in [Candidates -> Receipts' \cup {None}]
    BY DEF IInv, TypeOK, Receipts, Written
<1>4. TypeOK'
    BY <1>1, <1>2, <1>3 DEF IInv, TypeOK, others
<1>5. Receipted' /\ OneVersionAtATime'
    BY RecordsStand DEF IInv, others
<1>6. RestsOnSource'
    BY DEF IInv, RestsOnSource, Written, Valid, Present, others
<1> QED BY <1>4, <1>5, <1>6 DEF IInv

\* A step that changes only what is left to do, and what the sources hold.
LEMMA RequestMoves ==
    ASSUME IInv, UNCHANGED <<workflow, grant, decision, receipt, restored>>,
           content' \in [Sources -> Versions \cup {Removed}],
           request' \in Sources \cup {"none", "restart"}, reconciled' \in BOOLEAN,
           changes' \in 0..MaxChanges, request' # "none" \/ ~reconciled'
    PROVE  IInv'
<1>1. receipt' \in [Candidates -> Receipts' \cup {None}]
    BY DEF IInv, TypeOK, Receipts, Written
<1>2. TypeOK'
    BY <1>1 DEF IInv, TypeOK
<1>3. Receipted' /\ OneVersionAtATime'
    BY RecordsStand DEF IInv
<1>4. RestsOnSource'
    BY DEF RestsOnSource
<1> QED BY <1>2, <1>3, <1>4 DEF IInv

-----------------------------------------------------------------------------
(* The review and the requests, action by action.                          *)

LEMMA CaptureKeeps == ASSUME IInv, NEW c \in Candidates, Capture(c) PROVE IInv'
<1>1. PICK state \in {"PENDING_REVIEW", Disposition(c)} :
          workflow' = [workflow EXCEPT ![c] = state]
    BY DEF Capture
<1>2. state \in States \ {"MATERIALIZED", "DUPLICATE"}
    BY DEF Disposition, States, Reviewable
<1> QED BY <1>1, <1>2, WorkflowMoves DEF Capture, IInv, TypeOK

LEMMA ApproveKeeps ==
    ASSUME IInv, NEW c \in Candidates, NEW r \in Candidates \cup {None}, Approve(c, r)
    PROVE  IInv'
<1>1. grant' \in [Candidates -> [by : {None, "human", "policy"},
                                 revalidates : Candidates \cup {None}]]
    BY DEF Approve, IInv, TypeOK
<1>2. "APPROVED" \in States \ {"MATERIALIZED", "DUPLICATE"}
    BY DEF States, Authorized
<1> QED BY <1>1, <1>2, WorkflowMoves DEF Approve

LEMMA AuthorizeKeeps ==
    ASSUME IInv, NEW c \in Candidates, AuthorizeByPolicy(c) PROVE IInv'
<1>1. grant' \in [Candidates -> [by : {None, "human", "policy"},
                                 revalidates : Candidates \cup {None}]]
    BY DEF AuthorizeByPolicy, IInv, TypeOK
<1>2. "POLICY_AUTHORIZED" \in States \ {"MATERIALIZED", "DUPLICATE"}
    BY DEF States, Authorized
<1> QED BY <1>1, <1>2, WorkflowMoves DEF AuthorizeByPolicy

\* A rejection, and the candidates of a source that moved on.
LEMMA DismissKeeps ==
    ASSUME IInv, NEW c \in Candidates, Reject(c) \/ Lapse(c) \/ Withdraw(c) PROVE IInv'
<1>1. {"REJECTED", "STALE"} \subseteq States \ {"MATERIALIZED", "DUPLICATE"}
    BY DEF States
<1>2. CASE Reject(c)
    BY <1>1, <1>2, WorkflowMoves DEF Reject, IInv, TypeOK
<1>3. CASE Lapse(c)
    BY <1>1, <1>3, WorkflowMoves DEF Lapse, IInv, TypeOK
<1>4. CASE Withdraw(c)
    BY <1>1, <1>4, WorkflowMoves DEF Withdraw, IInv, TypeOK
<1> QED BY <1>2, <1>3, <1>4

LEMMA ChangeSourceKeeps ==
    ASSUME IInv, NEW s \in Sources, NEW v \in Versions \cup {Removed}, ChangeSource(s, v)
    PROVE  IInv'
<1>1. content' \in [Sources -> Versions \cup {Removed}]
    BY DEF ChangeSource, IInv, TypeOK
<1>2. request' \in Sources \cup {"none", "restart"} /\ request' # "none"
    BY DecisionAssumption DEF ChangeSource
<1>3. changes' \in 0..MaxChanges
    BY DecisionAssumption DEF ChangeSource, IInv, TypeOK
<1> QED BY <1>1, <1>2, <1>3, RequestMoves DEF ChangeSource, IInv, TypeOK

\* A reconciliation that cannot be committed, and the end of the process.
LEMMA FailureKeeps == ASSUME IInv, ReconcileFails \/ Crash PROVE IInv'
<1>1. CASE ReconcileFails
    BY <1>1, RequestMoves DEF ReconcileFails, IInv, TypeOK
<1>2. CASE Crash
    BY <1>2, RequestMoves DEF Crash, IInv, TypeOK
<1> QED BY <1>1, <1>2

-----------------------------------------------------------------------------
(* Steps that change records.                                              *)

\* What the type invariant says of a decision that is written.
LEMMA RecordFacts ==
    ASSUME TypeOK, NEW d \in Written
    PROVE  /\ d \in Candidates /\ decision[d] \in Records
           /\ decision[d].status \in {"CURRENT", "SUPERSEDED"}
           /\ decision[d].memory \in Queried \cup {"STALE", "INVALIDATED"}
           /\ decision[d].until \in 1..Forever
           /\ decision[d].supersedes \in Candidates \cup {None}
    BY DEF TypeOK, Written, Records

\* A step that gives records other memory states and leaves the rest of them:
\* what it makes valid again it remembers as restored.
LEMMA MemoryMoves ==
    ASSUME IInv, NEW m, m \in [Candidates -> Queried \cup {"STALE", "INVALIDATED"}],
           decision' = [d \in Candidates |-> IF decision[d] = None THEN None
                                             ELSE [decision[d] EXCEPT !.memory = m[d]]],
           UNCHANGED receipt, restored \subseteq restored',
           \A d \in Written : ~Valid(d) /\ m[d] \in Queried => d \in restored'
    PROVE  /\ decision' \in [Candidates -> Records \cup {None}] /\ Written' = Written
           /\ receipt' \in [Candidates -> Receipts' \cup {None}]
           /\ Receipted' /\ OneVersionAtATime'
           /\ \A d \in Written : decision'[d].memory = m[d]
<1>1. ASSUME NEW d \in Written
      PROVE  /\ decision'[d] \in Records /\ decision'[d] # None
             /\ decision'[d].memory = m[d] /\ decision'[d].status = decision[d].status
             /\ decision'[d].until = decision[d].until
             /\ decision'[d].supersedes = decision[d].supersedes
    <2>1. d \in Candidates /\ decision[d] # None /\ decision[d] \in Records
        BY RecordFacts DEF IInv, Written
    <2>2. decision'[d] = [decision[d] EXCEPT !.memory = m[d]]
        BY <2>1
    <2>3. decision'[d] \in Records
        BY <2>1, <2>2 DEF Records
    <2> QED BY <2>1, <2>2, <2>3, NoneAssumption DEF Records
<1>2. \A d \in Candidates \ Written : decision'[d] = None
    BY DEF Written
<1>3. decision' \in [Candidates -> Records \cup {None}]
    <2>1. \A d \in Candidates : decision'[d] \in Records \cup {None}
        BY <1>1, <1>2
    <2>2. decision' = [d \in Candidates |-> decision'[d]]
        OBVIOUS
    <2> QED BY <2>1, <2>2
<1>4. Written' = Written
    BY <1>1, <1>2 DEF Written
<1>5. receipt' \in [Candidates -> Receipts' \cup {None}]
    BY <1>4 DEF IInv, TypeOK, Receipts
<1>6. Receipted'
    BY <1>1, <1>4 DEF IInv, Receipted, From
<1>7. \A d \in Written' \ restored' : d \in Written \ restored /\ (Valid(d)' => Valid(d))
    BY <1>1, <1>4 DEF Valid
<1>8. ASSUME NEW d \in Written' \ restored', NEW e \in Written' \ restored',
             d # e, Valid(d)', Valid(e)', From(d)' <= From(e)'
      PROVE  \/ decision'[d].until <= From(e)'
             \/ \E r \in restored' : From(d)' <= From(r)' /\ From(r)' <= From(e)'
    <2>1. Valid(d) /\ Valid(e) /\ From(d) <= From(e)
        BY <1>7, <1>8 DEF From
    <2>2. \/ decision[d].until <= From(e)
          \/ \E r \in restored : From(d) <= From(r) /\ From(r) <= From(e)
        BY <2>1, <1>7, <1>8 DEF IInv, OneVersionAtATime
    <2> QED BY <2>2, <1>1, <1>4 DEF From
<1>9. \A d \in Written' : decision'[d].status = "SUPERSEDED" =>
          \E e \in Written' : decision'[e].supersedes = d /\ From(e)' = decision'[d].until
    <2>1. SUFFICES ASSUME NEW d \in Written, decision'[d].status = "SUPERSEDED"
                   PROVE  \E e \in Written : decision'[e].supersedes = d
                                              /\ From(e)' = decision'[d].until
        BY <1>4
    <2>2. decision[d].status = "SUPERSEDED"
        BY <1>1, <2>1
    <2>3. PICK e \in Written : decision[e].supersedes = d /\ From(e) = decision[d].until
        BY <2>2 DEF IInv, OneVersionAtATime
    <2> QED BY <1>1, <2>3 DEF From
<1>10. OneVersionAtATime'
    BY <1>8, <1>9 DEF OneVersionAtATime
<1> QED BY <1>1, <1>3, <1>4, <1>5, <1>6, <1>10

\* A written decision is queried, or stale, or of a corrected extraction.
LEMMA CorrectKeeps ==
    ASSUME IInv, NEW bad \in Candidates, NEW good \in Candidates, Correct(bad, good)
    PROVE  IInv'
<1> DEFINE m == [d \in Candidates |-> IF decision[d] = None THEN "STALE"
                     ELSE IF receipt[bad] # None /\ d = receipt[bad].decision THEN "INVALIDATED"
                     ELSE decision[d].memory]
<1>1. workflow' \in [Candidates -> States \cup {None}]
    BY DEF Correct, IInv, TypeOK, States
<1>2. \A b \in Candidates : workflow'[b] \in {"MATERIALIZED", "DUPLICATE"} =>
          receipt'[b] # None /\ receipt'[b].result = workflow'[b]
    BY DEF Correct, IInv, TypeOK
<1>3. m \in [Candidates -> Queried \cup {"STALE", "INVALIDATED"}]
    BY RecordFacts DEF IInv, Written
<1>4. decision' = [d \in Candidates |-> IF decision[d] = None THEN None
                                        ELSE [decision[d] EXCEPT !.memory = m[d]]]
    <2>1. ASSUME NEW d \in Candidates, decision[d] # None
          PROVE  decision[d] = [decision[d] EXCEPT !.memory = decision[d].memory]
        BY <2>1, RecordFacts DEF IInv, Written, Records
    <2>2. CASE receipt[bad] = None
        BY <2>1, <2>2 DEF Correct, IInv, TypeOK
    <2>3. CASE receipt[bad] # None
        <3>1. receipt[bad].decision \in Written
            BY <2>3 DEF IInv, TypeOK, Receipts
        <3>2. decision' = [decision EXCEPT ![receipt[bad].decision].memory = "INVALIDATED"]
            BY <2>3 DEF Correct
        <3> QED BY <2>1, <2>3, <3>1, <3>2 DEF IInv, TypeOK, Written
    <2> QED BY <2>2, <2>3
<1>5. \A d \in Written : m[d] = "INVALIDATED" \/ m[d] = decision[d].memory
    BY DEF Written
<1>6. \A d \in Written : ~Valid(d) => m[d] \notin Queried
    BY <1>5 DEF Valid, Queried
<1> HIDE DEF m
<1>7. /\ decision' \in [Candidates -> Records \cup {None}] /\ Written' = Written
      /\ receipt' \in [Candidates -> Receipts' \cup {None}]
      /\ Receipted' /\ OneVersionAtATime'
      /\ \A d \in Written : decision'[d].memory = m[d]
    BY <1>3, <1>4, <1>6, MemoryMoves DEF Correct, others
<1>8. TypeOK'
    BY <1>1, <1>2, <1>7 DEF Correct, others, IInv, TypeOK
<1>9. \A d \in Written : Valid(d)' => Valid(d)
    BY <1>5, <1>7 DEF Valid, Queried
<1>10. RestsOnSource'
    BY <1>7, <1>9 DEF Correct, others, IInv, RestsOnSource, Present
<1> QED BY <1>7, <1>8, <1>10 DEF IInv

\* What a reconciliation makes of a decision's memory state is one of them,
\* and only a decision whose source still has its quote becomes valid.
LEMMA DesiredFacts ==
    ASSUME NEW d
    PROVE  /\ Desired(d) \in Queried \cup {"STALE", "INVALIDATED"}
           /\ Desired(d) \in Queried => Present(d) /\ d \notin Revalidated
           /\ decision[d].memory = "INVALIDATED" => Desired(d) = "INVALIDATED"
    BY DEF Desired, DesiredBySource, Queried

LEMMA ReconcileKeeps == ASSUME IInv, Reconcile PROVE IInv'
<1> DEFINE m == [d \in Candidates |-> Desired(d)]
<1>1. m \in [Candidates -> Queried \cup {"STALE", "INVALIDATED"}]
    BY DesiredFacts
<1>2. decision' = [d \in Candidates |-> IF decision[d] = None THEN None
                                        ELSE [decision[d] EXCEPT !.memory = m[d]]]
    BY DEF Reconcile
<1>3. \A d \in Written : m[d] = Desired(d)
    BY DEF Written
<1>4. restored \subseteq restored' /\ UNCHANGED receipt
      /\ \A d \in Written : ~Valid(d) /\ m[d] \in Queried => d \in restored'
    BY <1>3 DEF Reconcile
<1> HIDE DEF m
<1>5. /\ decision' \in [Candidates -> Records \cup {None}] /\ Written' = Written
      /\ receipt' \in [Candidates -> Receipts' \cup {None}]
      /\ Receipted' /\ OneVersionAtATime'
      /\ \A d \in Written : decision'[d].memory = m[d]
    BY <1>1, <1>2, <1>4, MemoryMoves
<1>6. ASSUME NEW c \in Candidates
      PROVE  /\ Synchronized(c) \in States \cup {None}
             /\ Synchronized(c) \in {"MATERIALIZED", "DUPLICATE"} =>
                    receipt[c] # None /\ receipt[c].result = Synchronized(c)
    <2>1. workflow[c] \in States \cup {None}
          /\ (workflow[c] \in {"MATERIALIZED", "DUPLICATE"} =>
                receipt[c] # None /\ receipt[c].result = workflow[c])
        BY DEF IInv, TypeOK
    <2>2. receipt[c] # None => receipt[c].result \in {"MATERIALIZED", "DUPLICATE"}
        BY DEF IInv, TypeOK, Receipts
    <2>3. {"STALE", "INVALIDATED", "MATERIALIZED", "DUPLICATE"} \subseteq States
        BY DEF States
    <2> QED BY <2>1, <2>2, <2>3 DEF Synchronized
<1>7. workflow' = [c \in Candidates |-> Synchronized(c)] /\ UNCHANGED receipt
    BY DEF Reconcile
<1>8. restored' \subseteq Candidates
    BY DEF Reconcile, IInv, TypeOK, Written
<1>9. TypeOK'
    <2>1. workflow' \in [Candidates -> States \cup {None}]
        BY <1>6, <1>7
    <2>2. \A c \in Candidates : workflow'[c] \in {"MATERIALIZED", "DUPLICATE"} =>
              receipt'[c] # None /\ receipt'[c].result = workflow'[c]
        BY <1>6, <1>7
    <2>3. UNCHANGED <<content, grant, changes>> /\ request' = "none" /\ reconciled' = TRUE
        BY DEF Reconcile
    <2> QED BY <1>5, <1>8, <2>1, <2>2, <2>3 DEF IInv, TypeOK
<1>10. RestsOnSource'
    <2>1. ASSUME NEW d \in Written, Valid(d)' PROVE Present(d)'
        <3>1. Desired(d) \in Queried
            BY <1>3, <1>5, <2>1 DEF Valid
        <3> QED BY <3>1, DesiredFacts DEF Present, Reconcile
    <2> QED BY <1>5, <2>1 DEF RestsOnSource
<1> QED BY <1>5, <1>9, <1>10 DEF IInv

-----------------------------------------------------------------------------
(* Materialization.                                                        *)

\* The receipt of a claim that was known already.
LEMMA DuplicateKeeps ==
    ASSUME IInv, NEW c \in Candidates, receipt[c] = None, NEW d \in Written,
           receipt' = [receipt EXCEPT ![c] = [decision |-> d, result |-> "DUPLICATE"]],
           workflow' = [workflow EXCEPT ![c] = "DUPLICATE"],
           UNCHANGED <<content, grant, decision, others>>
    PROVE  IInv'
<1> DEFINE new == [decision |-> d, result |-> "DUPLICATE"]
<1>1. d \in Candidates /\ c \notin Written
    BY DEF IInv, Receipted, Written
<1>2. new \in Receipts /\ new # None /\ new.result = "DUPLICATE"
    BY <1>1, NoneAssumption DEF Receipts
<1> HIDE DEF new
<1>3. receipt' \in [Candidates -> Receipts \cup {None}] /\ receipt'[c] = new
      /\ \A b \in Candidates \ {c} : receipt'[b] = receipt[b]
    BY <1>2 DEF new, IInv, TypeOK
<1>4. Written' = Written /\ Receipts' = Receipts
    BY DEF Written, Receipts
<1>5. workflow' \in [Candidates -> States \cup {None}] /\ workflow'[c] = "DUPLICATE"
      /\ \A b \in Candidates \ {c} : workflow'[b] = workflow[b]
    BY DEF IInv, TypeOK, States
<1>6. \A b \in Candidates : workflow'[b] \in {"MATERIALIZED", "DUPLICATE"} =>
          receipt'[b] # None /\ receipt'[b].result = workflow'[b]
    BY <1>2, <1>3, <1>5 DEF IInv, TypeOK
<1>7. TypeOK'
    BY <1>3, <1>4, <1>5, <1>6 DEF IInv, TypeOK, others
<1>8. Receipted'
    BY <1>1, <1>3, <1>4 DEF IInv, Receipted, Written, From
<1>9. OneVersionAtATime'
    BY <1>4 DEF IInv, OneVersionAtATime, Valid, From, others
<1>10. RestsOnSource'
    BY <1>4 DEF IInv, RestsOnSource, Valid, Present, others
<1> QED BY <1>7, <1>8, <1>9, <1>10 DEF IInv

\* A new decision: the claim is the latest, and closes its predecessor.
LEMMA NewDecision ==
    ASSUME IInv, NEW c \in Candidates, NEW prior, prior = AsOf(From(c)),
           receipt[c] = None, Later(c) = {}, prior # None => From(prior) < From(c),
           decision' = WithNew(c, prior)
    PROVE  /\ c \notin Written /\ Written' = Written \cup {c}
           /\ prior # None => prior \in ValidAt(From(c)) /\ prior \in Written /\ prior # c
           /\ decision' \in [Candidates -> Records \cup {None}]
           /\ decision'[c] = NewRecord(c, prior)
           /\ prior # None => decision'[prior] = Closed(prior, From(c))
           /\ \A d \in Candidates \ {c, prior} : decision'[d] = decision[d]
<1>1. c \notin Written
    BY DEF IInv, Receipted
<1>2. From(c) \in Nat /\ Claim[c].until \in 1..Forever
    BY ClaimFacts
<1>3. prior # None => prior \in ValidAt(From(c)) /\ prior \in Written /\ prior # c
    BY <1>1, <1>2, AsOfIsLatest DEF ValidAt
<1>4. prior \in Candidates \cup {None}
    BY <1>3 DEF Written
<1>5. NewRecord(c, prior) \in Records
    BY <1>2, <1>4 DEF NewRecord, Records, Queried
<1>6. ASSUME prior # None PROVE Closed(prior, From(c)) \in Records
    <2>1. decision[prior] \in Records
        BY <1>3, <1>6, RecordFacts DEF IInv
    <2>2. From(prior) < From(c) /\ From(prior) \in Nat /\ Forever \in Nat
        BY <1>3, <1>6, ClaimFacts, DecisionAssumption DEF Written
    <2>3. From(c) < Claim[c].until
        BY ClaimFacts
    <2>4. From(c) \in 1..Forever
        BY <1>2, <2>2, <2>3
    <2> QED BY <2>1, <2>4 DEF Closed, Records, Queried
<1>7. decision'[c] = NewRecord(c, prior)
      /\ (prior # None => decision'[prior] = Closed(prior, From(c)))
      /\ \A d \in Candidates \ {c, prior} : decision'[d] = decision[d]
    BY <1>3, <1>4 DEF WithNew
<1>8. decision' \in [Candidates -> Records \cup {None}]
    <2>1. \A d \in Candidates : decision[d] \in Records \cup {None}
        BY DEF IInv, TypeOK
    <2>2. ASSUME NEW d \in Candidates PROVE decision'[d] \in Records \cup {None}
        <3>1. CASE d = c
            BY <1>5, <1>7, <3>1
        <3>2. CASE d = prior /\ d # c
            BY <1>6, <1>7, <3>2, DecisionAssumption
        <3>3. CASE d # prior /\ d # c
            BY <1>7, <2>1, <3>3
        <3> QED BY <3>1, <3>2, <3>3
    <2>3. decision' = [d \in Candidates |-> decision'[d]]
        BY DEF WithNew
    <2> QED BY <2>2, <2>3
<1>9. Written' = Written \cup {c}
    <2>1. decision'[c] # None
        BY <1>5, <1>7, NoneAssumption
    <2>2. prior # None => decision'[prior] # None
        BY <1>6, <1>7, NoneAssumption
    <2>3. ASSUME NEW d \in Candidates
          PROVE  decision'[d] # None <=> decision[d] # None \/ d = c
        <3>1. CASE d = c
            BY <2>1, <3>1
        <3>2. CASE d = prior /\ d # c
            BY <1>3, <2>2, <3>2, DecisionAssumption DEF Written
        <3>3. CASE d # prior /\ d # c
            BY <1>7, <3>3
        <3> QED BY <3>1, <3>2, <3>3
    <2> QED BY <2>3 DEF Written
<1> QED BY <1>1, <1>3, <1>7, <1>8, <1>9

\* The same, field by field.
LEMMA NewDecisionFields ==
    ASSUME IInv, NEW c \in Candidates, NEW prior, prior = AsOf(From(c)),
           receipt[c] = None, Later(c) = {}, prior # None => From(prior) < From(c),
           decision' = WithNew(c, prior)
    PROVE  /\ decision'[c].status = "CURRENT" /\ decision'[c].memory = "ACTIVE"
           /\ decision'[c].until = Claim[c].until /\ decision'[c].supersedes = prior
           /\ prior # None => /\ decision'[prior].status = "SUPERSEDED"
                              /\ decision'[prior].memory = "SUPERSEDED"
                              /\ decision'[prior].until = From(c)
                              /\ decision'[prior].supersedes = decision[prior].supersedes
<1>1. decision'[c] = NewRecord(c, prior)
    BY NewDecision
<1>2. ASSUME prior # None
      PROVE  /\ decision'[prior] = Closed(prior, From(c)) /\ decision[prior] \in Records
    BY <1>2, NewDecision, RecordFacts DEF IInv
<1>3. /\ decision'[c].status = "CURRENT" /\ decision'[c].memory = "ACTIVE"
      /\ decision'[c].until = Claim[c].until /\ decision'[c].supersedes = prior
    BY <1>1 DEF NewRecord
<1>4. ASSUME prior # None
      PROVE  /\ decision'[prior].status = "SUPERSEDED" /\ decision'[prior].memory = "SUPERSEDED"
             /\ decision'[prior].until = From(c)
             /\ decision'[prior].supersedes = decision[prior].supersedes
    BY <1>2, <1>4 DEF Closed, Records
<1> QED BY <1>3, <1>4

\* One valid version at a time: the new one begins after all the valid ones,
\* and of those the latest is closed where it begins.
LEMMA NewDecisionIsAlone ==
    ASSUME IInv, NEW c \in Candidates, NEW prior, prior = AsOf(From(c)),
           receipt[c] = None, Later(c) = {}, prior # None => From(prior) < From(c),
           decision' = WithNew(c, prior), UNCHANGED restored,
           NEW d \in Written' \ restored, NEW e \in Written' \ restored, d # e,
           Valid(d)', Valid(e)', From(d) <= From(e)
    PROVE  \/ decision'[d].until <= From(e)
           \/ \E r \in restored : From(d) <= From(r) /\ From(r) <= From(e)
<1>1. /\ c \notin Written /\ Written' = Written \cup {c}
      /\ prior # None => prior \in ValidAt(From(c)) /\ prior \in Written /\ prior # c
      /\ \A b \in Candidates \ {c, prior} : decision'[b] = decision[b]
    BY NewDecision
<1>2. /\ decision'[c].until = Claim[c].until
      /\ prior # None => decision'[prior].until = From(c)
    BY NewDecisionFields
<1>3. ASSUME NEW b \in Written
      PROVE  /\ b \in Candidates /\ From(b) \in Nat /\ decision[b].until \in Nat
             /\ From(b) < decision[b].until
             /\ (Valid(b)' => Valid(b)) /\ (Valid(b) => From(b) <= From(c))
    <2>1. b \in Candidates /\ From(b) \in Nat /\ From(c) \in Nat
        BY ClaimFacts DEF Written
    <2>2. decision[b].until \in 1..Forever /\ From(b) < decision[b].until
        BY RecordFacts DEF IInv, Receipted
    <2>3. Valid(b)' => Valid(b)
        <3>1. CASE b = prior /\ prior # None
            BY <1>1, <3>1 DEF ValidAt
        <3>2. CASE b # prior
            BY <1>1, <2>1, <3>2 DEF Valid
        <3> QED BY <3>1, <3>2, <2>1, DecisionAssumption
    <2>4. Valid(b) => ~(From(b) > From(c))
        BY DEF Later
    <2> QED BY <2>1, <2>2, <2>3, <2>4
<1>4. From(c) \in Nat
    BY ClaimFacts
<1>5. CASE d # c /\ e # c
    <2>1. d \in Written \ restored /\ e \in Written \ restored /\ Valid(d) /\ Valid(e)
        BY <1>1, <1>3, <1>5
    <2>2. \/ decision[d].until <= From(e)
          \/ \E r \in restored : From(d) <= From(r) /\ From(r) <= From(e)
        BY <2>1 DEF IInv, OneVersionAtATime
    <2>3. CASE d = prior
        <3>1. prior # None /\ From(c) < decision[d].until
            BY <1>1, <2>1, <2>3, DecisionAssumption DEF ValidAt, Written
        <3>2. decision'[d].until = From(c)
            BY <1>2, <2>3, <3>1
        <3>3. From(c) \in Nat /\ decision[d].until \in Nat /\ From(e) \in Nat
            BY <1>3, <1>4, <2>1
        <3> QED BY <2>2, <3>1, <3>2, <3>3
    <2>4. CASE d # prior
        <3>1. decision'[d] = decision[d]
            BY <1>1, <1>3, <1>5, <2>1, <2>4
        <3> QED BY <2>2, <3>1
    <2> QED BY <2>3, <2>4
<1>6. CASE e = c
    <2>1. d \in Written \ restored /\ Valid(d)
        BY <1>1, <1>3, <1>6
    <2>2. From(d) \in Nat /\ decision[d].until \in Nat /\ From(d) <= From(c)
        BY <1>3, <2>1
    <2>3. CASE d = prior
        <3>1. prior # None
            BY <2>1, <2>3, DecisionAssumption DEF Written
        <3> QED BY <1>2, <1>4, <1>6, <2>3, <3>1
    <2>4. CASE d # prior /\ decision[d].until <= From(c)
        <3>1. decision'[d] = decision[d]
            BY <1>1, <1>3, <1>6, <2>1, <2>4
        <3> QED BY <1>6, <2>4, <3>1
    <2>5. CASE d # prior /\ ~(decision[d].until <= From(c))
        <3>1. d \in ValidAt(From(c))
            BY <2>1, <2>2, <2>5, <1>4 DEF ValidAt
        <3>2. prior # None /\ prior \in ValidAt(From(c)) /\ From(d) <= From(prior)
            BY <1>4, <3>1, AsOfIsLatest
        <3>3. prior \in Written /\ Valid(prior) /\ From(prior) < From(c) /\ From(prior) \in Nat
            BY <1>1, <1>3, <3>2 DEF ValidAt
        <3>4. CASE prior \in restored
            BY <1>6, <2>2, <1>4, <3>2, <3>3, <3>4
        <3>5. CASE prior \notin restored
            <4>1. \/ decision[d].until <= From(prior)
                  \/ \E r \in restored : From(d) <= From(r) /\ From(r) <= From(prior)
                BY <2>1, <2>5, <3>2, <3>3, <3>5 DEF IInv, OneVersionAtATime
            <4>2. ~(decision[d].until <= From(prior))
                BY <2>2, <2>5, <3>3, <1>4
            <4>3. PICK r \in restored : From(d) <= From(r) /\ From(r) <= From(prior)
                BY <4>1, <4>2
            <4>4. From(r) \in Nat
                <5>1. r \in Candidates
                    BY DEF IInv, TypeOK
                <5> QED BY <5>1, ClaimFacts
            <4>5. From(r) <= From(e)
                BY <1>4, <1>6, <3>3, <4>3, <4>4
            <4> QED BY <4>3, <4>5
        <3> QED BY <3>4, <3>5
    <2> QED BY <2>3, <2>4, <2>5
<1>7. CASE d = c
    <2>1. e \in Written /\ Valid(e)
        BY <1>1, <1>3, <1>7
    <2>2. From(e) \in Nat /\ From(e) <= From(c) /\ From(e) < decision[e].until
          /\ decision[e].until \in Nat
        BY <1>3, <2>1
    <2>3. From(e) = From(c)
        BY <1>4, <1>7, <2>2
    <2>4. e \in ValidAt(From(c))
        BY <1>4, <2>1, <2>2, <2>3 DEF ValidAt
    <2>5. prior # None /\ prior \in ValidAt(From(c)) /\ From(e) <= From(prior)
        BY <1>4, <2>4, AsOfIsLatest
    <2>6. From(prior) < From(c) /\ From(prior) \in Nat
        BY <1>1, <1>3, <2>5
    <2> QED BY <1>4, <2>3, <2>5, <2>6
<1> QED BY <1>5, <1>6, <1>7

\* A superseded version ends where the one that superseded it begins.
LEMMA NewDecisionLeavesNoGap ==
    ASSUME IInv, NEW c \in Candidates, NEW prior, prior = AsOf(From(c)),
           receipt[c] = None, Later(c) = {}, prior # None => From(prior) < From(c),
           decision' = WithNew(c, prior),
           NEW d \in Written', decision'[d].status = "SUPERSEDED"
    PROVE  \E e \in Written' : decision'[e].supersedes = d /\ From(e) = decision'[d].until
<1>1. /\ c \notin Written /\ Written' = Written \cup {c}
      /\ prior # None => prior \in Written /\ prior # c
      /\ \A b \in Candidates \ {c, prior} : decision'[b] = decision[b]
    BY NewDecision
<1>2. /\ decision'[c].status = "CURRENT" /\ decision'[c].supersedes = prior
      /\ prior # None => /\ decision'[prior].until = From(c)
                         /\ decision'[prior].supersedes = decision[prior].supersedes
    BY NewDecisionFields
<1>3. d \in Written /\ d # c /\ Written \subseteq Candidates
    BY <1>1, <1>2 DEF Written
<1>4. CASE d = prior
    BY <1>1, <1>2, <1>3, <1>4, DecisionAssumption
<1>5. CASE d # prior
    <2>1. decision'[d] = decision[d]
        BY <1>1, <1>3, <1>5
    <2>2. PICK e \in Written : decision[e].supersedes = d /\ From(e) = decision[d].until
        BY <1>3, <2>1 DEF IInv, OneVersionAtATime
    <2>3. decision'[e].supersedes = decision[e].supersedes
        BY <1>1, <1>2, <1>3, DecisionAssumption
    <2> QED BY <1>1, <2>1, <2>2, <2>3
<1> QED BY <1>4, <1>5

\* The new decision and its receipt.
LEMMA NewDecisionKeeps ==
    ASSUME IInv, NEW c \in Candidates, NEW prior, prior = AsOf(From(c)),
           receipt[c] = None, Later(c) = {}, prior # None => From(prior) < From(c),
           decision' = WithNew(c, prior), Verified(c),
           receipt' = [receipt EXCEPT ![c] = [decision |-> c, result |-> "MATERIALIZED"]],
           workflow' = [workflow EXCEPT ![c] = "MATERIALIZED"],
           UNCHANGED <<content, grant, others>>
    PROVE  IInv'
<1> DEFINE new == [decision |-> c, result |-> "MATERIALIZED"]
<1>1. /\ c \notin Written /\ Written' = Written \cup {c}
      /\ prior # None => prior \in ValidAt(From(c)) /\ prior \in Written /\ prior # c
      /\ decision' \in [Candidates -> Records \cup {None}]
      /\ \A b \in Candidates \ {c, prior} : decision'[b] = decision[b]
    BY NewDecision
<1>2. /\ decision'[c].until = Claim[c].until
      /\ prior # None => decision'[prior].until = From(c)
    BY NewDecisionFields
<1>3. new \in Receipts' /\ new # None /\ new.decision = c /\ new.result = "MATERIALIZED"
    BY <1>1, NoneAssumption DEF Receipts
<1>4. Receipts \subseteq Receipts'
    BY <1>1 DEF Receipts
<1> HIDE DEF new
<1>5. receipt' \in [Candidates -> Receipts' \cup {None}] /\ receipt'[c] = new
      /\ \A b \in Candidates \ {c} : receipt'[b] = receipt[b]
    BY <1>3, <1>4 DEF new, IInv, TypeOK
<1>6. workflow' \in [Candidates -> States \cup {None}] /\ workflow'[c] = "MATERIALIZED"
      /\ \A b \in Candidates \ {c} : workflow'[b] = workflow[b]
    BY DEF IInv, TypeOK, States
<1>7. \A b \in Candidates : workflow'[b] \in {"MATERIALIZED", "DUPLICATE"} =>
          receipt'[b] # None /\ receipt'[b].result = workflow'[b]
    BY <1>3, <1>5, <1>6 DEF IInv, TypeOK
<1>8. TypeOK'
    BY <1>1, <1>5, <1>6, <1>7 DEF IInv, TypeOK, others
<1>9. ASSUME NEW d \in Written'
      PROVE  receipt'[d] # None /\ receipt'[d].decision = d /\ From(d) < decision'[d].until
    <2>1. CASE d = c
        BY <1>2, <1>3, <1>5, <2>1, ClaimFacts
    <2>2. CASE d # c
        <3>1. d \in Written /\ d \in Candidates
            BY <1>1, <2>2 DEF Written
        <3>2. receipt[d] # None /\ receipt[d].decision = d /\ From(d) < decision[d].until
            BY <3>1 DEF IInv, Receipted
        <3>3. From(d) < decision'[d].until
            BY <1>1, <1>2, <2>2, <3>1, <3>2, DecisionAssumption
        <3> QED BY <1>5, <2>2, <3>1, <3>2, <3>3
    <2> QED BY <2>1, <2>2
<1>10. Receipted'
    BY <1>9 DEF Receipted, From
<1>11. OneVersionAtATime'
    <2>1. UNCHANGED restored
        BY DEF others
    <2>2. \A d, e \in Written' \ restored :
              d # e /\ Valid(d)' /\ Valid(e)' /\ From(d) <= From(e) =>
                 \/ decision'[d].until <= From(e)
                 \/ \E r \in restored : From(d) <= From(r) /\ From(r) <= From(e)
        BY <2>1, NewDecisionIsAlone
    <2>3. \A d \in Written' : decision'[d].status = "SUPERSEDED" =>
              \E e \in Written' : decision'[e].supersedes = d /\ From(e) = decision'[d].until
        BY NewDecisionLeavesNoGap
    <2> QED BY <2>1, <2>2, <2>3 DEF OneVersionAtATime, From
<1>12. RestsOnSource'
    <2>1. ASSUME NEW d \in Written', Valid(d)' PROVE d = c \/ (d \in Written /\ Valid(d))
        <3>1. CASE d \notin {c, prior}
            BY <1>1, <2>1, <3>1 DEF Valid, Written
        <3>2. CASE d = prior /\ d # c
            BY <1>1, <3>2, DecisionAssumption DEF ValidAt, Written
        <3> QED BY <3>1, <3>2
    <2>2. Present(c)
        BY ClaimFacts
    <2> QED BY <2>1, <2>2 DEF IInv, RestsOnSource, Present, others
<1> QED BY <1>8, <1>10, <1>11, <1>12 DEF IInv

LEMMA MaterializeKeeps == ASSUME IInv, NEW c \in Candidates, Materialize(c) PROVE IInv'
<1> DEFINE prior == AsOf(From(c))
           same == prior # None /\ SameValue(prior, c)
           known == IF Duplicates(c) # {} THEN {receipt[r].decision : r \in Duplicates(c)}
                    ELSE IF same THEN {prior} ELSE {}
<1>1. receipt[c] = None /\ Verified(c) /\ UNCHANGED <<content, grant, others>>
    BY DEF Materialize, Eligible
<1>2. known \subseteq Written
    <2>1. \A r \in Duplicates(c) : receipt[r].decision \in Written
        BY DEF Duplicates, IInv, TypeOK, Receipts
    <2>2. prior # None => prior \in Written
        BY ClaimFacts, AsOfIsLatest DEF ValidAt
    <2> QED BY <2>1, <2>2
<1>3. \/ \E d \in known :
             /\ receipt' = [receipt EXCEPT ![c] = [decision |-> d, result |-> "DUPLICATE"]]
             /\ workflow' = [workflow EXCEPT ![c] = "DUPLICATE"] /\ UNCHANGED decision
      \/ /\ Later(c) = {} /\ (prior # None => From(prior) < From(c))
         /\ decision' = WithNew(c, prior)
         /\ receipt' = [receipt EXCEPT ![c] = [decision |-> c, result |-> "MATERIALIZED"]]
         /\ workflow' = [workflow EXCEPT ![c] = "MATERIALIZED"]
    BY DEF Materialize
<1> HIDE DEF known, same
<1> QED BY <1>1, <1>2, <1>3, DuplicateKeeps, NewDecisionKeeps

-----------------------------------------------------------------------------
(* The theorems.                                                           *)

LEMMA NextKeeps == ASSUME IInv, [Next]_vars PROVE IInv'
<1>1. ASSUME NEW c \in Candidates,
             \/ Capture(c) \/ Reject(c) \/ AuthorizeByPolicy(c)
             \/ Materialize(c) \/ Lapse(c) \/ Withdraw(c)
             \/ \E r \in Candidates \cup {None} : Approve(c, r)
             \/ \E good \in Candidates : Correct(c, good)
      PROVE  IInv'
    BY <1>1, CaptureKeeps, DismissKeeps, AuthorizeKeeps, MaterializeKeeps, ApproveKeeps,
       CorrectKeeps
<1>2. ASSUME NEW s \in Sources, NEW v \in Versions \cup {Removed}, ChangeSource(s, v)
      PROVE  IInv'
    BY <1>2, ChangeSourceKeeps
<1>3. CASE Reconcile
    BY <1>3, ReconcileKeeps
<1>4. CASE ReconcileFails \/ Crash
    BY <1>4, FailureKeeps
<1>5. CASE UNCHANGED vars
    <2>1. Receipts' = Receipts /\ UNCHANGED others
        BY <1>5 DEF vars, others, Receipts, Written
    <2>2. TypeOK'
        BY <1>5, <2>1 DEF IInv, TypeOK, vars
    <2>3. Receipted' /\ OneVersionAtATime'
        BY <1>5, RecordsStand DEF IInv, vars
    <2>4. RestsOnSource'
        BY <1>5 DEF IInv, RestsOnSource, Written, Valid, Present, vars
    <2> QED BY <2>2, <2>3, <2>4 DEF IInv
<1> QED BY <1>1, <1>2, <1>3, <1>4, <1>5 DEF Next

\* The inductive invariant holds: the records, candidates and receipts of the
\* slot (decision_memory/store.py, materialization.py) are well formed, every
\* version was written with its receipt, and its interval is not empty.
THEOREM InvariantHolds == Spec => []IInv
<1>1. Init => IInv
    BY InitHolds
<1>2. IInv /\ [Next]_vars => IInv'
    BY NextKeeps
<1> QED BY <1>1, <1>2, PTL DEF Spec

\* The slot has one valid version at a time but around what a source brought
\* back, and what is superseded ends where its successor begins
\* (materialize_semantic_candidate, _write_decision_locked).
THEOREM VersionsAreDisjoint == Spec => []OneVersionAtATime
<1>1. IInv => OneVersionAtATime
    BY DEF IInv
<1> QED BY <1>1, InvariantHolds, PTL

\* Between requests, what queries read rests on a source that still has its
\* quote, when the last reconciliation was committed (reconciliation.py).
THEOREM ValidRestsOnSource == Spec => []RestsOnSource
<1>1. IInv => RestsOnSource
    BY DEF IInv
<1> QED BY <1>1, InvariantHolds, PTL

\* No step makes a corrected extraction valid again, nor a stale decision that
\* was revalidated (record_extraction_correction, reconciliation.py).
LEMMA NothingRevived ==
    ASSUME IInv, [Next]_vars, NEW d \in Written
    PROVE  /\ decision[d].memory = "INVALIDATED" => decision'[d].memory = "INVALIDATED"
           /\ d \in Revalidated /\ decision[d].memory = "STALE" =>
                 decision'[d].memory \notin Queried

<1>1. d \in Candidates
    BY DEF Written
<1>2. ASSUME UNCHANGED decision
      PROVE  decision'[d].memory = decision[d].memory
    BY <1>2
<1>3. ASSUME NEW c \in Candidates, Materialize(c)
      PROVE  UNCHANGED decision \/ decision'[d] = decision[d] \/ decision[d].memory \in Queried
    <2>1. CASE UNCHANGED decision
        BY <2>1
    <2>2. CASE ~UNCHANGED decision
        <3> DEFINE prior == AsOf(From(c))
        <3>1. /\ receipt[c] = None /\ Later(c) = {}
              /\ (prior # None => From(prior) < From(c)) /\ decision' = WithNew(c, prior)
            BY <1>3, <2>2 DEF Materialize
        <3>2. /\ c \notin Written /\ (prior # None => prior \in ValidAt(From(c)))
              /\ \A b \in Candidates \ {c, prior} : decision'[b] = decision[b]
            <4> HIDE DEF prior
            <4>1. prior = AsOf(From(c))
                BY DEF prior
            <4> QED BY <3>1, <4>1, NewDecision
        <3>3. CASE d = prior
            BY <1>1, <3>2, <3>3, DecisionAssumption DEF ValidAt, Valid
        <3>4. CASE d # prior
            BY <1>1, <3>2, <3>4
        <3> QED BY <3>3, <3>4
    <2> QED BY <2>1, <2>2
<1>4. ASSUME NEW bad \in Candidates, NEW good \in Candidates, Correct(bad, good)
      PROVE  decision'[d].memory \in {decision[d].memory, "INVALIDATED"}
    <2>1. CASE UNCHANGED decision
        BY <2>1
    <2>2. CASE ~UNCHANGED decision
        <3>1. decision' = [decision EXCEPT ![receipt[bad].decision].memory = "INVALIDATED"]
            BY <1>4, <2>2 DEF Correct
        <3>2. CASE d = receipt[bad].decision
            <4>1. decision'[d] = [decision[d] EXCEPT !.memory = "INVALIDATED"]
                BY <1>1, <3>1, <3>2 DEF IInv, TypeOK
            <4>2. decision[d] \in Records
                BY RecordFacts DEF IInv
            <4> QED BY <4>1, <4>2 DEF Records
        <3>3. CASE d # receipt[bad].decision
            BY <1>1, <3>1, <3>3 DEF IInv, TypeOK
        <3> QED BY <3>2, <3>3
    <2> QED BY <2>1, <2>2
<1>5. ASSUME Reconcile
      PROVE  decision'[d].memory = Desired(d)
    <2>1. decision'[d] = [decision[d] EXCEPT !.memory = Desired(d)]
        BY <1>1, <1>5 DEF Reconcile, Written
    <2>2. decision[d] \in Records
        BY RecordFacts DEF IInv
    <2> QED BY <2>1, <2>2 DEF Records
<1>6. \/ UNCHANGED decision
      \/ \E c \in Candidates : Materialize(c) \/ \E good \in Candidates : Correct(c, good)
      \/ Reconcile
    BY DEF Next, vars, Capture, Reject, AuthorizeByPolicy, Lapse, Withdraw, Approve,
           ChangeSource, ReconcileFails, Crash
<1>7. \/ decision'[d].memory \in {decision[d].memory, "INVALIDATED"}
      \/ decision[d].memory \in Queried
      \/ decision'[d].memory = Desired(d)
    BY <1>2, <1>3, <1>4, <1>5, <1>6
<1>8. CASE decision[d].memory \in Queried
    BY <1>8 DEF Queried
<1>9. CASE decision'[d].memory = Desired(d)
    BY <1>9, DesiredFacts DEF Queried
<1> QED BY <1>7, <1>8, <1>9 DEF Queried

\* No step makes a corrected extraction valid again, nor a decision that was
\* revalidated and is stale, whatever its source does (reconciliation.py).
THEOREM NoneRevived == Spec => NoRevival
<1>1. IInv /\ [Next]_vars =>
         [\A d \in Written :
             /\ decision[d].memory = "INVALIDATED" => decision'[d].memory = "INVALIDATED"
             /\ d \in Revalidated /\ decision[d].memory = "STALE" =>
                   decision'[d].memory \notin Queried]_vars
    BY NothingRevived
<1> QED BY <1>1, InvariantHolds, PTL DEF Spec, NoRevival
===============================================================================
