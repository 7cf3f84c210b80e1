--------------------------- MODULE ProofReviewProofs ---------------------------
(***************************************************************************)
(* Proofs about ProofReview, for every set of requests, steps, faults and   *)
(* bounds.  A request leaves its trace in three places: marks and a         *)
(* statement in the review journal, relations in the sidecar.  The lemmas   *)
(* say what one more mark, one more statement and one more relation do to   *)
(* each part of the invariant; the steps of a post are then put together    *)
(* from these.                                                              *)
(***************************************************************************)
EXTENDS ProofReview, FiniteSetTheorems, SequenceTheorems, NaturalsInduction,
        WellFoundedInduction, TLAPS

-----------------------------------------------------------------------------
(* The least and the greatest.                                             *)

LEMMA LeastOf ==
    ASSUME NEW T, T \subseteq Nat, T # {}
    PROVE  Min(T) \in T /\ \A y \in T : Min(T) <= y
<1> DEFINE R == {ss \in Nat \X Nat : ss[1] < ss[2]}
<1>1. IsWellFoundedOn(R, Nat)
    BY NatLessThanWellFounded DEF OpToRel
<1>2. PICK x \in T : \A y \in T : ~(<<y, x>> \in R)
    <2> HIDE DEF R
    <2> QED BY <1>1, WFMin
<1>3. \A y \in T : x <= y
    <2> TAKE y \in T
    <2>1. x \in Nat /\ y \in Nat
        BY <1>2
    <2>2. <<y, x>> \in Nat \X Nat
        BY <2>1
    <2>3. ~(y < x)
        BY <1>2, <2>2
    <2> QED BY <2>1, <2>3
<1> QED BY <1>3 DEF Min

LEMMA GreatestOf ==
    ASSUME NEW n \in Nat, NEW S \in SUBSET (1..n), S # {}
    PROVE  Max(S) \in S /\ \A k \in S : k <= Max(S)
<1> DEFINE Above == {n - k : k \in S}
<1>1. \A k \in S : k \in Nat /\ n - k \in Nat
    OBVIOUS
<1>2. Above \subseteq Nat /\ Above # {}
    BY <1>1
<1>3. PICK x \in Above : \A y \in Above : x <= y
    <2> HIDE DEF Above
    <2> QED BY <1>2, LeastOf
<1>4. PICK m \in S : x = n - m
    OBVIOUS
<1>5. \A k \in S : m >= k
    <2> TAKE k \in S
    <2>1. n - k \in Above /\ k \in Nat /\ m \in Nat
        BY <1>1
    <2>2. n - m <= n - k
        BY <1>3, <1>4, <2>1
    <2> QED BY <2>1, <2>2
<1>6. Max(S) \in S /\ \A k \in S : Max(S) >= k
    <2>1. \E g \in S : \A k \in S : g >= k
        BY <1>5
    <2> QED BY <2>1 DEF Max
<1> QED BY <1>1, <1>6

LEMMA Appended ==
    ASSUME NEW S, NEW s \in Seq(S), NEW x \in S
    PROVE  /\ Append(s, x) \in Seq(S)
           /\ Len(Append(s, x)) = Len(s) + 1 /\ Len(s) \in Nat
           /\ DOMAIN Append(s, x) = DOMAIN s \cup {Len(s) + 1}
           /\ DOMAIN s = 1..Len(s)
           /\ Append(s, x)[Len(s) + 1] = x
           /\ \A i \in DOMAIN s : Append(s, x)[i] = s[i]
    OBVIOUS

-----------------------------------------------------------------------------
(* Types.                                                                  *)

PCs == Underway \cup {"rebuild", "begin", "block", "blocked", "repair"}
Audited == [body : Continues, phase : Phases, head : Heads]

LEMMA BodyFacts ==
    ASSUME NEW b \in Bodies
    PROVE  /\ b.request \in Requests /\ b.step \in Items
           /\ b.action \in {"CONTINUE", "REVIEW"} /\ b.expected \in Nat
           /\ b \in [request : Requests \cup {None}, step : Items,
                     action : {"CONTINUE", "REVIEW"}, expected : Nat]
<1>1. MaxPosts + MaxEvents \in Nat
    BY ProofReviewAssumption
<1>2. \A e \in 0 .. MaxPosts + MaxEvents : e \in Nat
    BY <1>1
<1>3. b \in [request : Requests, step : Items, action : {"CONTINUE", "REVIEW"}, expected : Nat]
    BY <1>2, ProofReviewAssumption DEF Bodies
<1> QED BY <1>3

LEMMA ContinueFacts ==
    ASSUME NEW b \in Continues
    PROVE  b \in Bodies /\ b.action = "CONTINUE" /\ b.request \in Requests /\ b.step \in Items
    BY BodyFacts DEF Continues

LEMMA HandFacts ==
    ASSUME NEW h \in Hands
    PROVE  /\ h.pc \in PCs /\ h.body \in Continues /\ h.body.request \in Requests
           /\ h.body.step \in Items /\ h.body.action = "CONTINUE"
           /\ h.head \in Heads /\ h.before \in Histories /\ h.todo \in Seq(Items)
           /\ h # None
<1>1. /\ h.pc \in PCs /\ h.body \in Continues
      /\ h.head \in Heads /\ h.before \in Histories /\ h.todo \in Seq(Items)
    BY DEF Hands, PCs
<1> QED BY <1>1, ContinueFacts, ProofReviewAssumption

\* The post goes on, with what it may change: where it is, the head it carries,
\* what was there before and what is still to be captured.
LEMMA HandMoves ==
    ASSUME NEW h \in Hands, NEW pc \in PCs
    PROVE  /\ [h EXCEPT !.pc = pc] \in Hands
           /\ [h EXCEPT !.pc = pc].pc = pc /\ [h EXCEPT !.pc = pc].body = h.body
           /\ [h EXCEPT !.pc = pc].head = h.head /\ [h EXCEPT !.pc = pc].before = h.before
    BY DEF Hands, PCs

LEMMA HandOpens ==
    ASSUME NEW h \in Hands, NEW pc \in PCs, NEW before \in Histories
    PROVE  LET g == [h EXCEPT !.pc = pc, !.before = before] IN
           g \in Hands /\ g.pc = pc /\ g.body = h.body /\ g.head = h.head /\ g.before = before
    BY DEF Hands, PCs

LEMMA HandCaptures ==
    ASSUME NEW h \in Hands, NEW pc \in PCs, NEW todo \in Seq(Items)
    PROVE  LET g == [h EXCEPT !.pc = pc, !.todo = todo] IN
           g \in Hands /\ g.pc = pc /\ g.body = h.body /\ g.head = h.head /\ g.before = h.before
    BY DEF Hands, PCs

LEMMA HandGoesOn ==
    ASSUME NEW h \in Hands, NEW todo \in Seq(Items)
    PROVE  LET g == [h EXCEPT !.todo = todo] IN
           g \in Hands /\ g.pc = h.pc /\ g.body = h.body /\ g.head = h.head /\ g.before = h.before
    BY DEF Hands, PCs

LEMMA HandLocks ==
    ASSUME NEW h \in Hands, NEW pc \in PCs, NEW head \in Heads
    PROVE  LET g == [h EXCEPT !.pc = pc, !.head = head] IN
           g \in Hands /\ g.pc = pc /\ g.body = h.body /\ g.head = head /\ g.before = h.before
    BY DEF Hands, PCs

LEMMA NeedsFacts ==
    ASSUME NEW step \in Items
    PROVE  Needs(step) \subseteq Items /\ Order(step) \in Seq(Items)
<1>1. CASE step = "identity"
    <2>1. Order(step) = <<"identity">>
        BY <1>1 DEF Order
    <2> QED BY <2>1 DEF Needs, ToSet, Items
<1>2. CASE step = "revision"
    <2>1. Order(step) = <<"identity", "revision">>
        BY <1>2 DEF Order
    <2> QED BY <2>1 DEF Needs, ToSet, Items
<1>3. CASE step = "dates"
    <2>1. Order(step) = <<"identity", "revision", "dates">>
        BY <1>3 DEF Order
    <2> QED BY <2>1 DEF Needs, ToSet, Items
<1> QED BY <1>1, <1>2, <1>3 DEF Items

\* The events of one item.
OneHistory == {<<>>} \cup {h \in Seq(Events) : h # <<>> /\ h[1] = "ACTIVE"}

LEMMA HistoryFacts ==
    ASSUME NEW rows \in Histories, NEW item \in Items
    PROVE  /\ rows[item] \in OneHistory /\ rows[item] \in Seq(Events) /\ Len(rows[item]) \in Nat
           /\ DOMAIN rows = Items
           /\ rows[item] # <<>> => rows[item][1] = "ACTIVE" /\ Len(rows[item]) >= 1
<1>1. rows[item] \in OneHistory /\ DOMAIN rows = Items
    BY DEF Histories, OneHistory
<1>2. rows[item] \in Seq(Events)
    <2>1. CASE rows[item] = <<>>
        BY <2>1
    <2>2. CASE rows[item] # <<>>
        BY <1>1, <2>2 DEF OneHistory
    <2> QED BY <2>1, <2>2
<1> QED BY <1>1, <1>2 DEF OneHistory

LEMMA RowsType ==
    ASSUME TypeOK
    PROVE  Rows \in Histories /\ (sidecar \in Histories => Rows = sidecar)
<1>1. <<>> \in OneHistory
    BY DEF OneHistory
<1>2. NoRows \in Histories
    BY <1>1 DEF NoRows, Histories, OneHistory
<1> QED BY <1>2 DEF Rows

\* Another event of an item, and its first one.
LEMMA EventAdded ==
    ASSUME NEW rows \in Histories, NEW item \in Items, NEW event \in Events,
           rows[item] # <<>> \/ event = "ACTIVE"
    PROVE  LET after == [rows EXCEPT ![item] = Append(@, event)] IN
           /\ after \in Histories
           /\ after[item] = Append(rows[item], event) /\ Len(after[item]) = Len(rows[item]) + 1
           /\ \A other \in Items : other # item => after[other] = rows[other]
<1> DEFINE new == Append(rows[item], event)
<1>1. rows[item] \in Seq(Events) /\ Len(rows[item]) \in Nat /\ DOMAIN rows = Items
      /\ (rows[item] # <<>> => rows[item][1] = "ACTIVE" /\ Len(rows[item]) >= 1)
    BY HistoryFacts
<1>2. new \in Seq(Events) /\ new # <<>> /\ Len(new) = Len(rows[item]) + 1
    BY <1>1
<1>3. new[1] = "ACTIVE"
    <2>1. CASE rows[item] # <<>>
        <3>1. 1 \in 1..Len(rows[item])
            BY <1>1, <2>1
        <3> QED BY <1>1, <2>1, <3>1
    <2>2. CASE rows[item] = <<>>
        BY <2>2
    <2> QED BY <2>1, <2>2
<1>4. new \in OneHistory
    BY <1>2, <1>3 DEF OneHistory
<1> HIDE DEF new
<1>5. [rows EXCEPT ![item] = new] \in Histories
    BY <1>4 DEF Histories, OneHistory
<1>6. /\ [rows EXCEPT ![item] = new][item] = new
      /\ \A other \in Items : other # item => [rows EXCEPT ![item] = new][other] = rows[other]
    BY <1>1
<1> QED BY <1>2, <1>5, <1>6 DEF new

LEMMA PutFacts ==
    ASSUME TypeOK, NEW item \in Items, Put(item)
    PROVE  /\ sidecar' \in Histories /\ sidecar' # NoFile
           /\ \A other \in Items : Len(Rows[other]) <= Len(sidecar'[other])
<1>1. Rows \in Histories
    BY RowsType
<1>2. \A other \in Items : Len(Rows[other]) \in Nat
    BY <1>1, HistoryFacts
<1>3. CASE Rows[item] = <<>>
    <2>1. Append(Rows[item], "ACTIVE") = <<"ACTIVE">>
        BY <1>3
    <2>2. sidecar' = [Rows EXCEPT ![item] = <<"ACTIVE">>]
        BY <1>3 DEF Put
    <2>3. [Rows EXCEPT ![item] = Append(@, "ACTIVE")] = [Rows EXCEPT ![item] = <<"ACTIVE">>]
        BY <2>1
    <2> DEFINE after == [Rows EXCEPT ![item] = Append(@, "ACTIVE")]
    <2>4. /\ after \in Histories /\ Len(after[item]) = Len(Rows[item]) + 1
          /\ \A other \in Items : other # item => after[other] = Rows[other]
        BY <1>1, <1>3, EventAdded DEF Events
    <2>5. sidecar' = after
        BY <2>2, <2>3
    <2> HIDE DEF after
    <2>6. sidecar' # NoFile
        BY <2>4, <2>5, ProofReviewAssumption
    <2> QED BY <1>2, <2>4, <2>5, <2>6
<1>4. CASE Rows[item] # <<>>
    <2>1. sidecar' = Rows
        BY <1>4 DEF Put
    <2> QED BY <1>1, <1>2, <2>1, ProofReviewAssumption
<1> QED BY <1>3, <1>4

-----------------------------------------------------------------------------
(* The journal: one more statement, one more mark.                         *)

LEMMA StatementFacts ==
    ASSUME TypeOK
    PROVE  /\ statements \in Seq(Statements) /\ Revision \in Nat
           /\ DOMAIN statements = 1 .. Revision
           /\ \A i \in 1 .. Revision : statements[i] \in Statements
           /\ \A q : Of(q) \subseteq 1 .. Revision
    BY DEF TypeOK, Revision, Of

LEMMA StatementAdded ==
    ASSUME TypeOK, NEW st \in Statements, statements' = Append(statements, st)
    PROVE  /\ statements' \in Seq(Statements) /\ Revision' = Revision + 1
           /\ statements'[Revision + 1] = st
           /\ \A i \in 1 .. Revision : statements'[i] = statements[i]
           /\ \A q \in Requests \cup {None} :
                 (Of(q))' = IF st.body.request = q THEN Of(q) \cup {Revision + 1} ELSE Of(q)
<1>1. /\ statements \in Seq(Statements) /\ Revision \in Nat /\ Revision = Len(statements)
      /\ DOMAIN statements = 1 .. Revision
    BY StatementFacts DEF Revision
<1>2. /\ statements' \in Seq(Statements) /\ Revision' = Revision + 1
      /\ statements'[Revision + 1] = st
      /\ \A i \in 1 .. Revision : statements'[i] = statements[i]
    BY <1>1, Appended DEF Revision
<1>3. ASSUME NEW q \in Requests \cup {None}
      PROVE  (Of(q))' = IF st.body.request = q THEN Of(q) \cup {Revision + 1} ELSE Of(q)
    <2>1. (Of(q))' = {i \in 1 .. (Revision + 1) : statements'[i].body.request = q}
        BY <1>2 DEF Of
    <2>2. 1 .. (Revision + 1) = (1 .. Revision) \cup {Revision + 1}
        BY <1>1
    <2> QED BY <1>2, <2>1, <2>2 DEF Of
<1> QED BY <1>2, <1>3

LEMMA MarkFacts ==
    ASSUME TypeOK, NEW q \in Requests
    PROVE  /\ audits \in Seq(Audited) /\ Len(audits) \in Nat /\ DOMAIN audits = 1 .. Len(audits)
           /\ \A phases : Marks(q, phases) \subseteq 1 .. Len(audits)
           /\ \A k \in DOMAIN audits : audits[k] \in Audited
           /\ Marked(q, "PENDING") =>
                 /\ Min(Marks(q, {"PENDING"})) \in Marks(q, {"PENDING"})
                 /\ FirstPending(q) \in Audited
                 /\ FirstPending(q).body.request = q /\ FirstPending(q).body \in Continues
<1>1. audits \in Seq(Audited) /\ Len(audits) \in Nat /\ DOMAIN audits = 1 .. Len(audits)
    BY DEF TypeOK, Audited
<1>2. \A phases : Marks(q, phases) \subseteq 1 .. Len(audits)
    BY <1>1 DEF Marks
<1>3. \A k \in DOMAIN audits : audits[k] \in Audited
    BY <1>1
<1>4. ASSUME Marked(q, "PENDING")
      PROVE  /\ Min(Marks(q, {"PENDING"})) \in Marks(q, {"PENDING"})
             /\ FirstPending(q) \in Audited
             /\ FirstPending(q).body.request = q /\ FirstPending(q).body \in Continues
    <2> DEFINE M == Marks(q, {"PENDING"})
    <2>1. M \subseteq Nat /\ M # {}
        BY <1>1, <1>2, <1>4 DEF Marked
    <2>2. Min(M) \in M
        <3> HIDE DEF M
        <3> QED BY <2>1, LeastOf
    <2>3. Min(M) \in DOMAIN audits /\ audits[Min(M)].body.request = q
        BY <2>2 DEF Marks
    <2>4. audits[Min(M)] \in Audited
        BY <2>3, <1>3
    <2> QED BY <2>2, <2>3, <2>4 DEF FirstPending, Audited
<1> QED BY <1>1, <1>2, <1>3, <1>4

LEMMA MarkAdded ==
    ASSUME TypeOK, NEW m \in Audited, audits' = Append(audits, m)
    PROVE  /\ audits' \in Seq(Audited) /\ Len(audits) + 1 \notin DOMAIN audits
           /\ audits'[Len(audits) + 1] = m
           /\ \A k \in DOMAIN audits : audits'[k] = audits[k]
           /\ \A q \in Requests, phases \in SUBSET Phases :
                 Marks(q, phases)' = IF m.body.request = q /\ m.phase \in phases
                                     THEN Marks(q, phases) \cup {Len(audits) + 1}
                                     ELSE Marks(q, phases)
<1> DEFINE n == Len(audits) + 1
<1>1. audits \in Seq(Audited) /\ Len(audits) \in Nat /\ DOMAIN audits = 1 .. Len(audits)
    BY DEF TypeOK, Audited
<1>2. /\ audits' \in Seq(Audited) /\ DOMAIN audits' = DOMAIN audits \cup {n}
      /\ audits'[n] = m /\ \A k \in DOMAIN audits : audits'[k] = audits[k]
    BY <1>1, Appended
<1>3. n \notin DOMAIN audits
    BY <1>1
<1> HIDE DEF n
<1>4. ASSUME NEW q \in Requests, NEW phases \in SUBSET Phases
      PROVE  Marks(q, phases)' = IF m.body.request = q /\ m.phase \in phases
                                 THEN Marks(q, phases) \cup {n} ELSE Marks(q, phases)
    <2>1. Marks(q, phases)' = {k \in DOMAIN audits \cup {n} :
              audits'[k].body.request = q /\ audits'[k].phase \in phases}
        BY <1>2 DEF Marks
    <2> QED BY <1>2, <1>3, <2>1 DEF Marks
<1> QED BY <1>2, <1>3, <1>4 DEF n

\* What a mark changes: the marks of its phase, the last mark of its request,
\* and the first pending one only if there was none.
LEMMA MarkedNext ==
    ASSUME TypeOK, NEW m \in Audited, audits' = Append(audits, m), NEW q \in Requests
    PROVE  /\ \A phase \in Phases : Marked(q, phase)' <=>
                 Marked(q, phase) \/ (m.body.request = q /\ m.phase = phase)
           /\ Marked(q, "PENDING") => FirstPending(q)' = FirstPending(q)
           /\ ~Marked(q, "PENDING") /\ Marked(q, "PENDING")' => FirstPending(q)' = m
           /\ m.body.request = q => LastMark(q)' = m
           /\ m.body.request # q /\ Marks(q, Phases) # {} => LastMark(q)' = LastMark(q)
<1> DEFINE n == Len(audits) + 1
<1>1. /\ audits'[n] = m /\ n \notin DOMAIN audits
      /\ \A k \in DOMAIN audits : audits'[k] = audits[k]
    BY MarkAdded
<1>2. \A phases \in SUBSET Phases :
         Marks(q, phases)' = IF m.body.request = q /\ m.phase \in phases
                             THEN Marks(q, phases) \cup {n} ELSE Marks(q, phases)
    BY MarkAdded
<1>3. m.phase \in Phases
    BY DEF Audited
<1>4. /\ Len(audits) \in Nat /\ DOMAIN audits = 1 .. Len(audits)
      /\ \A phases : Marks(q, phases) \subseteq 1 .. Len(audits)
    BY MarkFacts
<1>5. n \in Nat /\ \A k \in 1 .. Len(audits) : k < n /\ k \in Nat /\ k \in 1 .. n
    BY <1>4
<1> HIDE DEF n
<1>6. \A phase \in Phases : Marked(q, phase)' <=>
                 Marked(q, phase) \/ (m.body.request = q /\ m.phase = phase)
    <2> TAKE phase \in Phases
    <2>1. Marks(q, {phase})' = IF m.body.request = q /\ m.phase \in {phase}
                             THEN Marks(q, {phase}) \cup {n} ELSE Marks(q, {phase})
        BY <1>2
    <2>2. Marked(q, phase)' <=> Marks(q, {phase})' # {}
        BY DEF Marked
    <2> QED BY <2>1, <2>2 DEF Marked
<1> DEFINE P == Marks(q, {"PENDING"})
           A == Marks(q, Phases)
<1>7. {"PENDING"} \in SUBSET Phases /\ Phases \in SUBSET Phases
    BY DEF Phases
<1>8. P' = (IF m.body.request = q /\ m.phase \in {"PENDING"} THEN P \cup {n} ELSE P)
    BY <1>2, <1>7
<1>9. A' = IF m.body.request = q THEN A \cup {n} ELSE A
    BY <1>2, <1>3, <1>7
<1>10. FirstPending(q)' = audits'[Min(P')] /\ FirstPending(q) = audits[Min(P)]
    BY DEF FirstPending
<1>11. LastMark(q)' = audits'[Max(A')] /\ LastMark(q) = audits[Max(A)]
    BY DEF LastMark
<1>12. P \subseteq 1 .. Len(audits) /\ A \subseteq 1 .. Len(audits)
    BY <1>4
<1>13. (Marked(q, "PENDING") <=> P # {}) /\ (Marked(q, "PENDING")' <=> P' # {})
    BY DEF Marked
<1> HIDE DEF P, A
<1>14. ASSUME P # {} PROVE FirstPending(q)' = FirstPending(q)
    <2> PICK Q : Q = P'
        OBVIOUS
    <2>1. Min(P) \in P /\ \A y \in P : Min(P) <= y
        BY <1>5, <1>12, <1>14, LeastOf
    <2>2. Q \subseteq Nat /\ Q # {}
        BY <1>5, <1>8, <1>12, <1>14
    <2>3. Min(Q) \in Q /\ \A y \in Q : Min(Q) <= y
        BY <2>2, LeastOf
    <2>4. P \subseteq Q /\ Q \subseteq P \cup {n}
        BY <1>8
    <2>5. Min(Q) <= Min(P) /\ Min(P) \in 1 .. Len(audits)
        BY <2>1, <2>3, <2>4, <1>12
    <2>6. Min(Q) # n /\ Min(Q) \in Nat /\ Min(P) \in Nat
        <3> DEFINE a == Min(Q)
                   b == Min(P)
        <3>1. a \in Nat /\ a <= b /\ b < n /\ b \in Nat
            BY <1>5, <2>2, <2>3, <2>5
        <3> HIDE DEF a, b
        <3>2. a # n
            BY <3>1, <1>5
        <3> QED BY <3>1, <3>2 DEF a, b
    <2>7. Min(Q) \in P
        BY <2>3, <2>4, <2>6
    <2>8. Min(P) <= Min(Q)
        BY <2>1, <2>7
    <2>9. Min(Q) = Min(P)
        BY <2>5, <2>6, <2>8
    <2> QED BY <1>1, <1>4, <1>10, <2>5, <2>9
<1>15. ASSUME P = {}, P' # {} PROVE FirstPending(q)' = m
    <2> PICK Q : Q = P'
        OBVIOUS
    <2>1. Q = {n}
        BY <1>8, <1>15
    <2>2. Q \subseteq Nat /\ Q # {}
        BY <2>1, <1>5
    <2>3. Min(Q) \in Q
        BY <2>2, LeastOf
    <2> QED BY <1>1, <1>10, <2>1, <2>3
<1>16. ASSUME m.body.request = q PROVE LastMark(q)' = m
    <2> PICK B : B = A'
        OBVIOUS
    <2>1. B = A \cup {n}
        BY <1>9, <1>16
    <2>2. B \in SUBSET (1 .. n) /\ n \in B
        <3>1. n \in 1 .. n
            BY <1>4, <1>5 DEF n
        <3>2. A \subseteq 1 .. n
            BY <1>5, <1>12
        <3> QED BY <2>1, <3>1, <3>2
    <2>3. Max(B) \in B /\ \A k \in B : k <= Max(B)
        BY <2>2, <1>5, GreatestOf
    <2>4. n <= Max(B) /\ Max(B) \in 1 .. n
        BY <2>2, <2>3
    <2>5. Max(B) = n
        BY <2>4, <1>5
    <2> QED BY <1>1, <1>11, <2>5
<1>17. ASSUME m.body.request # q, A # {} PROVE LastMark(q)' = LastMark(q)
    <2>1. A' = A
        BY <1>9, <1>17
    <2>2. A \in SUBSET (1 .. Len(audits))
        BY <1>12
    <2>3. Max(A) \in A
        BY <2>2, <1>4, <1>17, GreatestOf
    <2> QED BY <1>1, <1>4, <1>11, <1>12, <2>1, <2>3
<1> QED BY <1>6, <1>13, <1>14, <1>15, <1>16, <1>17 DEF A

-----------------------------------------------------------------------------
(* What a step does, of a few kinds.                                       *)

Files == <<sidecar, statements, audits>>

\* The post is over and has written nothing.
Drops ==
    /\ post' = None /\ UNCHANGED <<Files, told>> /\ intact' \subseteq intact
    /\ post # None /\ post.pc \in Underway => post.body.request \notin intact'

\* The post is marked FAILED, with the proof as it is if its request is to stay
\* undisturbed; it is over, or has to block.
Fails ==
    /\ post # None /\ UNCHANGED <<sidecar, statements, told>> /\ intact' \subseteq intact
    /\ \E m \in Audited :
          /\ audits' = Append(audits, m) /\ m.body = post.body /\ m.phase = "FAILED"
          /\ (m.head = sidecar /\ sidecar # Unreadable) \/ post.body.request \notin intact'
    /\ \/ post' = None
       \/ /\ post.pc = "open" /\ sidecar = NoFile
          /\ post' = [post EXCEPT !.pc = "block"]

\* The post goes on and has written nothing.
Goes ==
    /\ post # None /\ UNCHANGED <<Files, told, intact>>
    /\ \/ post.pc = "rebuild" /\ \E pc \in {"begin", "block"} : post' = [post EXCEPT !.pc = pc]
       \/ /\ post.pc = "capture" /\ Proved(Rows, post.body.step)
          /\ post' = [post EXCEPT !.pc = "cas"]
       \/ post.pc = "cas" /\ post' = [post EXCEPT !.pc = "guard"]
       \/ /\ post.pc = "guard" /\ Delta(post.before, Rows, post.body.step)
          /\ post' = [post EXCEPT !.pc = "locked", !.head = sidecar]

\* A statement is recorded at its expected revision.
Writes ==
    /\ UNCHANGED <<sidecar, audits, told, intact>>
    /\ \E st \in Statements :
          /\ statements' = Append(statements, st) /\ st.body.expected = Revision
          /\ \/ /\ post # None /\ st.body = post.body /\ Of(post.body.request) = {}
                /\ \/ /\ post.pc = "block" /\ st.status = "BLOCKED"
                      /\ post' = [post EXCEPT !.pc = "blocked"]
                   \/ /\ post.pc = "locked" /\ st.status = "RECORDED" /\ st.head = post.head
                      /\ post' = [post EXCEPT !.pc = "receipt"]
             \/ /\ post = None /\ post' = None /\ st.body \in Bodies /\ st.body.action = "REVIEW"
                /\ Of(st.body.request) = {}
                /\ Marked(st.body.request, "PENDING") =>
                       FirstPending(st.body.request).body = st.body
             \/ st.body.request = None /\ st.body.action = "REVIEW" /\ post' = post

\* The post is marked PENDING.
Pends ==
    /\ post # None /\ post.pc = "begin" /\ UNCHANGED <<sidecar, statements, told>>
    /\ \E m \in Audited :
          audits' = Append(audits, m) /\ m.body = post.body /\ m.phase = "PENDING"
    /\ intact' \subseteq intact \cup {post.body.request}
    /\ \E before \in Histories :
          before = Rows /\ post' = [post EXCEPT !.pc = "open", !.before = before]

\* The post is marked COMMITTED and over.
Commits ==
    /\ post # None /\ post.pc \in {"receipt", "repair"}
    /\ UNCHANGED <<sidecar, statements, intact>>
    /\ \E m \in Audited :
          /\ audits' = Append(audits, m) /\ m.body = post.body /\ m.phase = "COMMITTED"
          /\ m.head = post.head
    /\ told' = told \cup {post.body.request}
    /\ post' = None

\* The post makes the file.
Creates ==
    /\ post # None /\ post.pc = "open" /\ sidecar = NoFile /\ sidecar' = Unreadable
    /\ UNCHANGED <<statements, audits, post, told>>
    /\ intact' = intact \cap {post.body.request}

\* The post or another process adds to the proof.
Grows ==
    /\ UNCHANGED <<statements, audits, told>>
    /\ sidecar' \in Histories /\ sidecar' # NoFile
    /\ \A item \in Items : Len(Rows[item]) <= Len(sidecar'[item])
    /\ \/ /\ post # None /\ post.pc \in {"open", "capture"}
          /\ intact' = IF sidecar' = sidecar THEN intact ELSE intact \cap {post.body.request}
          /\ post' \in Hands /\ post'.pc = "capture" /\ post'.body = post.body
          /\ post'.head = post.head /\ post'.before = post.before
       \/ /\ ~Locked /\ post' = post
          /\ intact' = IF sidecar' = sidecar THEN intact ELSE {}
          /\ \A item \in Items : sidecar'[item] = Rows[item]
                                 \/ Len(sidecar'[item]) > Len(Rows[item])

\* A post is taken in hand.
Takes ==
    /\ post = None /\ UNCHANGED <<Files, told, intact>>
    /\ \E body \in Continues :
          /\ Marked(body.request, "PENDING") => FirstPending(body.request).body = body
          /\ post' \in Hands /\ post'.body = body /\ post'.head \in {sidecar, Unreadable}
          /\ sidecar = NoFile => post'.head = NoFile
          /\ \/ post'.pc = "rebuild" /\ Of(body.request) = {}
             \/ /\ post'.pc = "repair" /\ ~Marked(body.request, "COMMITTED")
                /\ \E i \in Of(body.request) :
                      statements[i].status = "RECORDED" /\ statements[i].body.action = "CONTINUE"
                      /\ statements[i].head = post'.head

\* Nothing but what the process keeps, the sources, or an answer given again.
Rests ==
    /\ UNCHANGED <<Files, post, intact>>
    /\ told \subseteq told' /\ \A q \in told' \ told : Marked(q, "COMMITTED")

Kinds ==
    \/ Drops \/ Fails \/ Goes \/ Writes \/ Pends \/ Commits \/ Creates \/ Grows
    \/ Takes \/ Rests

LEMMA TypeParts ==
    ASSUME TypeOK, post' \in Hands \cup {None}, sidecar' \in Heads,
           statements' \in Seq(Statements), audits' \in Seq(Audited),
           told' \subseteq Requests, intact' \subseteq Requests, used' \in [Bounds -> Nat], Kept
    PROVE  TypeOK'
    BY DEF TypeOK, Kept, Audited

LEMMA UsedFacts ==
    ASSUME TypeOK, Steady \/ Fault \/ \E what \in Bounds : Spend(what)
    PROVE  used' \in [Bounds -> Nat]
<1>1. used \in [Bounds -> Nat]
    BY DEF TypeOK
<1>2. CASE Steady
    BY <1>1, <1>2 DEF Steady
<1>3. ASSUME NEW what \in Bounds, Spend(what) PROVE used' \in [Bounds -> Nat]
    <2>1. used' = [used EXCEPT ![what] = used[what] + 1] /\ used[what] + 1 \in Nat
        BY <1>1, <1>3 DEF Spend
    <2> QED BY <1>1, <2>1
<1>4. CASE Fault
    BY <1>3, <1>4 DEF Fault, Bounds
<1> QED BY <1>2, <1>3, <1>4

LEMMA InHandNow ==
    ASSUME TypeOK, NEW pc, At(pc)
    PROVE  /\ post # None /\ post \in Hands /\ post.pc = pc /\ pc \in PCs
           /\ post.body \in Continues /\ post.body \in Bodies /\ post.body.request \in Requests
           /\ post.body.step \in Items /\ post.body.action = "CONTINUE"
           /\ post.head \in Heads /\ post.before \in Histories /\ post.todo \in Seq(Items)
<1>1. post # None /\ post \in Hands /\ post.pc = pc
    BY DEF TypeOK, At
<1> QED BY <1>1, HandFacts, ContinueFacts

LEMMA Parts ==
    ASSUME TypeOK
    PROVE  /\ sidecar \in Heads /\ statements \in Seq(Statements) /\ audits \in Seq(Audited)
           /\ told \subseteq Requests /\ intact \subseteq Requests /\ post \in Hands \cup {None}
    BY DEF TypeOK, Audited

\* What a look at the sidecar may show.
LEMMA ShownFacts ==
    ASSUME TypeOK, NEW head \in Shown
    PROVE  /\ head \in Heads /\ head \in {sidecar, Unreadable}
           /\ sidecar = NoFile => head = NoFile
    BY DEF TypeOK, Shown, Heads

\* The end of a post without a mark.
LEMMA LostKind ==
    ASSUME TypeOK, Lost, UNCHANGED told, FilesKept, Kept, used' \in [Bounds -> Nat]
    PROVE  TypeOK' /\ Drops
<1>1. /\ post' = None /\ intact' = intact \ {post.body.request} /\ audits' = audits
      /\ sidecar' = sidecar /\ statements' = statements /\ told' = told
    BY DEF Lost, FilesKept
<1>2. TypeOK'
    BY <1>1, Parts, TypeParts
<1> QED BY <1>1, <1>2 DEF Drops, Files

LEMMA FailedKind ==
    ASSUME TypeOK, post \in Hands, post # None,
           NEW h \in Heads, h \in {sidecar, Unreadable} \/ intact = {},
           Failed(h), used' \in [Bounds -> Nat]
    PROVE  TypeOK' /\ (Drops \/ Fails)
<1>1. UNCHANGED told /\ FilesKept /\ Kept
    BY DEF Failed
<1>2. CASE Lost
    BY <1>1, <1>2, LostKind
<1>3. CASE /\ post' = None /\ Mark("FAILED", FailedHead(h))
           /\ intact' = IF FailedHead(h) = Unreadable THEN intact \ {post.body.request} ELSE intact
    <2> DEFINE m == [body |-> post.body, phase |-> "FAILED", head |-> h]
    <2>1. m \in Audited /\ m.body = post.body /\ m.phase = "FAILED" /\ m.head = h
        BY HandFacts DEF Audited, Phases
    <2>2. audits' = Append(audits, m)
        BY <1>3 DEF Mark, FailedHead
    <2> HIDE DEF m
    <2>3. /\ sidecar' = sidecar /\ statements' = statements /\ told' = told
          /\ audits' \in Seq(Audited) /\ intact' \subseteq intact
        BY <1>1, <1>3, <2>1, <2>2, Parts DEF FilesKept
    <2>4. (h = sidecar /\ sidecar # Unreadable) \/ post.body.request \notin intact'
        BY <1>3, <2>3 DEF FailedHead
    <2>5. TypeOK'
        BY <1>1, <1>3, <2>3, Parts, TypeParts
    <2>6. Fails
        BY <1>3, <2>1, <2>2, <2>3, <2>4 DEF Fails
    <2> QED BY <2>5, <2>6
<1> QED BY <1>2, <1>3 DEF Failed

LEMMA ShownKind ==
    ASSUME TypeOK, post \in Hands, post # None, FailedAsShown, used' \in [Bounds -> Nat]
    PROVE  TypeOK' /\ (Drops \/ Fails)
<1>1. PICK head \in Shown : Failed(head)
    BY DEF FailedAsShown
<1> QED BY <1>1, ShownFacts, FailedKind

-----------------------------------------------------------------------------
(* Which kind each step of a CONTINUE is.                                  *)

\* The post moves and nothing is written.
LEMMA Moved ==
    ASSUME TypeOK, NEW pc \in PCs, post # None, post' = [post EXCEPT !.pc = pc],
           UNCHANGED <<Files, told, intact>>, Kept, used' \in [Bounds -> Nat]
    PROVE  TypeOK'
<1>1. post \in Hands
    BY Parts
<1>2. post' \in Hands
    BY <1>1, HandMoves
<1>3. sidecar' = sidecar /\ statements' = statements /\ audits' = audits /\ told' = told
      /\ intact' = intact
    BY DEF Files
<1> QED BY <1>2, <1>3, Parts, TypeParts

\* The post is over and nothing is written.
LEMMA Dropped ==
    ASSUME TypeOK, post' = None, UNCHANGED <<Files, told, intact>>, Kept,
           used' \in [Bounds -> Nat], post # None => post.pc \notin Underway
    PROVE  TypeOK' /\ Drops
<1>1. sidecar' = sidecar /\ statements' = statements /\ audits' = audits /\ told' = told
      /\ intact' = intact
    BY DEF Files
<1> QED BY <1>1, Parts, TypeParts DEF Drops, Files

LEMMA RebuildKind ==
    ASSUME TypeOK, Undisturbed, Rebuild
    PROVE  TypeOK' /\ Kinds
<1>1. At("rebuild")
    BY DEF Rebuild
<1>2. post # None /\ post \in Hands /\ post.pc = "rebuild" /\ post.head \in Heads
    BY <1>1, InHandNow
<1>3. post.head \in {sidecar, Unreadable} \/ intact = {}
    BY <1>2 DEF Undisturbed
<1>4. CASE Fault /\ Failed(post.head)
    BY <1>2, <1>3, <1>4, FailedKind, UsedFacts DEF Kinds
<1>5. CASE \E head \in Shown \ {post.head} : Failed(head) /\ Steady
    BY <1>2, <1>5, ShownFacts, FailedKind, UsedFacts DEF Kinds
<1>6. CASE /\ post.head \in Shown
           /\ Goto(IF Needs(post.body.step) \subseteq run.supported THEN "begin" ELSE "block")
           /\ UNCHANGED <<audits, told, intact>> /\ FilesKept /\ Kept /\ Steady
    <2>1. PICK pc \in {"begin", "block"} : post' = [post EXCEPT !.pc = pc]
        BY <1>6 DEF Goto
    <2>2. UNCHANGED <<Files, told, intact>>
        BY <1>6 DEF FilesKept, Files
    <2>3. pc \in PCs
        BY DEF PCs
    <2>4. TypeOK'
        BY <1>2, <1>6, <2>1, <2>2, <2>3, Moved, UsedFacts
    <2>5. Goes
        BY <1>2, <2>1, <2>2 DEF Goes
    <2> QED BY <2>4, <2>5 DEF Kinds
<1> QED BY <1>4, <1>5, <1>6 DEF Rebuild

\* The statement of the post in hand.
LEMMA Recorded ==
    ASSUME TypeOK, post # None, NEW status \in {"RECORDED", "BLOCKED"}, Record(status),
           NEW pc \in PCs, post' = [post EXCEPT !.pc = pc],
           UNCHANGED <<sidecar, audits, told, intact>>, Kept, used' \in [Bounds -> Nat]
    PROVE  /\ TypeOK'
           /\ \E st \in Statements : /\ statements' = Append(statements, st)
                                     /\ st.body = post.body /\ st.status = status
                                     /\ st.head = post.head
<1> DEFINE st == [body |-> post.body, status |-> status, head |-> post.head]
<1>1. post \in Hands
    BY Parts
<1>2. post.head \in Heads /\ post.body \in Bodies /\ post' \in Hands
    BY <1>1, HandFacts, ContinueFacts, HandMoves
<1>3. post.body \in [request : Requests \cup {None}, step : Items,
                     action : {"CONTINUE", "REVIEW"}, expected : Nat]
    BY <1>2, BodyFacts
<1>4. st \in Statements /\ st.body = post.body /\ st.status = status /\ st.head = post.head
    BY <1>2, <1>3 DEF Statements
<1>5. statements' = Append(statements, st)
    BY DEF Record
<1> HIDE DEF st
<1>6. statements' \in Seq(Statements)
    BY <1>4, <1>5, Parts
<1>7. sidecar' = sidecar /\ audits' = audits /\ told' = told /\ intact' = intact
    OBVIOUS
<1>8. TypeOK'
    BY <1>2, <1>6, <1>7, Parts, TypeParts
<1> QED BY <1>4, <1>5, <1>8

LEMMA BlockKind ==
    ASSUME TypeOK, Block
    PROVE  TypeOK' /\ Kinds
<1>1. At("block") /\ UNCHANGED <<sidecar, audits, told, intact>> /\ Kept
    BY DEF Block
<1>2. post # None /\ post \in Hands /\ post.pc = "block"
    BY <1>1, InHandNow
<1>3. CASE Appendable /\ Record("BLOCKED") /\ Goto("blocked") /\ Steady
    <2>1. post' = [post EXCEPT !.pc = "blocked"] /\ used' \in [Bounds -> Nat]
        BY <1>3, UsedFacts DEF Goto
    <2>2. /\ TypeOK'
          /\ \E st \in Statements : /\ statements' = Append(statements, st)
                                    /\ st.body = post.body /\ st.status = "BLOCKED"
        BY <1>1, <1>2, <1>3, <2>1, Recorded DEF PCs
    <2>3. Writes
        BY <1>1, <1>2, <1>3, <2>1, <2>2 DEF Writes, Appendable
    <2> QED BY <2>2, <2>3 DEF Kinds
<1>4. CASE post' = None /\ UNCHANGED statements /\ (Steady \/ Fault)
    <2>1. UNCHANGED <<Files, told, intact>>
        BY <1>1, <1>4 DEF Files
    <2>2. post.pc \notin Underway
        BY <1>2 DEF Underway
    <2>3. TypeOK' /\ Drops
        BY <1>1, <1>4, <2>1, <2>2, Dropped, UsedFacts
    <2> QED BY <2>3 DEF Kinds
<1> QED BY <1>3, <1>4 DEF Block

LEMMA BlockedKind ==
    ASSUME TypeOK, Undisturbed, Blocked
    PROVE  TypeOK' /\ Kinds
<1>1. At("blocked") /\ Failed(post.head) /\ Steady
    BY DEF Blocked
<1>2. post # None /\ post \in Hands /\ post.pc = "blocked" /\ post.head \in Heads
    BY <1>1, InHandNow
<1>3. post.head \in {sidecar, Unreadable} \/ intact = {}
    BY <1>2 DEF Undisturbed
<1> QED BY <1>1, <1>2, <1>3, FailedKind, UsedFacts DEF Kinds

LEMMA BeginKind ==
    ASSUME TypeOK, Begin
    PROVE  TypeOK' /\ Kinds
<1>1. At("begin")
    BY DEF Begin
<1>2. post # None /\ post \in Hands /\ post.pc = "begin" /\ post.head \in Heads
      /\ post.body \in Continues /\ post.body.request \in Requests
    BY <1>1, InHandNow
<1>3. CASE FailedAsShown /\ Steady
    BY <1>2, <1>3, ShownKind, UsedFacts DEF Kinds
<1>4. CASE (Fault \/ Steady) /\ post' = None /\ UNCHANGED <<audits, told, intact>> /\ FilesKept /\ Kept
    <2>1. UNCHANGED <<Files, told, intact>>
        BY <1>4 DEF Files, FilesKept
    <2>2. post.pc \notin Underway
        BY <1>2 DEF Underway
    <2>3. TypeOK' /\ Drops
        BY <1>4, <2>1, <2>2, Dropped, UsedFacts
    <2> QED BY <2>3 DEF Kinds
<1>5. CASE /\ sidecar \in {NoFile, post.head} \ {Unreadable}
           /\ Mark("PENDING", post.head)
           /\ intact' = IF Marked(post.body.request, "PENDING") THEN intact
                        ELSE intact \union {post.body.request}
           /\ post' = [post EXCEPT !.pc = "open", !.before = Rows]
           /\ UNCHANGED told /\ FilesKept /\ Kept /\ Steady
    <2> DEFINE m == [body |-> post.body, phase |-> "PENDING", head |-> post.head]
    <2>1. m \in Audited /\ m.body = post.body /\ m.phase = "PENDING"
        BY <1>2 DEF Audited, Phases
    <2>2. audits' = Append(audits, m)
        BY <1>5 DEF Mark
    <2> HIDE DEF m
    <2>3. audits' \in Seq(Audited)
        BY <2>1, <2>2, Parts
    <2>4. PICK before \in Histories : before = Rows
        BY RowsType
    <2>5. post' = [post EXCEPT !.pc = "open", !.before = before] /\ post' \in Hands
        BY <1>2, <1>5, <2>4, HandOpens DEF PCs, Underway
    <2>6. sidecar' = sidecar /\ statements' = statements /\ told' = told
        BY <1>5 DEF FilesKept
    <2>7. intact' \subseteq intact \cup {post.body.request}
        BY <1>5
    <2>8. TypeOK'
        BY <1>2, <1>5, <2>3, <2>5, <2>6, <2>7, Parts, TypeParts, UsedFacts
    <2>9. Pends
        BY <1>2, <2>1, <2>2, <2>4, <2>5, <2>6, <2>7 DEF Pends
    <2> QED BY <2>8, <2>9 DEF Kinds
<1> QED BY <1>3, <1>4, <1>5 DEF Begin

LEMMA OpenKind ==
    ASSUME TypeOK, Captured, Open
    PROVE  TypeOK' /\ Kinds
<1>1. At("open")
    BY DEF Open
<1>2. post # None /\ post \in Hands /\ post.pc = "open" /\ post.head \in Heads
      /\ post.body \in Continues /\ post.body.step \in Items
    BY <1>1, InHandNow
<1>3. CASE Initialize
    <2> USE <1>3 DEF Initialize
    <2>1. Rows \in Histories /\ sidecar' \in Histories /\ sidecar' # NoFile
        BY <1>3, RowsType, ProofReviewAssumption
    <2>2. Order(post.body.step) \in Seq(Items)
        BY <1>2, NeedsFacts
    <2>3. /\ post' \in Hands /\ post'.pc = "capture" /\ post'.body = post.body
          /\ post'.head = post.head /\ post'.before = post.before
        <3>1. PICK todo \in Seq(Items) : todo = Order(post.body.step)
            BY <2>2
        <3>2. post' = [post EXCEPT !.pc = "capture", !.todo = todo]
            BY <1>3, <3>1
        <3>3. "capture" \in PCs
            BY DEF PCs, Underway
        <3> DEFINE g == [post EXCEPT !.pc = "capture", !.todo = todo]
        <3>4. /\ g \in Hands /\ g.pc = "capture" /\ g.body = post.body /\ g.head = post.head
              /\ g.before = post.before
            BY <1>2, <3>3, HandCaptures
        <3>5. post' = g
            BY <3>2
        <3> HIDE DEF g
        <3> QED BY <3>4, <3>5
    <2>4. \A item \in Items : Len(Rows[item]) <= Len(sidecar'[item])
        <3>1. \A item \in Items : Len(Rows[item]) \in Nat
            BY <2>1, HistoryFacts
        <3> QED BY <1>3, <3>1
    <2>5. intact' = IF sidecar' = sidecar THEN intact ELSE intact \cap {post.body.request}
        BY <1>3 DEF Disturbs
    <2>6. statements' = statements /\ audits' = audits /\ told' = told
        BY <1>3
    <2>7. TypeOK'
        BY <1>3, <2>1, <2>3, <2>5, <2>6, Parts, TypeParts, UsedFacts DEF Heads
    <2>8. Grows
        BY <1>2, <2>1, <2>3, <2>4, <2>5, <2>6 DEF Grows
    <2> QED BY <2>7, <2>8 DEF Kinds
<1>4. CASE Connect
    <2>1. sidecar = NoFile /\ sidecar' = Unreadable /\ statements' = statements
          /\ audits' = audits /\ post' = post /\ told' = told /\ Kept /\ Steady
        BY <1>4 DEF Connect
    <2>2. intact' = intact \cap {post.body.request}
        BY <1>4, <2>1, ProofReviewAssumption DEF Connect, Disturbs
    <2>3. TypeOK'
        BY <2>1, <2>2, Parts, TypeParts, UsedFacts DEF Heads
    <2>4. Creates
        BY <1>2, <2>1, <2>2 DEF Creates
    <2> QED BY <2>3, <2>4 DEF Kinds
<1>5. CASE Fault /\ FailedAsShown
    BY <1>2, <1>5, ShownKind, UsedFacts DEF Kinds
<1>6. CASE /\ sidecar = NoFile /\ Fault
           /\ Mark("FAILED", sidecar) /\ Goto("block")
           /\ UNCHANGED <<told, intact>> /\ FilesKept /\ Kept
    <2> DEFINE m == [body |-> post.body, phase |-> "FAILED", head |-> sidecar]
    <2>1. m \in Audited /\ m.body = post.body /\ m.phase = "FAILED" /\ m.head = sidecar
        BY <1>2, Parts DEF Audited, Phases
    <2>2. audits' = Append(audits, m)
        BY <1>6 DEF Mark
    <2> HIDE DEF m
    <2>3. audits' \in Seq(Audited)
        BY <2>1, <2>2, Parts
    <2>4. post' = [post EXCEPT !.pc = "block"] /\ post' \in Hands
        BY <1>2, <1>6, HandMoves DEF Goto, PCs
    <2>5. sidecar' = sidecar /\ statements' = statements /\ told' = told /\ intact' = intact
        BY <1>6 DEF FilesKept
    <2>6. TypeOK'
        BY <1>6, <2>3, <2>4, <2>5, Parts, TypeParts, UsedFacts
    <2>7. Fails
        BY <1>2, <1>6, <2>1, <2>2, <2>4, <2>5, ProofReviewAssumption DEF Fails
    <2> QED BY <2>6, <2>7 DEF Kinds
<1> QED BY <1>3, <1>4, <1>5, <1>6 DEF Open, OpenFails

LEMMA CaptureKind ==
    ASSUME TypeOK, Capture
    PROVE  TypeOK' /\ Kinds
<1>1. At("capture") /\ post.todo # <<>>
    BY DEF Capture
<1>2. post # None /\ post \in Hands /\ post.pc = "capture" /\ post.todo \in Seq(Items)
      /\ post.body \in Continues
    BY <1>1, InHandNow
<1>3. CASE /\ Put(Head(post.todo))
           /\ post' = [post EXCEPT !.todo = Tail(@)]
           /\ Disturbs({post.body.request})
           /\ UNCHANGED <<statements, audits, told>> /\ Kept /\ Steady
    <2>1. Head(post.todo) \in Items /\ Tail(post.todo) \in Seq(Items)
        BY <1>1, <1>2
    <2>2. /\ sidecar' \in Histories /\ sidecar' # NoFile
          /\ \A item \in Items : Len(Rows[item]) <= Len(sidecar'[item])
        BY <1>3, <2>1, PutFacts
    <2>3. /\ post' \in Hands /\ post'.pc = "capture" /\ post'.body = post.body
          /\ post'.head = post.head /\ post'.before = post.before
        BY <1>2, <1>3, <2>1, HandGoesOn
    <2>4. intact' = IF sidecar' = sidecar THEN intact ELSE intact \cap {post.body.request}
        BY <1>3 DEF Disturbs
    <2>5. statements' = statements /\ audits' = audits /\ told' = told
        BY <1>3
    <2>6. TypeOK'
        BY <1>3, <2>2, <2>3, <2>4, <2>5, Parts, TypeParts, UsedFacts DEF Heads
    <2>7. Grows
        BY <1>2, <2>2, <2>3, <2>4, <2>5 DEF Grows
    <2> QED BY <2>6, <2>7 DEF Kinds
<1>4. CASE Fault /\ FailedAsShown
    BY <1>2, <1>4, ShownKind, UsedFacts DEF Kinds
<1> QED BY <1>3, <1>4 DEF Capture

LEMMA ReadBackKind ==
    ASSUME TypeOK, ReadBack
    PROVE  TypeOK' /\ Kinds
<1>1. At("capture")
    BY DEF ReadBack
<1>2. post # None /\ post \in Hands /\ post.pc = "capture"
    BY <1>1, InHandNow
<1>3. CASE Proved(Rows, post.body.step) /\ Goto("cas") /\ Steady
           /\ UNCHANGED <<audits, told, intact>> /\ FilesKept /\ Kept
    <2>1. post' = [post EXCEPT !.pc = "cas"] /\ UNCHANGED <<Files, told, intact>>
        BY <1>3 DEF Goto, FilesKept, Files
    <2>2. TypeOK'
        BY <1>2, <1>3, <2>1, Moved, UsedFacts DEF PCs, Underway
    <2>3. Goes
        BY <1>2, <1>3, <2>1 DEF Goes
    <2> QED BY <2>2, <2>3 DEF Kinds
<1>4. CASE FailedAsShown /\ (Steady \/ Fault)
    BY <1>2, <1>4, ShownKind, UsedFacts DEF Kinds
<1> QED BY <1>3, <1>4 DEF ReadBack

LEMMA CheckRevisionKind ==
    ASSUME TypeOK, CheckRevision
    PROVE  TypeOK' /\ Kinds
<1>1. At("cas")
    BY DEF CheckRevision
<1>2. post # None /\ post \in Hands /\ post.pc = "cas"
    BY <1>1, InHandNow
<1>3. CASE Goto("guard") /\ Steady /\ UNCHANGED <<audits, told, intact>> /\ FilesKept /\ Kept
    <2>1. post' = [post EXCEPT !.pc = "guard"] /\ UNCHANGED <<Files, told, intact>>
        BY <1>3 DEF Goto, FilesKept, Files
    <2>2. TypeOK'
        BY <1>2, <1>3, <2>1, Moved, UsedFacts DEF PCs, Underway
    <2>3. Goes
        BY <1>2, <2>1 DEF Goes
    <2> QED BY <2>2, <2>3 DEF Kinds
<1>4. CASE FailedAsShown /\ Steady
    BY <1>2, <1>4, ShownKind, UsedFacts DEF Kinds
<1>5. CASE Fault /\ Lost /\ UNCHANGED told /\ FilesKept /\ Kept
    BY <1>5, LostKind, UsedFacts DEF Kinds
<1> QED BY <1>1, <1>3, <1>4, <1>5 DEF CheckRevision

LEMMA GuardKind ==
    ASSUME TypeOK, Guard
    PROVE  TypeOK' /\ Kinds
<1>1. At("guard")
    BY DEF Guard
<1>2. post # None /\ post \in Hands /\ post.pc = "guard"
    BY <1>1, InHandNow
<1>3. CASE /\ Delta(post.before, Rows, post.body.step)
           /\ post' = [post EXCEPT !.pc = "locked", !.head = sidecar]
           /\ UNCHANGED <<audits, told, intact>> /\ FilesKept /\ Kept /\ Steady
    <2>1. UNCHANGED <<Files, told, intact>>
        BY <1>3 DEF FilesKept, Files
    <2>2. post' \in Hands
        BY <1>2, <1>3, HandLocks, Parts DEF PCs, Underway
    <2>3. sidecar' = sidecar /\ statements' = statements /\ audits' = audits /\ told' = told
          /\ intact' = intact
        BY <2>1 DEF Files
    <2>4. TypeOK'
        BY <1>3, <2>2, <2>3, Parts, TypeParts, UsedFacts
    <2>5. Goes
        BY <1>2, <1>3, <2>1 DEF Goes
    <2> QED BY <2>4, <2>5 DEF Kinds
<1>4. CASE Failed(sidecar) /\ Steady
    BY <1>2, <1>4, FailedKind, UsedFacts, Parts DEF Kinds
<1>5. CASE Fault /\ FailedAsShown
    BY <1>2, <1>5, ShownKind, UsedFacts DEF Kinds
<1> QED BY <1>3, <1>4, <1>5 DEF Guard

LEMMA ReceiptKind ==
    ASSUME TypeOK, Captured, Receipt
    PROVE  TypeOK' /\ Kinds
<1>1. At("locked")
    BY DEF Receipt
<1>2. post # None /\ post \in Hands /\ post.pc = "locked" /\ post.head \in Heads
    BY <1>1, InHandNow
<1>3. sidecar = post.head
    BY <1>1, <1>2 DEF Captured, Locked
<1>4. CASE Appendable /\ Record("RECORDED") /\ Goto("receipt")
           /\ UNCHANGED <<sidecar, audits, told, intact>> /\ Kept /\ Steady
    <2>1. post' = [post EXCEPT !.pc = "receipt"] /\ used' \in [Bounds -> Nat]
        BY <1>4, UsedFacts DEF Goto
    <2>2. /\ TypeOK'
          /\ \E st \in Statements : /\ statements' = Append(statements, st)
                                    /\ st.body = post.body /\ st.status = "RECORDED"
                                    /\ st.head = post.head
        BY <1>2, <1>4, <2>1, Recorded DEF PCs, Underway
    <2>3. Writes
        BY <1>2, <1>4, <2>1, <2>2 DEF Writes, Appendable
    <2> QED BY <2>2, <2>3 DEF Kinds
<1>5. CASE Failed(post.head) /\ (Steady \/ Fault)
    BY <1>2, <1>3, <1>5, FailedKind, UsedFacts DEF Kinds
<1> QED BY <1>4, <1>5 DEF Receipt

\* The mark that ends a post well.
LEMMA CommittedKind ==
    ASSUME TypeOK, post # None, post.pc \in {"receipt", "repair"},
           Mark("COMMITTED", post.head), told' = told \union {post.body.request},
           post' = None, UNCHANGED intact, FilesKept, Kept, used' \in [Bounds -> Nat]
    PROVE  TypeOK' /\ Commits
<1>1. post \in Hands
    BY Parts
<1>2. post.body \in Continues /\ post.head \in Heads /\ post.body.request \in Requests
    BY <1>1, HandFacts
<1> DEFINE m == [body |-> post.body, phase |-> "COMMITTED", head |-> post.head]
<1>3. m \in Audited /\ m.body = post.body /\ m.phase = "COMMITTED" /\ m.head = post.head
    BY <1>2 DEF Audited, Phases
<1>4. audits' = Append(audits, m)
    BY DEF Mark
<1> HIDE DEF m
<1>5. audits' \in Seq(Audited)
    BY <1>3, <1>4, Parts
<1>6. sidecar' = sidecar /\ statements' = statements /\ intact' = intact
    BY DEF FilesKept
<1>7. TypeOK'
    BY <1>2, <1>5, <1>6, Parts, TypeParts
<1> QED BY <1>3, <1>4, <1>6, <1>7 DEF Commits

LEMMA CommitKind ==
    ASSUME TypeOK, Captured, Commit
    PROVE  TypeOK' /\ Kinds
<1>1. At("receipt")
    BY DEF Commit
<1>2. post # None /\ post \in Hands /\ post.pc = "receipt" /\ post.head \in Heads
    BY <1>1, InHandNow
<1>3. sidecar = post.head
    BY <1>1, <1>2 DEF Captured, Locked
<1>4. CASE /\ Mark("COMMITTED", post.head)
           /\ told' = told \union {post.body.request}
           /\ post' = None /\ UNCHANGED intact /\ FilesKept /\ Kept /\ Steady
    BY <1>2, <1>4, CommittedKind, UsedFacts DEF Kinds
<1>5. CASE Fault /\ Failed(post.head)
    BY <1>2, <1>3, <1>5, FailedKind, UsedFacts DEF Kinds
<1> QED BY <1>4, <1>5 DEF Commit

LEMMA RepairKind ==
    ASSUME TypeOK, Repair
    PROVE  TypeOK' /\ Kinds
<1>1. At("repair") /\ post' = None /\ UNCHANGED intact /\ FilesKept /\ Kept
    BY DEF Repair
<1>2. post # None /\ post \in Hands /\ post.pc = "repair"
    BY <1>1, InHandNow
<1>3. CASE Mark("COMMITTED", post.head) /\ told' = told \union {post.body.request} /\ Steady
    BY <1>1, <1>2, <1>3, CommittedKind, UsedFacts DEF Kinds
<1>4. CASE UNCHANGED <<audits, told, used>>
    <2>1. UNCHANGED <<Files, told, intact>> /\ Steady
        BY <1>1, <1>4 DEF Files, FilesKept, Steady
    <2>2. post.pc \notin Underway
        BY <1>2 DEF Underway
    <2> QED BY <1>1, <2>1, <2>2, Dropped, UsedFacts DEF Kinds
<1> QED BY <1>3, <1>4 DEF Repair

-----------------------------------------------------------------------------
(* Which kind the other steps are.                                         *)

LEMMA CapabilityFacts ==
    ASSUME TypeOK, NEW head \in Shown
    PROVE  Binding(head) \in [revision : Nat, head : Heads]
    BY StatementFacts, ShownFacts DEF Binding

\* What rests keeps the types of everything else.
LEMMA RestedTypes ==
    ASSUME TypeOK, UNCHANGED <<Files, post, intact>>, told' \subseteq Requests,
           issued' \subseteq [revision : Nat, head : Heads],
           remembered' \in BOOLEAN, current' \in BOOLEAN, run' = run, used' \in [Bounds -> Nat]
    PROVE  TypeOK'
    BY DEF TypeOK, Files

LEMMA GetKind ==
    ASSUME TypeOK, Get
    PROVE  TypeOK' /\ Kinds
<1>1. UNCHANGED <<Files, post, intact>> /\ told' = told
    BY DEF Get, Files
<1>2. issued' \subseteq [revision : Nat, head : Heads]
    BY CapabilityFacts DEF Get, TypeOK
<1>3. TypeOK'
    <2>1. remembered' \in BOOLEAN /\ current' \in BOOLEAN /\ run' = run
          /\ used' \in [Bounds -> Nat] /\ told' \subseteq Requests
        BY DEF Get, TypeOK
    <2> QED BY <1>1, <1>2, <2>1, RestedTypes
<1> QED BY <1>1, <1>3 DEF Kinds, Rests

\* The post a body gets.
LEMMA InHandFacts ==
    ASSUME NEW body \in Continues, NEW pc \in PCs, NEW head \in Heads
    PROVE  InHand(pc, body, head) \in Hands
<1>1. NoRows \in Histories
    BY DEF NoRows, Histories
<1>2. <<>> \in Seq(Items)
    OBVIOUS
<1> QED BY <1>1, <1>2 DEF InHand, Hands, PCs

LEMMA AdmitFacts ==
    ASSUME TypeOK, NEW body \in Continues, NEW pc \in PCs, NEW head \in Heads,
           Admit(pc, body, head)
    PROVE  /\ TypeOK' /\ post = None /\ UNCHANGED <<Files, told, intact>>
           /\ post' \in Hands /\ post'.pc = pc /\ post'.body = body /\ post'.head = head
<1>1. post' = InHand(pc, body, head) /\ post = None /\ used' \in [Bounds -> Nat]
    <2>1. Spend("posts") /\ "posts" \in Bounds
        BY DEF Admit, Bounds
    <2> QED BY <2>1, UsedFacts DEF Admit
<1>2. post' \in Hands
    BY <1>1, InHandFacts
<1>3. post'.pc = pc /\ post'.body = body /\ post'.head = head
    BY <1>1 DEF InHand
<1>4. UNCHANGED <<Files, told, intact>>
    BY DEF Admit, Files
<1>5. TypeOK'
    BY <1>1, <1>2 DEF Admit, TypeOK
<1> QED BY <1>1, <1>2, <1>3, <1>4, <1>5

LEMMA PostContinueKind ==
    ASSUME TypeOK, NEW body \in Bodies, NEW capability, NEW head \in Shown,
           PostContinue(body, capability, head)
    PROVE  TypeOK' /\ Kinds
<1>1. body \in Continues /\ Admitted(body, capability, head) /\ Admit("rebuild", body, head)
    BY DEF PostContinue, Continues
<1>2. "rebuild" \in PCs
    BY DEF PCs
<1>3. /\ TypeOK' /\ post = None /\ UNCHANGED <<Files, told, intact>>
      /\ post' \in Hands /\ post'.pc = "rebuild" /\ post'.body = body /\ post'.head = head
    BY <1>1, <1>2, ShownFacts, AdmitFacts
<1>4. head \in {sidecar, Unreadable} /\ (sidecar = NoFile => head = NoFile)
    BY ShownFacts
<1> QED BY <1>1, <1>3, <1>4 DEF Kinds, Takes, Admitted

LEMMA PostRepairKind ==
    ASSUME TypeOK, OneBody, NEW body \in Bodies, NEW capability, NEW head \in Shown,
           PostRepair(body, capability, head)
    PROVE  TypeOK' /\ Kinds
<1>1. body \in Continues /\ Again(body, capability, head) /\ ~Marked(body.request, "COMMITTED")
      /\ Admit("repair", body, head) /\ body.action = "CONTINUE"
    BY DEF PostRepair, MayRepair, Again, Continues
<1>2. "repair" \in PCs
    BY DEF PCs
<1>3. /\ TypeOK' /\ post = None /\ UNCHANGED <<Files, told, intact>>
      /\ post' \in Hands /\ post'.pc = "repair" /\ post'.body = body /\ post'.head = head
    BY <1>1, <1>2, ShownFacts, AdmitFacts
<1>4. PICK i \in Of(body.request) :
          statements[i].body = body /\ statements[i].status = "RECORDED" /\ statements[i].head = head
    BY <1>1 DEF Again
<1>5. body.request \in Requests
    BY <1>1, ContinueFacts
<1>6. Marked(body.request, "PENDING") => FirstPending(body.request).body = body
    BY <1>4, <1>5 DEF OneBody
<1>7. head \in {sidecar, Unreadable} /\ (sidecar = NoFile => head = NoFile)
    BY ShownFacts
<1> QED BY <1>1, <1>3, <1>4, <1>6, <1>7 DEF Kinds, Takes

LEMMA PostReviewKind ==
    ASSUME TypeOK, NEW body \in Bodies, NEW capability, NEW head \in Shown,
           PostReview(body, capability, head)
    PROVE  TypeOK' /\ Kinds
<1> DEFINE st == [body |-> body, status |-> "RECORDED", head |-> head]
<1>1. st \in Statements /\ st.body = body
    BY BodyFacts, ShownFacts DEF Statements
<1>2. statements' = Append(statements, st)
    BY DEF PostReview
<1>3. st.body.expected = Revision /\ Of(st.body.request) = {} /\ st.body.action = "REVIEW"
      /\ (Marked(st.body.request, "PENDING") => FirstPending(st.body.request).body = st.body)
    BY <1>1 DEF PostReview, Admitted
<1> HIDE DEF st
<1>4. statements' \in Seq(Statements)
    BY <1>1, <1>2, Parts
<1>5. sidecar' = sidecar /\ audits' = audits /\ told' = told /\ intact' = intact
      /\ post = None /\ post' = None
    BY DEF PostReview
<1>6. used' \in [Bounds -> Nat]
    BY UsedFacts DEF PostReview, Bounds
<1>7. TypeOK'
    BY <1>4, <1>5, <1>6 DEF PostReview, TypeOK
<1>8. Writes
    BY <1>1, <1>2, <1>3, <1>5 DEF Writes
<1> QED BY <1>7, <1>8 DEF Kinds

LEMMA PostReplayKind ==
    ASSUME TypeOK, NEW body \in Bodies, NEW capability, NEW head \in Shown,
           PostReplay(body, capability, head)
    PROVE  TypeOK' /\ Kinds
<1>1. UNCHANGED <<Files, post, intact>> /\ told' = told \cup {body.request}
      /\ Marked(body.request, "COMMITTED")
    BY DEF PostReplay, Files
<1>2. body.request \in Requests
    BY BodyFacts
<1>3. TypeOK'
    <2>1. remembered' \in BOOLEAN /\ current' \in BOOLEAN /\ run' = run
          /\ used' \in [Bounds -> Nat] /\ issued' \subseteq [revision : Nat, head : Heads]
        BY DEF PostReplay, TypeOK
    <2>2. told' \subseteq Requests
        BY <1>1, <1>2, Parts
    <2> QED BY <1>1, <2>1, <2>2, RestedTypes
<1> QED BY <1>1, <1>3 DEF Kinds, Rests

LEMMA Outsider ==
    ASSUME TypeOK, Outside
    PROVE  used' \in [Bounds -> Nat]
    BY UsedFacts DEF Outside, Bounds

\* What another process adds to the proof.
LEMMA AgeKind ==
    ASSUME TypeOK, NEW item \in Items, Age(item)
    PROVE  TypeOK' /\ Kinds
<1>1. Rows \in Histories
    BY RowsType
<1>2. PICK event \in Events : sidecar' = [Rows EXCEPT ![item] = Append(@, event)]
    BY DEF Age, Events
<1>3. Rows[item] # <<>>
    BY DEF Age
<1> DEFINE after == [Rows EXCEPT ![item] = Append(@, event)]
<1>4. /\ after \in Histories /\ Len(after[item]) = Len(Rows[item]) + 1
      /\ \A other \in Items : other # item => after[other] = Rows[other]
    BY <1>1, <1>3, EventAdded
<1>5. sidecar' = after
    BY <1>2
<1> HIDE DEF after
<1>6. \A other \in Items : Len(Rows[other]) \in Nat
    BY <1>1, HistoryFacts
<1>7. sidecar' \in Histories /\ sidecar' # NoFile
    BY <1>4, <1>5, ProofReviewAssumption
<1>8. \A other \in Items : /\ Len(Rows[other]) <= Len(sidecar'[other])
                          /\ \/ sidecar'[other] = Rows[other]
                             \/ Len(sidecar'[other]) > Len(Rows[other])
    BY <1>4, <1>5, <1>6
<1>9. intact' = IF sidecar' = sidecar THEN intact ELSE {}
    BY DEF Age, Disturbs
<1>10. /\ statements' = statements /\ audits' = audits /\ told' = told /\ post' = post
       /\ issued' = issued /\ remembered' = remembered /\ current' = current /\ run' = run
       /\ ~Locked
    BY DEF Age
<1>11. used' \in [Bounds -> Nat]
    BY Outsider DEF Age
<1>12. TypeOK'
    BY <1>7, <1>9, <1>10, <1>11, Parts, TypeParts DEF Kept, Heads
<1>13. Grows
    BY <1>7, <1>8, <1>9, <1>10 DEF Grows
<1> QED BY <1>12, <1>13 DEF Kinds

LEMMA PutOutsideKind ==
    ASSUME TypeOK, NEW item \in Items, PutOutside(item)
    PROVE  TypeOK' /\ Kinds
<1>1. Rows \in Histories
    BY RowsType
<1>2. Rows[item] = <<>> /\ Put(item)
    BY DEF PutOutside
<1>3. sidecar' = [Rows EXCEPT ![item] = <<"ACTIVE">>]
    BY <1>2 DEF Put
<1>4. /\ sidecar' \in Histories /\ sidecar' # NoFile
      /\ \A other \in Items : Len(Rows[other]) <= Len(sidecar'[other])
    BY <1>2, PutFacts
<1>5. \A other \in Items : \/ sidecar'[other] = Rows[other]
                          \/ Len(sidecar'[other]) > Len(Rows[other])
    <2> TAKE other \in Items
    <2>1. CASE other = item
        <3>1. DOMAIN Rows = Items
            BY <1>1, HistoryFacts
        <3>2. sidecar'[item] = <<"ACTIVE">>
            BY <1>3, <3>1
        <3>3. Len(sidecar'[item]) = 1 /\ Len(Rows[item]) = 0
            BY <1>2, <3>2
        <3> QED BY <2>1, <3>3
    <2>2. CASE other # item
        BY <1>3, <2>2, <1>1, HistoryFacts
    <2> QED BY <2>1, <2>2
<1>6. intact' = IF sidecar' = sidecar THEN intact ELSE {}
    BY DEF PutOutside, Disturbs
<1>7. /\ statements' = statements /\ audits' = audits /\ told' = told /\ post' = post
      /\ issued' = issued /\ remembered' = remembered /\ current' = current /\ run' = run
      /\ ~Locked
    BY DEF PutOutside
<1>8. used' \in [Bounds -> Nat]
    BY Outsider DEF PutOutside
<1>9. TypeOK'
    BY <1>4, <1>6, <1>7, <1>8, Parts, TypeParts DEF Kept, Heads
<1>10. Grows
    BY <1>4, <1>5, <1>6, <1>7 DEF Grows
<1> QED BY <1>9, <1>10 DEF Kinds

LEMMA StateOutsideKind ==
    ASSUME TypeOK, StateOutside
    PROVE  TypeOK' /\ Kinds
<1> DEFINE b == [request |-> None, step |-> "identity", action |-> "REVIEW", expected |-> Revision]
           st == [body |-> b, status |-> "RECORDED", head |-> sidecar]
<1>1. b \in [request : Requests \cup {None}, step : Items, action : {"CONTINUE", "REVIEW"},
             expected : Nat]
      /\ b.request = None /\ b.action = "REVIEW" /\ b.expected = Revision
    BY StatementFacts DEF Items
<1>2. statements' = Append(statements, st)
    BY DEF StateOutside
<1> HIDE DEF b
<1>3. st \in Statements /\ st.body = b
    BY <1>1, Parts DEF Statements
<1> HIDE DEF st
<1>4. statements' \in Seq(Statements)
    BY <1>2, <1>3, Parts
<1>5. /\ sidecar' = sidecar /\ audits' = audits /\ told' = told /\ intact' = intact
      /\ post' = post /\ Kept
    BY DEF StateOutside, Kept
<1>6. used' \in [Bounds -> Nat]
    BY Outsider DEF StateOutside
<1>7. TypeOK'
    BY <1>4, <1>5, <1>6, Parts, TypeParts
<1>8. Writes
    BY <1>1, <1>2, <1>3, <1>5 DEF Writes
<1> QED BY <1>7, <1>8 DEF Kinds

LEMMA ChangeSourcesKind ==
    ASSUME TypeOK, ChangeSources
    PROVE  TypeOK' /\ Kinds
<1>1. UNCHANGED <<Files, post, intact>> /\ told' = told
    BY DEF ChangeSources, Files
<1>2. used' \in [Bounds -> Nat]
    BY Outsider DEF ChangeSources
<1>3. issued' \subseteq [revision : Nat, head : Heads] /\ remembered' \in BOOLEAN
      /\ current' \in BOOLEAN /\ run' = run /\ told' \subseteq Requests
    BY DEF ChangeSources, TypeOK
<1>4. TypeOK'
    BY <1>1, <1>2, <1>3, RestedTypes
<1> QED BY <1>1, <1>4 DEF Kinds, Rests

LEMMA RestartKind ==
    ASSUME TypeOK, Restart
    PROVE  TypeOK' /\ Kinds
<1>1. used' \in [Bounds -> Nat]
    BY UsedFacts DEF Restart, Bounds
<1>2. TypeOK'
    BY <1>1 DEF Restart, TypeOK
<1>3. Drops
    BY DEF Restart, Drops, Files
<1> QED BY <1>2, <1>3 DEF Kinds

LEMMA StutterKind ==
    ASSUME TypeOK, UNCHANGED vars
    PROVE  TypeOK' /\ Kinds
    BY DEF vars, TypeOK, Kinds, Rests, Files

\* Every step keeps the types and is of one of the kinds.
LEMMA NextKind ==
    ASSUME IInv, [Next]_vars
    PROVE  TypeOK' /\ Kinds
<1>1. TypeOK /\ Captured /\ OneBody /\ Undisturbed
    BY DEF IInv
<1>2. CASE Get
    BY <1>1, <1>2, GetKind
<1>3. CASE Post
    <2>1. PICK body \in Bodies, capability \in issued, head \in Shown :
              \/ PostContinue(body, capability, head) \/ PostReview(body, capability, head)
              \/ PostRepair(body, capability, head) \/ PostReplay(body, capability, head)
        BY <1>3 DEF Post
    <2> QED BY <1>1, <2>1, PostContinueKind, PostReviewKind, PostRepairKind, PostReplayKind
<1>4. CASE Continue
    BY <1>1, <1>4, RebuildKind, BlockKind, BlockedKind, BeginKind, OpenKind, CaptureKind,
       ReadBackKind, CheckRevisionKind, GuardKind, ReceiptKind, CommitKind, RepairKind DEF Continue
<1>5. CASE \E item \in Assessed : Age(item)
    BY <1>1, <1>5, AgeKind DEF Assessed, Items
<1>6. CASE \E item \in Items : PutOutside(item)
    BY <1>1, <1>6, PutOutsideKind
<1>7. CASE StateOutside \/ ChangeSources \/ Restart \/ UNCHANGED vars
    BY <1>1, <1>7, StateOutsideKind, ChangeSourcesKind, RestartKind, StutterKind
<1> QED BY <1>2, <1>3, <1>4, <1>5, <1>6, <1>7 DEF Next

-----------------------------------------------------------------------------
(* What does not change.                                                   *)

LEMMA SameStatements ==
    ASSUME statements' = statements
    PROVE  Revision' = Revision /\ \A q : (Of(q))' = Of(q)
    BY DEF Revision, Of

LEMMA SameMarks ==
    ASSUME audits' = audits
    PROVE  \A q : /\ \A phases : Marks(q, phases)' = Marks(q, phases)
                  /\ \A phase : Marked(q, phase)' <=> Marked(q, phase)
                  /\ FirstPending(q)' = FirstPending(q) /\ LastMark(q)' = LastMark(q)
<1>1. \A q : \A phases : Marks(q, phases)' = Marks(q, phases)
    BY DEF Marks
<1>2. \A q : \A phase : Marked(q, phase)' <=> Marked(q, phase)
    BY <1>1 DEF Marked
<1>3. \A q : FirstPending(q)' = FirstPending(q)
    BY <1>1 DEF FirstPending
<1>4. \A q : LastMark(q)' = LastMark(q)
    BY <1>1 DEF LastMark
<1> QED BY <1>1, <1>2, <1>3, <1>4

\* A post in hand is what it was when it goes on.
LEMMA MovedPost ==
    ASSUME TypeOK, post # None, NEW pc, post' = [post EXCEPT !.pc = pc]
    PROVE  post' # None => post'.pc = pc /\ post'.body = post.body /\ post'.head = post.head
                           /\ post'.before = post.before
<1>1. post \in Hands
    BY Parts
<1> QED BY <1>1 DEF Hands

LEMMA OpenedPost ==
    ASSUME TypeOK, post # None, NEW pc, NEW before, post' = [post EXCEPT !.pc = pc, !.before = before]
    PROVE  post'.pc = pc /\ post'.body = post.body /\ post'.head = post.head
           /\ post'.before = before
<1>1. post \in Hands
    BY Parts
<1> QED BY <1>1 DEF Hands

LEMMA LockedPost ==
    ASSUME TypeOK, post # None, NEW pc, NEW head, post' = [post EXCEPT !.pc = pc, !.head = head]
    PROVE  post'.pc = pc /\ post'.body = post.body /\ post'.head = head
           /\ post'.before = post.before
<1>1. post \in Hands
    BY Parts
<1> QED BY <1>1 DEF Hands

LEMMA PostFacts ==
    ASSUME TypeOK, post # None
    PROVE  /\ post \in Hands /\ post.body \in Continues /\ post.body.request \in Requests
           /\ post.body.step \in Items /\ post.body.action = "CONTINUE"
           /\ post.before \in Histories /\ post.head \in Heads
<1>1. post \in Hands
    BY Parts
<1> QED BY <1>1, HandFacts

-----------------------------------------------------------------------------
(* OneCommitment                                                           *)

Chain == \A i \in 1 .. Revision : statements[i].body.expected = i - 1
Honest(request) ==
    /\ Cardinality(Of(request)) <= 1
    /\ Cardinality(Marks(request, {"COMMITTED"})) <= 1
    /\ \A k \in Marks(request, {"COMMITTED"}) : \E i \in Of(request) :
        statements[i].status = "RECORDED" /\ statements[i].body.action = "CONTINUE"
        /\ statements[i].head = audits[k].head
    /\ request \in told => Marked(request, "COMMITTED")

LEMMA CommitmentParts ==
    /\ OneCommitment <=> Chain /\ \A q \in Requests : Honest(q)
    /\ OneCommitment' <=> Chain' /\ \A q \in Requests : Honest(q)'
<1>1. OneCommitment <=> Chain /\ \A q \in Requests : Honest(q)
    BY DEF OneCommitment, Chain, Honest
<1>2. OneCommitment' <=> Chain' /\ \A q \in Requests : Honest(q)'
    BY DEF OneCommitment, Chain, Honest
<1> QED BY <1>1, <1>2

\* A request nobody has a statement of is not committed.
LEMMA Unrecorded ==
    ASSUME NEW q \in Requests, Honest(q), Of(q) = {}
    PROVE  Marks(q, {"COMMITTED"}) = {} /\ ~Marked(q, "COMMITTED") /\ q \notin told
    BY DEF Honest, Marked

LEMMA HonestKept ==
    ASSUME NEW q \in Requests, Honest(q), statements' = statements,
           Marks(q, {"COMMITTED"})' = Marks(q, {"COMMITTED"}),
           \A k \in Marks(q, {"COMMITTED"}) : audits'[k] = audits[k],
           q \in told' => q \in told \/ Marked(q, "COMMITTED")
    PROVE  Honest(q)'
<1>1. (Of(q))' = Of(q)
    BY SameStatements
<1>2. Marked(q, "COMMITTED")' <=> Marked(q, "COMMITTED")
    BY DEF Marked
<1>3. Cardinality(Of(q))' <= 1 /\ Cardinality(Marks(q, {"COMMITTED"}))' <= 1
    BY <1>1 DEF Honest
<1>4. (\A k \in Marks(q, {"COMMITTED"}) : \E i \in Of(q) :
        statements[i].status = "RECORDED" /\ statements[i].body.action = "CONTINUE"
        /\ statements[i].head = audits[k].head)'
    BY <1>1 DEF Honest
<1>5. (q \in told => Marked(q, "COMMITTED"))'
    BY <1>2 DEF Honest
<1> QED BY <1>3, <1>4, <1>5 DEF Honest

\* A mark that is not a commitment changes nothing.
LEMMA HonestMarked ==
    ASSUME TypeOK, NEW q \in Requests, Honest(q), statements' = statements, told' = told,
           NEW m \in Audited, audits' = Append(audits, m), m.phase # "COMMITTED"
    PROVE  Honest(q)'
<1>1. {"COMMITTED"} \in SUBSET Phases
    BY DEF Phases
<1>2. Marks(q, {"COMMITTED"})' = Marks(q, {"COMMITTED"})
    BY <1>1, MarkAdded
<1>3. \A k \in Marks(q, {"COMMITTED"}) : audits'[k] = audits[k]
    BY MarkAdded DEF Marks
<1> QED BY <1>2, <1>3, HonestKept

LEMMA CommitmentKept ==
    ASSUME IInv, Kinds
    PROVE  OneCommitment'
<1>1. TypeOK /\ Chain /\ OnceInHand
    BY CommitmentParts DEF IInv
<1>2. \A q \in Requests : Honest(q)
    BY CommitmentParts DEF IInv
<1>3. ASSUME UNCHANGED Files, NEW q \in Requests,
             q \in told' => q \in told \/ Marked(q, "COMMITTED")
      PROVE  Honest(q)'
    <2>1. statements' = statements /\ audits' = audits
        BY <1>3 DEF Files
    <2>2. Marks(q, {"COMMITTED"})' = Marks(q, {"COMMITTED"})
        BY <2>1, SameMarks
    <2> QED BY <1>2, <1>3, <2>1, <2>2, HonestKept
<1>4. ASSUME statements' = statements PROVE Chain'
    BY <1>1, <1>4, SameStatements DEF Chain
<1>5. CASE Drops \/ Goes \/ Takes
    <2>1. UNCHANGED Files /\ told' = told
        BY <1>5 DEF Drops, Goes, Takes
    <2>2. \A q \in Requests : Honest(q)'
        BY <1>3, <2>1
    <2>3. Chain'
        BY <1>4, <2>1 DEF Files
    <2> QED BY <2>2, <2>3, CommitmentParts
<1>6. CASE Rests
    <2>1. UNCHANGED Files /\ \A q \in told' \ told : Marked(q, "COMMITTED")
        BY <1>6 DEF Rests
    <2>2. \A q \in Requests : Honest(q)'
        BY <1>3, <2>1
    <2>3. Chain'
        BY <1>4, <2>1 DEF Files
    <2> QED BY <2>2, <2>3, CommitmentParts
<1>7. CASE Creates \/ Grows
    <2>1. statements' = statements /\ audits' = audits /\ told' = told
        BY <1>7 DEF Creates, Grows
    <2>2. ASSUME NEW q \in Requests PROVE Honest(q)'
        <3>1. Marks(q, {"COMMITTED"})' = Marks(q, {"COMMITTED"})
            BY <2>1, SameMarks
        <3> QED BY <1>2, <2>1, <3>1, HonestKept
    <2> QED BY <1>4, <2>1, <2>2, CommitmentParts
<1>8. CASE Fails \/ Pends
    <2>1. /\ statements' = statements /\ told' = told
          /\ \E m \in Audited : audits' = Append(audits, m) /\ m.phase # "COMMITTED"
        BY <1>8 DEF Fails, Pends
    <2>2. \A q \in Requests : Honest(q)'
        BY <1>1, <1>2, <2>1, HonestMarked
    <2> QED BY <1>4, <2>1, <2>2, CommitmentParts
<1>9. CASE Commits
    <2> PICK r : r = post.body.request
        OBVIOUS
    <2> PICK n : n = Len(audits) + 1
        OBVIOUS
    <2>1. post # None /\ statements' = statements /\ told' = told \cup {r}
          /\ (At("receipt") \/ At("repair"))
        BY <1>9 DEF Commits, At
    <2>2. PICK m \in Audited : audits' = Append(audits, m) /\ m.body = post.body
              /\ m.phase = "COMMITTED" /\ m.head = post.head
        BY <1>9 DEF Commits
    <2>3. /\ ~Marked(r, "COMMITTED")
          /\ \E i \in Of(r) :
                statements[i].status = "RECORDED" /\ statements[i].body.action = "CONTINUE"
                /\ statements[i].head = post.head
        BY <1>1, <2>1 DEF OnceInHand
    <2>4. {"COMMITTED"} \in SUBSET Phases
        BY DEF Phases
    <2>5. r \in Requests
        BY <1>1, <2>1, PostFacts
    <2>6. /\ audits'[n] = m /\ \A k \in DOMAIN audits : audits'[k] = audits[k]
        BY <1>1, <2>2, MarkAdded
    <2>7. ASSUME NEW q \in Requests
          PROVE  Marks(q, {"COMMITTED"})' = IF q = r THEN Marks(q, {"COMMITTED"}) \cup {n}
                                            ELSE Marks(q, {"COMMITTED"})
        <3>1. Marks(q, {"COMMITTED"})' = IF m.body.request = q /\ m.phase \in {"COMMITTED"}
                  THEN Marks(q, {"COMMITTED"}) \cup {Len(audits) + 1} ELSE Marks(q, {"COMMITTED"})
            <4>1. \A phases \in SUBSET Phases :
                      Marks(q, phases)' = IF m.body.request = q /\ m.phase \in phases
                                          THEN Marks(q, phases) \cup {Len(audits) + 1}
                                          ELSE Marks(q, phases)
                BY <1>1, <2>2, MarkAdded
            <4> QED BY <2>4, <4>1
        <3> QED BY <2>2, <3>1
    <2>8. ASSUME NEW q \in Requests, q # r PROVE Honest(q)'
        <3>1. Marks(q, {"COMMITTED"})' = Marks(q, {"COMMITTED"})
            BY <2>7, <2>8
        <3>2. \A k \in Marks(q, {"COMMITTED"}) : audits'[k] = audits[k]
            BY <2>6 DEF Marks
        <3> QED BY <1>2, <2>1, <2>8, <3>1, <3>2, HonestKept
    <2>9. Honest(r)'
        <3>1. Marks(r, {"COMMITTED"})' = {n}
            BY <2>3, <2>5, <2>7 DEF Marked
        <3>2. (Of(r))' = Of(r)
            BY <2>1, SameStatements
        <3>3. (Cardinality(Of(r)) <= 1)'
            BY <1>2, <2>5, <3>2 DEF Honest
        <3>4. Cardinality({n}) = 1
            BY FS_Singleton
        <3>5. (Cardinality(Marks(r, {"COMMITTED"})) <= 1)'
            <4> PICK C : C = Marks(r, {"COMMITTED"})'
                OBVIOUS
            <4>1. C = {n}
                BY <3>1
            <4>2. Cardinality(C) <= 1
                BY <3>4, <4>1
            <4> QED BY <4>2
        <3>6. (\A k \in Marks(r, {"COMMITTED"}) : \E i \in Of(r) :
                  statements[i].status = "RECORDED" /\ statements[i].body.action = "CONTINUE"
                  /\ statements[i].head = audits[k].head)'
            BY <2>1, <2>2, <2>3, <2>6, <3>1, <3>2
        <3>7. Marked(r, "COMMITTED")'
            BY <3>1 DEF Marked
        <3> QED BY <3>3, <3>5, <3>6, <3>7 DEF Honest
    <2>10. \A q \in Requests : Honest(q)'
        BY <2>8, <2>9
    <2> QED BY <1>4, <2>1, <2>10, CommitmentParts
<1>10. CASE Writes
    <2>1. audits' = audits /\ told' = told
        BY <1>10 DEF Writes
    <2>2. PICK st \in Statements : statements' = Append(statements, st)
              /\ st.body.expected = Revision
              /\ (st.body.request = None \/ Of(st.body.request) = {})
        BY <1>10 DEF Writes
    <2>3. /\ Revision' = Revision + 1 /\ statements'[Revision + 1] = st
          /\ \A i \in 1 .. Revision : statements'[i] = statements[i]
          /\ Revision \in Nat
        BY <1>1, <2>2, StatementAdded, StatementFacts
    <2>4. \A q \in Requests :
             (Of(q))' = IF st.body.request = q THEN Of(q) \cup {Revision + 1} ELSE Of(q)
        BY <1>1, <2>2, StatementAdded
    <2>5. Chain'
        <3>1. ASSUME NEW i \in 1 .. (Revision + 1) PROVE statements'[i].body.expected = i - 1
            <4>1. CASE i = Revision + 1
                <5>1. i - 1 = Revision /\ statements'[i] = st
                    BY <2>3, <4>1
                <5> QED BY <2>2, <5>1
            <4>2. CASE i \in 1 .. Revision
                BY <1>1, <2>3, <4>2 DEF Chain
            <4> QED BY <2>3, <4>1, <4>2
        <3> QED BY <2>3, <3>1 DEF Chain
    <2>6. ASSUME NEW q \in Requests PROVE Honest(q)'
        <3>1. Marks(q, {"COMMITTED"})' = Marks(q, {"COMMITTED"})
              /\ (Marked(q, "COMMITTED")' <=> Marked(q, "COMMITTED"))
            BY <2>1, SameMarks
        <3>2. Honest(q) /\ Of(q) \subseteq 1 .. Revision
            BY <1>1, <1>2, StatementFacts
        <3>3. CASE st.body.request = q
            <4>1. Of(q) = {}
                BY <2>2, <3>3, ProofReviewAssumption
            <4>2. (Of(q))' = {Revision + 1} /\ Marks(q, {"COMMITTED"}) = {} /\ q \notin told
                BY <2>4, <3>2, <3>3, <4>1, Unrecorded
            <4>3. Cardinality({Revision + 1}) = 1 /\ Cardinality({}) = 0
                BY FS_Singleton, FS_EmptySet
            <4>4. (Cardinality(Of(q)) <= 1)' /\ (Cardinality(Marks(q, {"COMMITTED"})) <= 1)'
                BY <3>1, <4>2, <4>3
            <4> QED BY <2>1, <3>1, <4>2, <4>4 DEF Honest
        <3>4. CASE st.body.request # q
            <4>1. (Of(q))' = Of(q)
                BY <2>4, <3>4
            <4>2. (Cardinality(Of(q)) <= 1)' /\ (Cardinality(Marks(q, {"COMMITTED"})) <= 1)'
                BY <3>1, <3>2, <4>1 DEF Honest
            <4>3. (\A k \in Marks(q, {"COMMITTED"}) : \E i \in Of(q) :
                      statements[i].status = "RECORDED" /\ statements[i].body.action = "CONTINUE"
                      /\ statements[i].head = audits[k].head)'
                BY <2>1, <2>3, <3>1, <3>2, <4>1 DEF Honest
            <4>4. (q \in told => Marked(q, "COMMITTED"))'
                BY <2>1, <3>1, <3>2 DEF Honest
            <4> QED BY <4>2, <4>3, <4>4 DEF Honest
        <3> QED BY <3>3, <3>4
    <2> QED BY <2>5, <2>6, CommitmentParts
<1> QED BY <1>5, <1>6, <1>7, <1>8, <1>9, <1>10 DEF Kinds

-----------------------------------------------------------------------------
(* OnceInHand                                                              *)

Early == (Underway \ {"receipt"}) \cup {"rebuild", "begin", "block"}
HasReceipt(request, head) ==
    \E i \in Of(request) :
        statements[i].status = "RECORDED" /\ statements[i].body.action = "CONTINUE"
        /\ statements[i].head = head

LEMMA OnceParts ==
    ASSUME post' # None =>
              /\ post'.pc \in Early => (Of(post.body.request))' = {}
              /\ post'.pc \in {"receipt", "repair"} =>
                    /\ ~(Marked(post.body.request, "COMMITTED"))'
                    /\ (HasReceipt(post.body.request, post.head))'
    PROVE  OnceInHand'
    BY DEF OnceInHand, At, Early, HasReceipt

LEMMA OnceNow ==
    ASSUME OnceInHand, post # None
    PROVE  /\ post.pc \in Early => Of(post.body.request) = {}
           /\ post.pc \in {"receipt", "repair"} =>
                 /\ ~Marked(post.body.request, "COMMITTED")
                 /\ HasReceipt(post.body.request, post.head)
    BY DEF OnceInHand, At, Early, HasReceipt

LEMMA EarlyFacts ==
    /\ {"open", "capture", "cas", "guard", "locked", "rebuild", "begin", "block"} \subseteq Early
    /\ {"receipt", "repair", "blocked"} \cap Early = {}
    /\ \A pc \in Early : pc \notin {"receipt", "repair", "blocked"}
    BY DEF Early, Underway

\* A post that has written no statement is as it was, as long as it stays early.
LEMMA OnceSame ==
    ASSUME statements' = statements, OnceInHand, post # None, post.pc \in Early,
           post' # None => post'.pc \in Early \cup {"blocked"} /\ post'.body = post.body
    PROVE  OnceInHand'
<1>1. Of(post.body.request) = {}
    BY OnceNow
<1>2. \A q : (Of(q))' = Of(q)
    BY SameStatements
<1>3. post' # None => (Of(post.body.request))' = {}
    <2> HAVE post' # None
    <2>1. (Of(post.body.request))' = {i \in 1 .. Revision' : statements'[i].body.request = post'.body.request}
        BY DEF Of
    <2>2. Revision' = Revision
        BY SameStatements
    <2> QED BY <1>1, <2>1, <2>2 DEF Of
<1>4. post' # None => post'.pc \notin {"receipt", "repair"}
    BY EarlyFacts
<1> QED BY <1>3, <1>4, OnceParts

LEMMA OnceKept ==
    ASSUME IInv, Kinds
    PROVE  OnceInHand'
<1>1. TypeOK /\ OnceInHand /\ Captured /\ \A q \in Requests : Honest(q)
    BY CommitmentParts DEF IInv
<1>2. ASSUME post' = None PROVE OnceInHand'
    BY <1>2, OnceParts
<1>3. ASSUME UNCHANGED <<statements, audits>>, post' = post PROVE OnceInHand'
    <2>1. (Of(post.body.request))' = Of(post.body.request)
          /\ (Marked(post.body.request, "COMMITTED"))' = Marked(post.body.request, "COMMITTED")
        BY <1>3 DEF Of, Revision, Marked, Marks
    <2>2. (HasReceipt(post.body.request, post.head))' <=> HasReceipt(post.body.request, post.head)
        BY <1>3, <2>1 DEF HasReceipt
    <2> QED BY <1>1, <1>3, <2>1, <2>2, OnceNow, OnceParts
<1>4. CASE Drops \/ Commits
    BY <1>2, <1>4 DEF Drops, Commits
<1>5. CASE Fails
    <2>1. statements' = statements /\ post # None
        BY <1>5 DEF Fails
    <2>2. CASE post' = None
        BY <1>2, <2>2
    <2>3. CASE post.pc = "open" /\ post' = [post EXCEPT !.pc = "block"]
        <3>1. post' # None => post'.pc = "block" /\ post'.body = post.body
            BY <1>1, <2>1, <2>3, MovedPost
        <3> QED BY <1>1, <2>1, <2>3, <3>1, OnceSame, EarlyFacts
    <2> QED BY <1>5, <2>2, <2>3 DEF Fails
<1>6. CASE Goes
    <2>1. statements' = statements /\ post # None
        BY <1>6 DEF Goes, Files
    <2>2. post.pc \in Early
        BY <1>6, EarlyFacts DEF Goes
    <2>3. post' # None => post'.pc \in Early /\ post'.body = post.body
        BY <1>1, <1>6, <2>1, MovedPost, LockedPost, EarlyFacts DEF Goes
    <2> QED BY <1>1, <2>1, <2>2, <2>3, OnceSame
<1>7. CASE Pends
    <2>1. statements' = statements /\ post # None /\ post.pc = "begin"
        BY <1>7 DEF Pends
    <2>2. post'.pc = "open" /\ post'.body = post.body
        BY <1>1, <1>7, <2>1, OpenedPost DEF Pends
    <2> QED BY <1>1, <2>1, <2>2, OnceSame, EarlyFacts
<1>8. CASE Grows
    <2>1. statements' = statements /\ audits' = audits
        BY <1>8 DEF Grows
    <2>2. CASE post # None /\ post.pc \in {"open", "capture"} /\ post'.pc = "capture"
               /\ post'.body = post.body
        BY <1>1, <2>1, <2>2, OnceSame, EarlyFacts
    <2>3. CASE post' = post
        BY <1>3, <2>1, <2>3
    <2> QED BY <1>8, <2>2, <2>3 DEF Grows
<1>9. CASE Creates \/ Rests
    BY <1>3, <1>9 DEF Creates, Rests, Files
<1>10. CASE Takes
    <2>1. statements' = statements /\ audits' = audits
        BY <1>10 DEF Takes, Files
    <2>2. PICK body \in Continues :
              /\ post'.body = body
              /\ \/ post'.pc = "rebuild" /\ Of(body.request) = {}
                 \/ /\ post'.pc = "repair" /\ ~Marked(body.request, "COMMITTED")
                    /\ HasReceipt(body.request, post'.head)
        BY <1>10 DEF Takes, HasReceipt
    <2> PICK head : head = post'.head
        OBVIOUS
    <2>3. /\ (Of(body.request))' = Of(body.request)
          /\ (Marked(body.request, "COMMITTED"))' = Marked(body.request, "COMMITTED")
        BY <2>1 DEF Of, Revision, Marked, Marks
    <2>4. (HasReceipt(body.request, head))' <=> HasReceipt(body.request, head)
        BY <2>1, <2>3 DEF HasReceipt
    <2>5. (Of(post.body.request))' = (Of(body.request))'
          /\ (Marked(post.body.request, "COMMITTED"))' = (Marked(body.request, "COMMITTED"))'
        BY <2>2 DEF Of, Revision, Marked, Marks
    <2>6. (HasReceipt(post.body.request, post.head))' <=> (HasReceipt(body.request, head))'
        BY <2>2, <2>5 DEF HasReceipt
    <2> QED BY <2>2, <2>3, <2>4, <2>5, <2>6, OnceParts, EarlyFacts
<1>11. CASE Writes
    <2>1. audits' = audits
        BY <1>11 DEF Writes
    <2>2. PICK st \in Statements : /\ statements' = Append(statements, st)
              /\ \/ /\ post # None /\ st.body = post.body /\ Of(post.body.request) = {}
                    /\ \/ post.pc = "block" /\ post' = [post EXCEPT !.pc = "blocked"]
                       \/ /\ post.pc = "locked" /\ st.status = "RECORDED" /\ st.head = post.head
                          /\ post' = [post EXCEPT !.pc = "receipt"]
                 \/ post' = None
                 \/ st.body.request = None /\ post' = post
        BY <1>11 DEF Writes
    <2>3. /\ Revision' = Revision + 1 /\ statements'[Revision + 1] = st
          /\ \A i \in 1 .. Revision : statements'[i] = statements[i]
          /\ Revision \in Nat
        BY <1>1, <2>2, StatementAdded, StatementFacts
    <2>4. \A q \in Requests :
             (Of(q))' = IF st.body.request = q THEN Of(q) \cup {Revision + 1} ELSE Of(q)
        BY <1>1, <2>2, StatementAdded
    <2>5. CASE post # None /\ post.pc = "block" /\ post' = [post EXCEPT !.pc = "blocked"]
        <3>1. post' # None => post'.pc = "blocked"
            BY <1>1, <2>5, MovedPost
        <3> QED BY <3>1, OnceParts, EarlyFacts
    <2>6. CASE /\ post # None /\ st.body = post.body /\ Of(post.body.request) = {}
               /\ post.pc = "locked" /\ st.status = "RECORDED" /\ st.head = post.head
               /\ post' = [post EXCEPT !.pc = "receipt"]
        <3> PICK q, h : q = post.body.request /\ h = post.head
            OBVIOUS
        <3>1. post' # None => post'.pc = "receipt" /\ post'.body = post.body /\ post'.head = post.head
            BY <1>1, <2>6, MovedPost
        <3>2. q \in Requests /\ post.body.action = "CONTINUE"
            BY <1>1, <2>6, PostFacts
        <3>3. (Of(q))' = {Revision + 1}
            BY <2>4, <2>6, <3>2
        <3>4. ~Marked(q, "COMMITTED")
            BY <1>1, <2>6, <3>2, Unrecorded
        <3>5. ~(Marked(q, "COMMITTED"))'
            BY <2>1, <3>4, SameMarks
        <3>6. (HasReceipt(q, h))'
            BY <2>3, <2>6, <3>2, <3>3 DEF HasReceipt
        <3>7. post' # None => ~(Marked(post.body.request, "COMMITTED"))'
                              /\ (HasReceipt(post.body.request, post.head))'
            <4> HAVE post' # None
            <4>1. post'.body.request = q /\ post'.head = h
                BY <3>1
            <4>2. ~(Marked(post.body.request, "COMMITTED"))'
                BY <3>5, <4>1 DEF Marked, Marks
            <4>3. (HasReceipt(post.body.request, post.head))'
                BY <3>6, <4>1 DEF HasReceipt, Of, Revision
            <4> QED BY <4>2, <4>3
        <3> QED BY <3>1, <3>7, OnceParts, EarlyFacts
    <2>7. CASE st.body.request = None /\ post' = post
        <3>1. CASE post = None
            BY <1>2, <2>7, <3>1
        <3>2. CASE post # None
            <4> PICK q, h : q = post.body.request /\ h = post.head
                OBVIOUS
            <4>1. q \in Requests /\ q # None
                BY <1>1, <3>2, PostFacts, ProofReviewAssumption
            <4>2. (Of(q))' = Of(q) /\ Of(q) \subseteq 1 .. Revision
                BY <1>1, <2>4, <2>7, <4>1, StatementFacts
            <4>3. (Of(post.body.request))' = (Of(q))'
                BY <2>7 DEF Of
            <4>4. (Marked(post.body.request, "COMMITTED"))' <=> Marked(q, "COMMITTED")
                BY <2>1, <2>7 DEF Marked, Marks
            <4>5. HasReceipt(q, h) => (HasReceipt(q, h))'
                BY <2>3, <4>2 DEF HasReceipt
            <4>6. (HasReceipt(post.body.request, post.head))' <=> (HasReceipt(q, h))'
                BY <2>7, <4>3 DEF HasReceipt
            <4> QED BY <1>1, <2>7, <3>2, <4>2, <4>3, <4>4, <4>5, <4>6, OnceNow, OnceParts
        <3> QED BY <3>1, <3>2
    <2> QED BY <1>2, <2>2, <2>5, <2>6, <2>7
<1> QED BY <1>4, <1>5, <1>6, <1>7, <1>8, <1>9, <1>10, <1>11 DEF Kinds

-----------------------------------------------------------------------------
(* Captured                                                                *)

\* What a post relies on, of a proof with these rows.
Grown(before, rows) == \A item \in Items : Len(before[item]) <= Len(rows[item])
Watched(before, rows, step) ==
    \A item \in Needs(step) : Alive(rows, item) \/ Len(rows[item]) > Len(before[item])
Relies(p, side, rows) ==
    /\ side = NoFile => p.head = NoFile
    /\ p.pc \in Underway \ {"open"} => side \in Histories
    /\ p.pc \in Underway => Grown(p.before, rows)
    /\ p.pc \in {"cas", "guard"} => Watched(p.before, rows, p.body.step)
    /\ p.pc \in {"locked", "receipt"} => side = p.head /\ Proved(side, p.body.step)

LEMMA CapturedParts ==
    /\ Captured <=> (post # None => Relies(post, sidecar, Rows))
    /\ Captured' <=> (post' # None => Relies(post', sidecar', Rows'))
<1>1. Captured <=> (post # None => Relies(post, sidecar, Rows))
    BY DEF Captured, Relies, Grown, Watched, At, Locked
<1>2. Captured' <=> (post' # None => Relies(post', sidecar', Rows'))
    BY DEF Captured, Relies, Grown, Watched, At, Locked
<1> QED BY <1>1, <1>2

\* The guard: an item that is not alive any more would be a row the request may
\* not have added.
LEMMA GuardProves ==
    ASSUME NEW before \in Histories, NEW rows \in Histories, NEW step \in Items,
           Watched(before, rows, step), Delta(before, rows, step)
    PROVE  Proved(rows, step)
<1>1. Needs(step) \subseteq Items
    BY NeedsFacts
<1>2. ASSUME NEW item \in Needs(step) PROVE Alive(rows, item)
    <2>1. item \in Items
        BY <1>1
    <2>2. CASE Alive(rows, item)
        BY <2>2
    <2>3. CASE Len(rows[item]) > Len(before[item])
        <3>1. Len(before[item]) \in Nat /\ Len(rows[item]) \in Nat
            BY <2>1, HistoryFacts
        <3>2. before[item] # rows[item]
            BY <2>3, <3>1
        <3>3. Len(rows[item]) = 1
            BY <2>1, <3>2 DEF Delta
        <3>4. rows[item] \in Seq(Events)
            BY <2>1, HistoryFacts
        <3>5. rows[item] # <<>>
            BY <3>3
        <3>6. rows[item][1] = "ACTIVE"
            BY <2>1, <3>5, HistoryFacts
        <3> QED BY <3>3, <3>5, <3>6 DEF Alive, Last
    <2> QED BY <2>2, <2>3 DEF Watched
<1> QED BY <1>2 DEF Proved

LEMMA CapturedKept ==
    ASSUME IInv, TypeOK', Kinds
    PROVE  Captured'
<1>1. TypeOK /\ (post # None => Relies(post, sidecar, Rows))
    BY CapturedParts DEF IInv
<1>2. Rows \in Histories /\ (sidecar \in Histories => Rows = sidecar)
    BY <1>1, RowsType
<1>3. ASSUME post' = None PROVE Captured'
    BY <1>3, CapturedParts
<1>4. ASSUME sidecar' = sidecar PROVE Rows' = Rows
    BY <1>4 DEF Rows
<1> PICK p, side, rows : p = post /\ side = sidecar /\ rows = Rows
    OBVIOUS
<1> PICK p2, side2, rows2 : p2 = post' /\ side2 = sidecar' /\ rows2 = Rows'
    OBVIOUS
<1>5. /\ p # None => Relies(p, side, rows)
      /\ (p2 # None => Relies(p2, side2, rows2)) => Captured'
    BY <1>1, CapturedParts
<1>6. CASE Drops \/ Commits
    BY <1>3, <1>6 DEF Drops, Commits
<1>7. CASE Fails
    <2>1. post # None /\ sidecar' = sidecar
        BY <1>7 DEF Fails
    <2>2. CASE post.pc = "open" /\ post' = [post EXCEPT !.pc = "block"]
        <3>1. p2 # None => p2.pc = "block" /\ p2.head = p.head
            BY <1>1, <2>1, <2>2, MovedPost
        <3>2. side2 = side /\ rows2 = rows
            BY <1>4, <2>1
        <3> QED BY <1>5, <2>1, <3>1, <3>2 DEF Relies, Underway
    <2> QED BY <1>3, <1>7, <2>2 DEF Fails
<1>8. CASE Goes
    <2>1. post # None /\ sidecar' = sidecar
        BY <1>8 DEF Goes, Files
    <2>2. side2 = side /\ rows2 = rows /\ p # None
        BY <1>4, <2>1
    <2>3. Relies(p, side, rows)
        BY <1>5, <2>2
    <2>4. CASE post.pc = "rebuild" /\ \E pc \in {"begin", "block"} : post' = [post EXCEPT !.pc = pc]
        <3>1. p2 # None => p2.pc \in {"begin", "block"} /\ p2.head = p.head /\ p.pc = "rebuild"
            BY <1>1, <2>1, <2>4, MovedPost
        <3> QED BY <1>5, <2>2, <2>3, <3>1 DEF Relies, Underway
    <2>5. CASE /\ post.pc = "capture" /\ Proved(Rows, post.body.step)
               /\ post' = [post EXCEPT !.pc = "cas"]
        <3>1. p2 # None => p2.pc = "cas" /\ p2.head = p.head /\ p2.body = p.body
                           /\ p2.before = p.before /\ p.pc = "capture"
            BY <1>1, <2>1, <2>5, MovedPost
        <3>2. Watched(p.before, rows, p.body.step)
            BY <2>5 DEF Watched, Proved
        <3> QED BY <1>5, <2>2, <2>3, <3>1, <3>2 DEF Relies, Underway
    <2>6. CASE post.pc = "cas" /\ post' = [post EXCEPT !.pc = "guard"]
        <3>1. p2 # None => p2.pc = "guard" /\ p2.head = p.head /\ p2.body = p.body
                           /\ p2.before = p.before /\ p.pc = "cas"
            BY <1>1, <2>1, <2>6, MovedPost
        <3> QED BY <1>5, <2>2, <2>3, <3>1 DEF Relies, Underway
    <2>7. CASE /\ post.pc = "guard" /\ Delta(post.before, Rows, post.body.step)
               /\ post' = [post EXCEPT !.pc = "locked", !.head = sidecar]
        <3>1. p2.pc = "locked" /\ p2.head = side /\ p2.body = p.body /\ p2.before = p.before
              /\ p.pc = "guard"
            BY <1>1, <2>1, <2>7, LockedPost
        <3>2. p.before \in Histories /\ rows \in Histories /\ p.body.step \in Items
            BY <1>1, <1>2, <2>1, PostFacts
        <3>3. Watched(p.before, rows, p.body.step) /\ side \in Histories
              /\ Grown(p.before, rows)
            BY <2>3, <3>1 DEF Relies, Underway
        <3>4. Delta(p.before, rows, p.body.step)
            BY <2>7
        <3>5. Proved(rows, p.body.step) /\ rows = side
            BY <1>2, <3>2, <3>3, <3>4, GuardProves
        <3> QED BY <1>5, <2>2, <3>1, <3>3, <3>5, ProofReviewAssumption DEF Relies
    <2> QED BY <1>8, <2>4, <2>5, <2>6, <2>7 DEF Goes
<1>9. CASE Writes
    <2>1. side2 = side /\ rows2 = rows
        BY <1>4, <1>9 DEF Writes
    <2>2. CASE /\ post # None /\ post.pc = "block" /\ post' = [post EXCEPT !.pc = "blocked"]
        <3>1. p2 # None => p2.pc = "blocked" /\ p2.head = p.head
            BY <1>1, <2>2, MovedPost
        <3> QED BY <1>5, <2>1, <2>2, <3>1 DEF Relies, Underway
    <2>3. CASE /\ post # None /\ post.pc = "locked" /\ post' = [post EXCEPT !.pc = "receipt"]
        <3>1. p2 # None => p2.pc = "receipt" /\ p2.head = p.head /\ p2.body = p.body
                           /\ p2.before = p.before /\ p.pc = "locked"
            BY <1>1, <2>3, MovedPost
        <3> QED BY <1>5, <2>1, <2>3, <3>1 DEF Relies, Underway
    <2>4. CASE post' = post
        BY <1>5, <2>1, <2>4
    <2>5. \/ post # None /\ post.pc = "block" /\ post' = [post EXCEPT !.pc = "blocked"]
          \/ post # None /\ post.pc = "locked" /\ post' = [post EXCEPT !.pc = "receipt"]
          \/ post' = None \/ post' = post
        BY <1>9 DEF Writes
    <2> QED BY <1>3, <2>2, <2>3, <2>4, <2>5
<1>10. CASE Pends
    <2>1. post # None /\ post.pc = "begin" /\ sidecar' = sidecar
        BY <1>10 DEF Pends
    <2>2. side2 = side /\ rows2 = rows /\ p # None
        BY <1>4, <2>1
    <2>3. PICK before \in Histories :
              before = Rows /\ post' = [post EXCEPT !.pc = "open", !.before = before]
        BY <1>10 DEF Pends
    <2>4. p2.pc = "open" /\ p2.head = p.head /\ p2.before = rows
        BY <1>1, <2>1, <2>3, OpenedPost
    <2>5. Grown(rows, rows)
        <3>1. \A item \in Items : Len(rows[item]) \in Nat
            BY <1>2, HistoryFacts
        <3> QED BY <3>1 DEF Grown
    <2> QED BY <1>5, <2>2, <2>4, <2>5 DEF Relies
<1>11. CASE Grows
    <2>1. side2 \in Histories /\ side2 # NoFile /\ rows2 = side2
        BY <1>11 DEF Grows, Rows
    <2>2. \A item \in Items : Len(rows[item]) <= Len(rows2[item])
        BY <1>11, <2>1 DEF Grows
    <2>3. ASSUME NEW before \in Histories, Grown(before, rows) PROVE Grown(before, rows2)
        <3>1. \A item \in Items : Len(before[item]) \in Nat /\ Len(rows[item]) \in Nat
                                  /\ Len(rows2[item]) \in Nat
            BY <1>2, <2>1, HistoryFacts
        <3> QED BY <2>2, <2>3, <3>1 DEF Grown
    <2>4. CASE /\ post # None /\ post.pc \in {"open", "capture"}
               /\ post'.pc = "capture" /\ post'.before = post.before
        <3>1. p.pc \in Underway /\ p # None /\ p.before \in Histories
            BY <1>1, <2>4, PostFacts DEF Underway
        <3>2. Grown(p.before, rows2)
            BY <1>5, <2>3, <3>1 DEF Relies
        <3> QED BY <1>5, <2>1, <2>4, <3>2 DEF Relies
    <2>5. CASE /\ ~Locked /\ post' = post
               /\ \A item \in Items : sidecar'[item] = Rows[item]
                                      \/ Len(sidecar'[item]) > Len(Rows[item])
        <3>1. CASE post = None
            BY <1>3, <2>5, <3>1
        <3>2. CASE post # None
            <4>1. p.pc \notin {"locked", "receipt"} /\ p # None /\ p2 = p
                BY <2>5, <3>2 DEF Locked, At
            <4>2. p.before \in Histories /\ p.body.step \in Items
                BY <1>1, <3>2, PostFacts
            <4>3. p.pc \in Underway => Grown(p.before, rows2)
                BY <1>5, <2>3, <4>1, <4>2 DEF Relies
            <4>4. ASSUME p.pc \in {"cas", "guard"} PROVE Watched(p.before, rows2, p.body.step)
                <5>1. Watched(p.before, rows, p.body.step) /\ Grown(p.before, rows)
                    BY <1>5, <4>1, <4>4 DEF Relies, Underway
                <5>2. ASSUME NEW item \in Needs(p.body.step)
                      PROVE  Alive(rows2, item) \/ Len(rows2[item]) > Len(p.before[item])
                    <6>1. item \in Items
                        BY <4>2, NeedsFacts
                    <6>2. rows2[item] = rows[item] \/ Len(rows2[item]) > Len(rows[item])
                        BY <2>1, <2>5, <6>1
                    <6>3. Len(p.before[item]) \in Nat /\ Len(rows[item]) \in Nat
                          /\ Len(rows2[item]) \in Nat
                        BY <1>2, <2>1, <4>2, <6>1, HistoryFacts
                    <6>4. Len(p.before[item]) <= Len(rows[item])
                        BY <5>1, <6>1 DEF Grown
                    <6>5. CASE rows2[item] = rows[item]
                        BY <5>1, <6>5 DEF Watched, Alive
                    <6>6. CASE Len(rows2[item]) > Len(rows[item])
                        BY <6>3, <6>4, <6>6
                    <6> QED BY <6>2, <6>5, <6>6
                <5> QED BY <5>2 DEF Watched
            <4>5. Relies(p2, side2, rows2)
                BY <2>1, <4>1, <4>3, <4>4 DEF Relies
            <4> QED BY <1>5, <4>5
        <3> QED BY <3>1, <3>2
    <2> QED BY <1>11, <2>4, <2>5 DEF Grows
<1>12. CASE Takes
    <2>1. post'.pc \in {"rebuild", "repair"} /\ (sidecar = NoFile => post'.head = NoFile)
          /\ sidecar' = sidecar
        BY <1>12 DEF Takes, Files
    <2> QED BY <1>5, <2>1 DEF Relies, Underway
<1>13. CASE Rests
    <2>1. p2 = p /\ side2 = side /\ rows2 = rows
        BY <1>4, <1>13 DEF Rests, Files
    <2> QED BY <1>5, <2>1
<1>14. CASE Creates
    <2>1. /\ side = NoFile /\ side2 = Unreadable /\ p # None /\ p.pc = "open" /\ p2 = p
        BY <1>14 DEF Creates
    <2>2. rows2 = rows
        BY <1>14, ProofReviewAssumption DEF Creates, Rows
    <2> QED BY <1>5, <2>1, <2>2, ProofReviewAssumption DEF Relies
<1> QED BY <1>6, <1>7, <1>8, <1>9, <1>10, <1>11, <1>12, <1>13, <1>14 DEF Kinds

-----------------------------------------------------------------------------
(* OneBody                                                                 *)

StatementsOf(request, body) == \A i \in Of(request) : statements[i].body = body

LEMMA BodyParts ==
    /\ OneBody <=> \A q \in Requests : Marked(q, "PENDING") =>
                      /\ StatementsOf(q, FirstPending(q).body)
                      /\ post # None /\ post.body.request = q => post.body = FirstPending(q).body
    /\ OneBody' <=> \A q \in Requests : Marked(q, "PENDING")' =>
                      /\ (StatementsOf(q, FirstPending(q).body))'
                      /\ post' # None /\ post'.body.request = q => post'.body = FirstPending(q)'.body
<1>1. OneBody <=> \A q \in Requests : Marked(q, "PENDING") =>
                      /\ StatementsOf(q, FirstPending(q).body)
                      /\ post # None /\ post.body.request = q => post.body = FirstPending(q).body
    BY DEF OneBody, StatementsOf
<1>2. OneBody' <=> \A q \in Requests : Marked(q, "PENDING")' =>
                      /\ (StatementsOf(q, FirstPending(q).body))'
                      /\ post' # None /\ post'.body.request = q => post'.body = FirstPending(q)'.body
    BY DEF OneBody, StatementsOf
<1> QED BY <1>1, <1>2

LEMMA BodySame ==
    ASSUME statements' = statements, NEW q, NEW b, FirstPending(q)'.body = b, StatementsOf(q, b)
    PROVE  (StatementsOf(q, FirstPending(q).body))'
<1>1. (Of(q))' = Of(q)
    BY SameStatements
<1> QED BY <1>1 DEF StatementsOf

LEMMA BodyKept ==
    ASSUME IInv, Kinds
    PROVE  OneBody'
<1>1. TypeOK /\ OnceInHand /\ OneBody
    BY DEF IInv
\* The journal's statements and first pending marks are the same.
<1>2. ASSUME NEW q \in Requests, Marked(q, "PENDING")
      PROVE  /\ StatementsOf(q, FirstPending(q).body)
             /\ post # None /\ post.body.request = q => post.body = FirstPending(q).body
    BY <1>1, <1>2, BodyParts
<1>3. ASSUME statements' = statements,
             \A q \in Requests : /\ Marked(q, "PENDING")' => Marked(q, "PENDING")
                                 /\ Marked(q, "PENDING") => FirstPending(q)' = FirstPending(q),
             post' # None => \/ post # None /\ post'.body = post.body
                             \/ \A q \in Requests : Marked(q, "PENDING") /\ post'.body.request = q
                                   => post'.body = FirstPending(q).body
      PROVE  OneBody'
    <2>1. ASSUME NEW q \in Requests, Marked(q, "PENDING")'
          PROVE  /\ (StatementsOf(q, FirstPending(q).body))'
                 /\ post' # None /\ post'.body.request = q => post'.body = FirstPending(q)'.body
        <3>1. Marked(q, "PENDING") /\ FirstPending(q)' = FirstPending(q)
            BY <1>3, <2>1
        <3>2. (StatementsOf(q, FirstPending(q).body))'
            BY <1>2, <1>3, <3>1, BodySame
        <3> QED BY <1>2, <1>3, <3>1, <3>2
    <2> QED BY <2>1, BodyParts
<1>4. ASSUME audits' = audits
      PROVE  \A q \in Requests : /\ Marked(q, "PENDING")' => Marked(q, "PENDING")
                                 /\ Marked(q, "PENDING") => FirstPending(q)' = FirstPending(q)
    BY <1>4, SameMarks
<1>5. CASE Drops
    BY <1>3, <1>4, <1>5 DEF Drops, Files
<1>6. CASE Goes
    <2>1. statements' = statements /\ audits' = audits /\ post # None
        BY <1>6 DEF Goes, Files
    <2>2. post' # None => post'.body = post.body
        BY <1>1, <1>6, <2>1, MovedPost, LockedPost DEF Goes
    <2> QED BY <1>3, <1>4, <2>1, <2>2
<1>7. CASE Grows
    <2>1. statements' = statements /\ audits' = audits
        BY <1>7 DEF Grows
    <2>2. post' # None => post # None /\ post'.body = post.body
        BY <1>7 DEF Grows
    <2> QED BY <1>3, <1>4, <2>1, <2>2
<1>8. CASE Creates \/ Rests
    <2>1. statements' = statements /\ audits' = audits /\ post' = post
        BY <1>8 DEF Creates, Rests, Files
    <2> QED BY <1>3, <1>4, <2>1
<1>9. CASE Takes
    <2>1. statements' = statements /\ audits' = audits
        BY <1>9 DEF Takes, Files
    <2>2. \A q \in Requests : Marked(q, "PENDING") /\ post'.body.request = q
                                   => post'.body = FirstPending(q).body
        BY <1>9 DEF Takes
    <2> QED BY <1>3, <1>4, <2>1, <2>2
<1>10. CASE Fails \/ Commits
    <2>1. post # None /\ statements' = statements
        BY <1>10 DEF Fails, Commits
    <2>2. PICK m \in Audited : audits' = Append(audits, m) /\ m.phase \in {"FAILED", "COMMITTED"}
        BY <1>10 DEF Fails, Commits
    <2>3. \A q \in Requests : /\ Marked(q, "PENDING")' => Marked(q, "PENDING")
                              /\ Marked(q, "PENDING") => FirstPending(q)' = FirstPending(q)
        <3> TAKE q \in Requests
        <3>1. /\ \A phase \in Phases : Marked(q, phase)' <=>
                    Marked(q, phase) \/ (m.body.request = q /\ m.phase = phase)
              /\ Marked(q, "PENDING") => FirstPending(q)' = FirstPending(q)
            BY <1>1, <2>2, MarkedNext
        <3>2. "PENDING" \in Phases /\ m.phase # "PENDING"
            BY <2>2 DEF Phases
        <3> QED BY <3>1, <3>2
    <2>4. post' # None => post'.body = post.body
        BY <1>1, <1>10, <2>1, MovedPost DEF Fails, Commits
    <2> QED BY <1>3, <2>1, <2>3, <2>4
<1>11. CASE Pends
    <2>1. post # None /\ post.pc = "begin" /\ statements' = statements
        BY <1>11 DEF Pends
    <2>2. PICK m \in Audited : audits' = Append(audits, m) /\ m.phase = "PENDING"
              /\ m.body = post.body
        BY <1>11 DEF Pends
    <2>3. post'.body = post.body
        BY <1>1, <1>11, <2>1, OpenedPost DEF Pends
    <2>4. ASSUME NEW q \in Requests, Marked(q, "PENDING")'
          PROVE  /\ (StatementsOf(q, FirstPending(q).body))'
                 /\ post' # None /\ post'.body.request = q => post'.body = FirstPending(q)'.body
        <3>1. /\ \A phase \in Phases : Marked(q, phase)' <=>
                    Marked(q, phase) \/ (m.body.request = q /\ m.phase = phase)
              /\ Marked(q, "PENDING") => FirstPending(q)' = FirstPending(q)
              /\ ~Marked(q, "PENDING") /\ Marked(q, "PENDING")' => FirstPending(q)' = m
            BY <1>1, <2>2, MarkedNext
        <3>2. CASE Marked(q, "PENDING")
            <4>1. (StatementsOf(q, FirstPending(q).body))'
                BY <1>2, <2>1, <3>1, <3>2, BodySame
            <4> QED BY <1>2, <2>1, <2>3, <3>1, <3>2, <4>1
        <3>3. CASE ~Marked(q, "PENDING")
            <4>1. FirstPending(q)' = m /\ "PENDING" \in Phases
                BY <2>4, <3>1, <3>3 DEF Phases
            <4>2. m.body.request = q
                BY <2>4, <3>1, <3>3, <4>1
            <4>3. Of(q) = {}
                BY <1>1, <2>1, <2>2, <4>2, OnceNow, EarlyFacts
            <4>4. StatementsOf(q, m.body)
                BY <4>3 DEF StatementsOf
            <4>5. (StatementsOf(q, FirstPending(q).body))'
                BY <2>1, <4>1, <4>4, BodySame
            <4> QED BY <2>2, <2>3, <4>1, <4>5
        <3> QED BY <3>2, <3>3
    <2> QED BY <2>4, BodyParts
<1>12. CASE Writes
    <2>1. audits' = audits
        BY <1>12 DEF Writes
    <2>2. PICK st \in Statements : /\ statements' = Append(statements, st)
              /\ \/ /\ post # None /\ st.body = post.body
                    /\ \/ post' = [post EXCEPT !.pc = "blocked"]
                       \/ post' = [post EXCEPT !.pc = "receipt"]
                 \/ /\ post' = None
                    /\ Marked(st.body.request, "PENDING") =>
                         FirstPending(st.body.request).body = st.body
                 \/ st.body.request = None /\ post' = post
        BY <1>12 DEF Writes
    <2>3. /\ statements'[Revision + 1] = st
          /\ \A i \in 1 .. Revision : statements'[i] = statements[i]
        BY <1>1, <2>2, StatementAdded
    <2>4. \A q \in Requests :
             (Of(q))' = IF st.body.request = q THEN Of(q) \cup {Revision + 1} ELSE Of(q)
        BY <1>1, <2>2, StatementAdded
    <2>5. post' # None => post # None /\ post'.body = post.body
        BY <1>1, <2>2, MovedPost
    <2>6. ASSUME NEW q \in Requests, Marked(q, "PENDING")'
          PROVE  /\ (StatementsOf(q, FirstPending(q).body))'
                 /\ post' # None /\ post'.body.request = q => post'.body = FirstPending(q)'.body
        <3>1. Marked(q, "PENDING") /\ FirstPending(q)' = FirstPending(q)
            BY <2>1, <2>6, SameMarks
        <3> PICK b : b = FirstPending(q).body
            OBVIOUS
        <3>2. /\ StatementsOf(q, b) /\ FirstPending(q)'.body = b
              /\ post # None /\ post.body.request = q => post.body = b
            BY <1>2, <3>1
        <3>3. st.body.request = q => st.body = b
            BY <2>2, <3>1, <3>2, ProofReviewAssumption
        <3>4. Of(q) \subseteq 1 .. Revision
            BY <1>1, StatementFacts
        <3>5. \A i \in (Of(q))' : statements'[i].body = b
            BY <2>3, <2>4, <3>2, <3>3, <3>4 DEF StatementsOf
        <3>6. (StatementsOf(q, FirstPending(q).body))'
            BY <3>2, <3>5 DEF StatementsOf
        <3> QED BY <2>5, <3>2, <3>6
    <2> QED BY <2>6, BodyParts
<1> QED BY <1>5, <1>6, <1>7, <1>8, <1>9, <1>10, <1>11, <1>12 DEF Kinds

-----------------------------------------------------------------------------
(* Undisturbed                                                             *)

Agreed(request, side) ==
    \A i \in Of(request) : statements[i].status = "RECORDED" => statements[i].head = side
MarksAgree(request, side) ==
    \/ Marked(request, "FAILED") /\ LastMark(request).head = side /\ side # Unreadable
    \/ Marked(request, "COMMITTED")
Carried(request) == post # None /\ post.body.request = request /\ post.pc \in Underway
Waiting == post # None /\ post.pc \in {"rebuild", "begin", "block", "blocked"}

LEMMA UndisturbedParts ==
    /\ Undisturbed <=>
          /\ \A q \in intact : /\ Marked(q, "PENDING") /\ Agreed(q, sidecar)
                               /\ Carried(q) \/ MarksAgree(q, sidecar)
          /\ Waiting => post.head \in {sidecar, Unreadable} \/ intact = {}
    /\ Undisturbed' <=>
          /\ \A q \in intact' : /\ Marked(q, "PENDING")' /\ (Agreed(q, sidecar))'
                                /\ Carried(q)' \/ (MarksAgree(q, sidecar))'
          /\ Waiting' => post'.head \in {sidecar', Unreadable} \/ intact' = {}
<1>1. Undisturbed <=>
          /\ \A q \in intact : /\ Marked(q, "PENDING") /\ Agreed(q, sidecar)
                               /\ Carried(q) \/ MarksAgree(q, sidecar)
          /\ Waiting => post.head \in {sidecar, Unreadable} \/ intact = {}
    BY DEF Undisturbed, Agreed, Carried, MarksAgree, Waiting
<1>2. Undisturbed' <=>
          /\ \A q \in intact' : /\ Marked(q, "PENDING")' /\ (Agreed(q, sidecar))'
                                /\ Carried(q)' \/ (MarksAgree(q, sidecar))'
          /\ Waiting' => post'.head \in {sidecar', Unreadable} \/ intact' = {}
    BY DEF Undisturbed, Agreed, Carried, MarksAgree, Waiting
<1> QED BY <1>1, <1>2

\* A request that is not in hand keeps what its marks say of the proof, and so
\* does the one that gets another mark with the proof as it is.
LEMMA MarksKept ==
    ASSUME TypeOK, NEW q \in Requests, sidecar' = sidecar,
           NEW m \in Audited, audits' = Append(audits, m),
           \/ m.body.request # q /\ MarksAgree(q, sidecar)
           \/ m.body.request = q /\ m.phase = "FAILED" /\ m.head = sidecar /\ sidecar # Unreadable
           \/ m.body.request = q /\ m.phase = "COMMITTED"
    PROVE  (MarksAgree(q, sidecar))'
<1>1. /\ \A phase \in Phases : Marked(q, phase)' <=>
            Marked(q, phase) \/ (m.body.request = q /\ m.phase = phase)
      /\ m.body.request = q => LastMark(q)' = m
      /\ m.body.request # q /\ Marks(q, Phases) # {} => LastMark(q)' = LastMark(q)
    BY MarkedNext
<1>2. {"FAILED", "COMMITTED"} \subseteq Phases
    BY DEF Phases
<1>3. Marked(q, "FAILED") => Marks(q, Phases) # {}
    BY <1>2 DEF Marked, Marks
<1>4. CASE m.body.request # q /\ MarksAgree(q, sidecar)
    BY <1>1, <1>2, <1>3, <1>4 DEF MarksAgree
<1>5. CASE m.body.request = q /\ m.phase = "FAILED" /\ m.head = sidecar /\ sidecar # Unreadable
    BY <1>1, <1>2, <1>5 DEF MarksAgree
<1>6. CASE m.body.request = q /\ m.phase = "COMMITTED"
    BY <1>1, <1>2, <1>6 DEF MarksAgree
<1> QED BY <1>4, <1>5, <1>6

LEMMA AgreedSame ==
    ASSUME NEW q, statements' = statements, sidecar' = sidecar
    PROVE  (Agreed(q, sidecar))' <=> Agreed(q, sidecar)
<1>1. (Of(q))' = Of(q)
    BY SameStatements
<1> QED BY <1>1 DEF Agreed

LEMMA MarksAgreeSame ==
    ASSUME NEW q, audits' = audits, sidecar' = sidecar
    PROVE  (MarksAgree(q, sidecar))' <=> MarksAgree(q, sidecar)
    BY SameMarks DEF MarksAgree

LEMMA UndisturbedKept ==
    ASSUME IInv, TypeOK', Kinds
    PROVE  Undisturbed'
<1>1. TypeOK /\ OnceInHand /\ intact \subseteq Requests /\ intact' \subseteq Requests
    BY DEF IInv, TypeOK
<1>2. /\ \A q \in intact : /\ Marked(q, "PENDING") /\ Agreed(q, sidecar)
                           /\ Carried(q) \/ MarksAgree(q, sidecar)
      /\ Waiting => post.head \in {sidecar, Unreadable} \/ intact = {}
    BY UndisturbedParts DEF IInv
<1>3. post # None => Relies(post, sidecar, Rows)
    BY CapturedParts DEF IInv
\* Nothing is written, and whoever was in hand and undisturbed still is.
<1>4. ASSUME UNCHANGED Files, intact' \subseteq intact,
             \A q \in intact' : Carried(q) => Carried(q)',
             Waiting' => post'.head \in {sidecar', Unreadable} \/ intact' = {}
      PROVE  Undisturbed'
    <2>1. statements' = statements /\ audits' = audits /\ sidecar' = sidecar
        BY <1>4 DEF Files
    <2>2. ASSUME NEW q \in intact'
          PROVE  /\ Marked(q, "PENDING")' /\ (Agreed(q, sidecar))'
                 /\ Carried(q)' \/ (MarksAgree(q, sidecar))'
        <3>1. /\ Marked(q, "PENDING") /\ Agreed(q, sidecar)
              /\ Carried(q) \/ MarksAgree(q, sidecar)
            BY <1>2, <1>4
        <3>2. Marked(q, "PENDING")'
            BY <2>1, <3>1, SameMarks
        <3>3. (Agreed(q, sidecar))'
            BY <2>1, <3>1, AgreedSame
        <3>4. MarksAgree(q, sidecar) => (MarksAgree(q, sidecar))'
            BY <2>1, MarksAgreeSame
        <3> QED BY <1>4, <3>1, <3>2, <3>3, <3>4
    <2> QED BY <1>4, <2>2, UndisturbedParts
<1>5. CASE Drops
    <2>1. UNCHANGED Files /\ intact' \subseteq intact /\ post' = None
          /\ (post # None /\ post.pc \in Underway => post.body.request \notin intact')
        BY <1>5 DEF Drops
    <2> QED BY <1>4, <2>1 DEF Carried, Waiting
<1>6. CASE Goes
    <2>1. UNCHANGED Files /\ intact' = intact /\ post # None /\ sidecar' = sidecar
        BY <1>6 DEF Goes, Files
    <2>2. CASE post.pc = "rebuild" /\ \E pc \in {"begin", "block"} : post' = [post EXCEPT !.pc = pc]
        <3>1. post' # None => post'.head = post.head
            BY <1>1, <2>1, <2>2, MovedPost
        <3>2. Waiting /\ \A q : ~Carried(q)
            BY <2>1, <2>2 DEF Waiting, Carried, Underway
        <3>3. Waiting' => post'.head \in {sidecar', Unreadable} \/ intact' = {}
            BY <1>2, <2>1, <3>1, <3>2 DEF Waiting
        <3> QED BY <1>4, <2>1, <3>2, <3>3
    <2>3. CASE post.pc # "rebuild"
        <3>1. post' # None => post'.pc \in {"cas", "guard", "locked"} /\ post'.body = post.body
            BY <1>1, <1>6, <2>1, <2>3, MovedPost, LockedPost DEF Goes
        <3>2. post' # None
            <4>1. post \in Hands /\ sidecar \in Heads /\ {"cas", "guard", "locked"} \subseteq PCs
                BY <1>1, <2>1, PostFacts, Parts DEF PCs, Underway
            <4>2. CASE post' = [post EXCEPT !.pc = "cas"] \/ post' = [post EXCEPT !.pc = "guard"]
                <5>1. post' \in Hands
                    BY <4>1, <4>2, HandMoves
                <5> QED BY <5>1, HandFacts
            <4>3. CASE post' = [post EXCEPT !.pc = "locked", !.head = sidecar]
                <5>1. post' \in Hands
                    BY <4>1, <4>3, HandLocks
                <5> QED BY <5>1, HandFacts
            <4> QED BY <1>6, <2>3, <4>2, <4>3 DEF Goes
        <3>3. \A q : Carried(q) => Carried(q)'
            BY <3>1, <3>2 DEF Carried, Underway
        <3>4. ~Waiting'
            BY <3>1 DEF Waiting
        <3> QED BY <1>4, <2>1, <3>3, <3>4
    <2> QED BY <2>2, <2>3, <1>6 DEF Goes
<1>7. CASE Takes
    <2>1. UNCHANGED Files /\ intact' = intact /\ post = None /\ sidecar' = sidecar
          /\ post'.head \in {sidecar, Unreadable}
        BY <1>7 DEF Takes, Files
    <2> QED BY <1>4, <2>1 DEF Carried
<1>8. CASE Rests
    <2>1. UNCHANGED Files /\ intact' = intact /\ post' = post /\ sidecar' = sidecar
        BY <1>8 DEF Rests, Files
    <2>2. Waiting' <=> Waiting
        BY <2>1 DEF Waiting
    <2>3. \A q : Carried(q) => Carried(q)'
        BY <2>1 DEF Carried
    <2> QED BY <1>2, <1>4, <2>1, <2>2, <2>3
\* One more mark, of the post in hand.
<1>9. ASSUME sidecar' = sidecar, statements' = statements, post # None,
             NEW m \in Audited, audits' = Append(audits, m), m.body = post.body,
             intact' \subseteq intact,
             \/ m.phase = "COMMITTED"
             \/ /\ m.phase = "FAILED"
                /\ (m.head = sidecar /\ sidecar # Unreadable) \/ post.body.request \notin intact',
             Waiting' => post'.head \in {sidecar', Unreadable} \/ intact' = {}
      PROVE  Undisturbed'
    <2>1. ASSUME NEW q \in intact'
          PROVE  /\ Marked(q, "PENDING")' /\ (Agreed(q, sidecar))'
                 /\ Carried(q)' \/ (MarksAgree(q, sidecar))'
        <3>1. q \in intact /\ q \in Requests
            BY <1>1, <1>9
        <3>2. /\ Marked(q, "PENDING") /\ Agreed(q, sidecar)
              /\ Carried(q) \/ MarksAgree(q, sidecar)
            BY <1>2, <3>1
        <3>3. /\ \A phase \in Phases : Marked(q, phase)' <=>
                    Marked(q, phase) \/ (m.body.request = q /\ m.phase = phase)
            BY <1>1, <1>9, <3>1, MarkedNext
        <3>4. Marked(q, "PENDING")'
            BY <3>2, <3>3 DEF Phases
        <3>5. (Agreed(q, sidecar))'
            BY <1>9, <3>2, AgreedSame
        <3>6. m.body.request # q => MarksAgree(q, sidecar)
            BY <1>9, <3>2 DEF Carried
        <3>7. (MarksAgree(q, sidecar))'
            BY <1>1, <1>9, <3>1, <3>6, MarksKept
        <3> QED BY <3>4, <3>5, <3>7
    <2> QED BY <1>9, <2>1, UndisturbedParts
<1>10. CASE Fails
    <2>1. sidecar' = sidecar /\ statements' = statements /\ post # None
          /\ intact' \subseteq intact
        BY <1>10 DEF Fails
    <2>2. PICK m \in Audited :
              /\ audits' = Append(audits, m) /\ m.body = post.body /\ m.phase = "FAILED"
              /\ (m.head = sidecar /\ sidecar # Unreadable) \/ post.body.request \notin intact'
        BY <1>10 DEF Fails
    <2>3. Waiting' => post'.head \in {sidecar', Unreadable} \/ intact' = {}
        <3>1. CASE post' = None
            BY <3>1 DEF Waiting
        <3>2. CASE post.pc = "open" /\ sidecar = NoFile /\ post' = [post EXCEPT !.pc = "block"]
            <4>1. post' # None => post'.head = post.head
                BY <1>1, <2>1, <3>2, MovedPost
            <4>2. post.head = NoFile
                BY <1>3, <2>1, <3>2 DEF Relies
            <4> QED BY <2>1, <3>2, <4>1, <4>2 DEF Waiting
        <3> QED BY <1>10, <3>1, <3>2 DEF Fails
    <2> QED BY <1>9, <2>1, <2>2, <2>3
<1>11. CASE Commits
    <2>1. sidecar' = sidecar /\ statements' = statements /\ post # None /\ intact' = intact
          /\ ~Waiting'
        BY <1>11 DEF Commits, Waiting
    <2>2. PICK m \in Audited : /\ audits' = Append(audits, m) /\ m.body = post.body
                               /\ m.phase = "COMMITTED"
        BY <1>11 DEF Commits
    <2> QED BY <1>9, <2>1, <2>2
<1>12. CASE Pends
    <2>1. sidecar' = sidecar /\ statements' = statements /\ post # None /\ post.pc = "begin"
          /\ intact' \subseteq intact \cup {post.body.request}
        BY <1>12 DEF Pends
    <2>2. PICK m \in Audited : /\ audits' = Append(audits, m) /\ m.body = post.body
                               /\ m.phase = "PENDING"
        BY <1>12 DEF Pends
    <2>3. post'.pc = "open" /\ post'.body = post.body /\ post' \in Hands
        <3>1. PICK before \in Histories : post' = [post EXCEPT !.pc = "open", !.before = before]
            BY <1>12 DEF Pends
        <3>2. post \in Hands /\ "open" \in PCs
            BY <1>1, <2>1, PostFacts DEF PCs, Underway
        <3>3. post' \in Hands
            BY <3>1, <3>2, HandOpens
        <3>4. post'.pc = "open" /\ post'.body = post.body
            BY <1>1, <2>1, <3>1, OpenedPost
        <3> QED BY <3>3, <3>4
    <2>4. post' # None
        BY <2>3, HandFacts
    <2>5. ~Waiting'
        BY <2>3 DEF Waiting
    <2>6. ASSUME NEW q \in intact'
          PROVE  /\ Marked(q, "PENDING")' /\ (Agreed(q, sidecar))'
                 /\ Carried(q)' \/ (MarksAgree(q, sidecar))'
        <3>1. q \in Requests
            BY <1>1
        <3>2. \A phase \in Phases : Marked(q, phase)' <=>
                    Marked(q, phase) \/ (m.body.request = q /\ m.phase = phase)
            BY <1>1, <2>2, <3>1, MarkedNext
        <3>3. CASE q = post.body.request
            <4>1. Carried(q)'
                BY <2>3, <2>4, <3>3 DEF Carried, Underway
            <4>2. Marked(q, "PENDING")'
                BY <2>2, <3>2, <3>3 DEF Phases
            <4>3. Of(q) = {}
                BY <1>1, <2>1, <3>3, OnceNow, EarlyFacts
            <4>4. (Agreed(q, sidecar))'
                BY <2>1, <4>3, AgreedSame DEF Agreed
            <4> QED BY <4>1, <4>2, <4>4
        <3>4. CASE q # post.body.request
            <4>1. q \in intact /\ ~Carried(q)
                BY <2>1, <3>4 DEF Carried
            <4>2. Marked(q, "PENDING") /\ Agreed(q, sidecar) /\ MarksAgree(q, sidecar)
                BY <1>2, <4>1
            <4>3. Marked(q, "PENDING")'
                BY <3>2, <4>2 DEF Phases
            <4>4. (Agreed(q, sidecar))'
                BY <2>1, <4>2, AgreedSame
            <4>5. (MarksAgree(q, sidecar))'
                BY <1>1, <2>1, <2>2, <3>1, <3>4, <4>2, MarksKept
            <4> QED BY <4>3, <4>4, <4>5
        <3> QED BY <3>3, <3>4
    <2> QED BY <2>5, <2>6, UndisturbedParts
<1>13. CASE Grows
    <2>1. statements' = statements /\ audits' = audits
        BY <1>13 DEF Grows
    <2>2. CASE /\ post # None /\ post.pc \in {"open", "capture"}
               /\ intact' = (IF sidecar' = sidecar THEN intact ELSE intact \cap {post.body.request})
               /\ post' \in Hands /\ post'.pc = "capture" /\ post'.body = post.body
        <3>1. post' # None
            BY <2>2, HandFacts
        <3>2. ~Waiting' /\ \A q : Carried(q) => Carried(q)'
            BY <2>2, <3>1 DEF Waiting, Carried, Underway
        <3>3. CASE sidecar' = sidecar
            BY <1>4, <2>1, <2>2, <3>2, <3>3 DEF Files
        <3>4. CASE sidecar' # sidecar
            <4>1. ASSUME NEW q \in intact'
                  PROVE  /\ Marked(q, "PENDING")' /\ (Agreed(q, sidecar))'
                         /\ Carried(q)' \/ (MarksAgree(q, sidecar))'
                <5>1. q = post.body.request /\ q \in intact
                    BY <2>2, <3>4
                <5>2. Carried(q)'
                    BY <2>2, <3>1, <5>1 DEF Carried, Underway
                <5>3. Marked(q, "PENDING")'
                    BY <1>2, <2>1, <5>1, SameMarks
                <5>4. Of(q) = {}
                    BY <1>1, <2>2, <5>1, OnceNow, EarlyFacts
                <5>5. (Of(q))' = {}
                    BY <2>1, <5>4, SameStatements
                <5>6. (Agreed(q, sidecar))'
                    BY <5>5 DEF Agreed
                <5> QED BY <5>2, <5>3, <5>6
            <4> QED BY <3>2, <4>1, UndisturbedParts
        <3> QED BY <3>3, <3>4
    <2>3. CASE post' = post /\ intact' = IF sidecar' = sidecar THEN intact ELSE {}
        <3>1. CASE sidecar' = sidecar
            <4>1. UNCHANGED Files /\ intact' = intact
                BY <2>1, <2>3, <3>1 DEF Files
            <4>2. (Waiting' <=> Waiting) /\ \A q : Carried(q) => Carried(q)'
                BY <2>3 DEF Waiting, Carried
            <4> QED BY <1>2, <1>4, <2>3, <3>1, <4>1, <4>2
        <3>2. CASE sidecar' # sidecar
            BY <2>3, <3>2, UndisturbedParts
        <3> QED BY <3>1, <3>2
    <2> QED BY <1>13, <2>2, <2>3 DEF Grows
<1>14. CASE Writes
    <2>1. audits' = audits /\ sidecar' = sidecar /\ intact' = intact
        BY <1>14 DEF Writes
    <2>2. PICK st \in Statements : /\ statements' = Append(statements, st)
              /\ \/ /\ post # None /\ st.body = post.body
                    /\ \/ /\ post.pc = "block" /\ st.status = "BLOCKED"
                          /\ post' = [post EXCEPT !.pc = "blocked"]
                       \/ /\ post.pc = "locked" /\ st.head = post.head
                          /\ post' = [post EXCEPT !.pc = "receipt"]
                 \/ /\ post = None /\ post' = None /\ st.body.action = "REVIEW"
                    /\ Marked(st.body.request, "PENDING") =>
                         FirstPending(st.body.request).body = st.body
                 \/ st.body.request = None /\ post' = post
        BY <1>14 DEF Writes
    <2>3. /\ statements'[Revision + 1] = st
          /\ \A i \in 1 .. Revision : statements'[i] = statements[i]
        BY <1>1, <2>2, StatementAdded
    <2>4. \A q \in Requests :
             (Of(q))' = IF st.body.request = q THEN Of(q) \cup {Revision + 1} ELSE Of(q)
        BY <1>1, <2>2, StatementAdded
    <2>5. \A q : Carried(q) => Carried(q)'
        <3>1. CASE post # None /\ post.pc = "block"
            BY <3>1 DEF Carried, Underway
        <3>2. CASE post # None /\ post' = [post EXCEPT !.pc = "receipt"]
            <4>1. post' \in Hands
                BY <1>1, <3>2, PostFacts, HandMoves DEF PCs, Underway
            <4>2. post' # None
                BY <4>1, HandFacts
            <4> QED BY <1>1, <3>2, <4>2, MovedPost DEF Carried, Underway
        <3>3. CASE post = None \/ post' = post
            BY <3>3 DEF Carried
        <3> QED BY <2>2, <3>1, <3>2, <3>3
    <2>6. Waiting' => post'.head \in {sidecar', Unreadable} \/ intact' = {}
        <3>1. CASE post # None /\ post.pc = "block" /\ post' = [post EXCEPT !.pc = "blocked"]
            <4>1. post' # None => post'.head = post.head
                BY <1>1, <3>1, MovedPost
            <4> QED BY <1>2, <2>1, <3>1, <4>1 DEF Waiting
        <3>2. CASE post # None /\ post' = [post EXCEPT !.pc = "receipt"]
            BY <1>1, <3>2, MovedPost DEF Waiting
        <3>3. CASE post' = None \/ post' = post
            BY <1>2, <2>1, <3>3 DEF Waiting
        <3> QED BY <2>2, <3>1, <3>2, <3>3
    <2>7. ASSUME NEW q \in intact'
          PROVE  /\ Marked(q, "PENDING")' /\ (Agreed(q, sidecar))'
                 /\ Carried(q)' \/ (MarksAgree(q, sidecar))'
        <3>1. q \in intact /\ q \in Requests /\ q # None
            BY <1>1, <2>1, ProofReviewAssumption
        <3>2. /\ Marked(q, "PENDING") /\ Agreed(q, sidecar)
              /\ Carried(q) \/ MarksAgree(q, sidecar)
            BY <1>2, <3>1
        <3>3. Marked(q, "PENDING")'
            BY <2>1, <3>2, SameMarks
        <3>4. MarksAgree(q, sidecar) => (MarksAgree(q, sidecar))'
            BY <2>1, MarksAgreeSame
        <3>5. st.body.request = q /\ st.status = "RECORDED" => st.head = sidecar
            <4> SUFFICES ASSUME st.body.request = q, st.status = "RECORDED" PROVE st.head = sidecar
                OBVIOUS
            <4>1. CASE post # None /\ post.pc = "locked" /\ st.head = post.head
                BY <1>3, <4>1 DEF Relies
            <4>2. CASE st.body.action = "REVIEW" /\ (Marked(q, "PENDING") =>
                                                       FirstPending(q).body = st.body)
                <5>1. FirstPending(q).body \in Continues
                    BY <1>1, <3>1, <3>2, MarkFacts
                <5> QED BY <3>2, <4>2, <5>1, ContinueFacts
            <4> QED BY <2>2, <3>1, <4>1, <4>2
        <3>6. Of(q) \subseteq 1 .. Revision
            BY <1>1, StatementFacts
        <3>7. \A i \in (Of(q))' : statements'[i].status = "RECORDED" => statements'[i].head = sidecar
            BY <2>3, <2>4, <3>1, <3>2, <3>5, <3>6 DEF Agreed
        <3>8. (Agreed(q, sidecar))'
            BY <2>1, <3>7 DEF Agreed
        <3> QED BY <2>5, <3>2, <3>3, <3>4, <3>8
    <2> QED BY <2>6, <2>7, UndisturbedParts
<1>15. CASE Creates
    <2>1. /\ statements' = statements /\ audits' = audits /\ post' = post /\ post # None
          /\ post.pc = "open" /\ intact' = intact \cap {post.body.request}
        BY <1>15 DEF Creates
    <2>2. ~Waiting'
        BY <2>1 DEF Waiting
    <2>3. ASSUME NEW q \in intact'
          PROVE  /\ Marked(q, "PENDING")' /\ (Agreed(q, sidecar))'
                 /\ Carried(q)' \/ (MarksAgree(q, sidecar))'
        <3>1. q = post.body.request /\ q \in intact
            BY <2>1
        <3>2. Carried(q)'
            BY <2>1, <3>1 DEF Carried, Underway
        <3>3. Marked(q, "PENDING")'
            BY <1>2, <2>1, <3>1, SameMarks
        <3>4. Of(q) = {}
            BY <1>1, <2>1, <3>1, OnceNow, EarlyFacts
        <3>5. (Of(q))' = {}
            BY <2>1, <3>4, SameStatements
        <3>6. (Agreed(q, sidecar))'
            BY <3>5 DEF Agreed
        <3> QED BY <3>2, <3>3, <3>6
    <2> QED BY <2>2, <2>3, UndisturbedParts
<1> QED BY <1>5, <1>6, <1>7, <1>8, <1>10, <1>11, <1>12, <1>13, <1>14, <1>15 DEF Kinds

-----------------------------------------------------------------------------
(* The invariant.                                                          *)

LEMMA InitHolds ==
    ASSUME Init
    PROVE  IInv
<1>1. TypeOK
    <2>1. NoFile \in Heads /\ <<>> \in Seq(Statements)
          /\ <<>> \in Seq([body : Continues, phase : Phases, head : Heads])
        BY DEF Heads
    <2>2. [what \in Bounds |-> 0] \in [Bounds -> Nat]
        OBVIOUS
    <2> QED BY <2>1, <2>2 DEF Init, TypeOK
<1>2. Revision = 0 /\ \A q : Of(q) = {}
    BY DEF Init, Revision, Of
<1>3. \A q, phases : Marks(q, phases) = {}
    BY DEF Init, Marks
<1>4. OneCommitment
    <2>1. Cardinality({}) = 0
        BY FS_EmptySet
    <2>2. Chain
        <3>1. \A i \in 1 .. 0 : FALSE
            OBVIOUS
        <3> QED BY <1>2, <3>1 DEF Chain
    <2>3. ASSUME NEW q \in Requests PROVE Honest(q)
        <3>1. Of(q) = {} /\ Marks(q, {"COMMITTED"}) = {} /\ told = {}
            BY <1>2, <1>3 DEF Init
        <3> QED BY <2>1, <3>1 DEF Honest
    <2> QED BY <2>2, <2>3, CommitmentParts
<1>5. OnceInHand /\ Captured /\ Undisturbed
    BY DEF Init, OnceInHand, Captured, Undisturbed
<1>6. OneBody
    BY <1>3 DEF OneBody, Marked
<1> QED BY <1>1, <1>4, <1>5, <1>6 DEF IInv

\* The journal's commitments and the proof behind them, under every order of
\* posts, failures, repairs, restarts and writes by others.
THEOREM InvariantHolds == Spec => []IInv
<1>1. Init => IInv
    BY InitHolds
<1>2. IInv /\ [Next]_vars => IInv'
    <2> SUFFICES ASSUME IInv, [Next]_vars PROVE IInv'
        OBVIOUS
    <2>1. TypeOK' /\ Kinds
        BY NextKind
    <2>2. OneCommitment' /\ OnceInHand' /\ Captured' /\ OneBody' /\ Undisturbed'
        BY <2>1, CommitmentKept, OnceKept, CapturedKept, BodyKept, UndisturbedKept
    <2> QED BY <2>1, <2>2 DEF IInv
<1> QED BY <1>1, <1>2, PTL DEF Spec

\* The journal is a chain, and a request is committed at most once, on the
\* statement recorded for it (the statement and the marks that _continue and
\* _post of TaskReviewService write).
THEOREM CommittedOnce == Spec => []OneCommitment
<1>1. IInv => OneCommitment
    BY DEF IInv
<1> QED BY <1>1, InvariantHolds, PTL

\* Every proof a step needs is there while the write transaction is held, and is
\* the one the post carries.
THEOREM ProofHeldInGuard == Spec => [](Locked => sidecar = post.head /\ Proved(sidecar, post.body.step))
<1>1. IInv => (Locked => sidecar = post.head /\ Proved(sidecar, post.body.step))
    BY DEF IInv, Captured, Locked, At
<1> QED BY <1>1, InvariantHolds, PTL

\* What a request undisturbed since its pending mark says is enough for admission
\* and for repair.
LEMMA Retried ==
    ASSUME IInv, post = None, Available, NEW request \in intact
    PROVE  LET pending == FirstPending(request)
               body == pending.body
               capability == [revision |-> body.expected, head |-> pending.head]
           IN capability \in issued =>
               /\ Of(request) = {} /\ Revision = body.expected =>
                     sidecar # Unreadable /\ Admitted(body, capability, sidecar)
               /\ (\E i \in Of(request) : statements[i].status = "RECORDED")
                    /\ ~Marked(request, "COMMITTED") => MayRepair(body, capability, sidecar)
<1> PICK pending : pending = FirstPending(request)
    OBVIOUS
<1> PICK body : body = pending.body
    OBVIOUS
<1> DEFINE capability == [revision |-> body.expected, head |-> pending.head]
<1>1. TypeOK /\ request \in Requests /\ Honest(request)
    BY CommitmentParts DEF IInv, TypeOK
<1>2. /\ Marked(request, "PENDING") /\ Agreed(request, sidecar)
      /\ MarksAgree(request, sidecar)
    BY UndisturbedParts DEF IInv, Carried
<1>3. /\ pending \in Audited /\ body \in Continues /\ body.request = request
      /\ Min(Marks(request, {"PENDING"})) \in Marks(request, {"PENDING"})
      /\ pending = audits[Min(Marks(request, {"PENDING"}))]
    BY <1>1, <1>2, MarkFacts DEF FirstPending
<1>4. body.action = "CONTINUE" /\ capability.revision = body.expected
      /\ capability.head = pending.head
    BY <1>3, ContinueFacts
<1>5. StatementsOf(request, body)
    BY <1>1, <1>2, BodyParts DEF IInv
<1>6. ASSUME Of(request) = {}, Revision = body.expected
      PROVE  sidecar # Unreadable /\ Admitted(body, capability, sidecar)
    <2>1. ~Marked(request, "COMMITTED")
        BY <1>1, <1>6, Unrecorded
    <2>2. Marked(request, "FAILED") /\ LastMark(request).head = sidecar
          /\ sidecar # Unreadable
        BY <1>2, <2>1 DEF MarksAgree
    <2>3. Recovers(body, capability, sidecar)
        BY <1>2, <1>3, <1>4, <1>6, <2>2 DEF Recovers
    <2> QED BY <1>3, <1>6, <2>2, <2>3 DEF Admitted
<1>7. ASSUME NEW i \in Of(request), statements[i].status = "RECORDED",
             ~Marked(request, "COMMITTED")
      PROVE  MayRepair(body, capability, sidecar)
    <2>1. statements[i].body = body /\ statements[i].head = sidecar
        BY <1>2, <1>5, <1>7 DEF Agreed, StatementsOf
    <2>2. \E k \in Marks(request, {"PENDING"}) :
              capability = [revision |-> body.expected, head |-> audits[k].head]
        BY <1>3
    <2> QED BY <1>3, <1>4, <1>7, <2>1, <2>2 DEF MayRepair, Again
<1> QED BY <1>6, <1>7

\* A post that failed here, marked with the proof as it was, and that nobody
\* disturbed since is accepted again as it was sent, on a sidecar that has its
\* tables, or its missing mark is repaired (_post's recovery and repair).  What
\* ended without a mark, or with one that could not read the proof, is not
\* among the requests of `intact`.
THEOREM RetriesAreHonoured == Spec => []RetryHonoured
<1>1. IInv => RetryHonoured
    <2> SUFFICES ASSUME IInv, post = None, Available, NEW request \in intact
                 PROVE LET pending == FirstPending(request)
                           body == pending.body
                           capability == [revision |-> body.expected, head |-> pending.head]
                       IN capability \in issued =>
                           /\ Of(request) = {} /\ Revision = body.expected =>
                                 sidecar # Unreadable /\ Admitted(body, capability, sidecar)
                           /\ (\E i \in Of(request) : statements[i].status = "RECORDED")
                                /\ ~Marked(request, "COMMITTED") => MayRepair(body, capability, sidecar)
        BY DEF RetryHonoured
    <2> QED BY Retried
<1> QED BY <1>1, InvariantHolds, PTL

OnLiveProof ==
    \A i \in Revision + 1 .. Len(statements)' :
        LET s == statements'[i] IN
        s.body.action = "CONTINUE" /\ s.status = "RECORDED" =>
            s.head = sidecar' /\ Proved(sidecar', s.body.step)

\* Only the post that holds the write transaction records a CONTINUE.
LEMMA RecordedOnProof ==
    ASSUME IInv, [Next]_vars
    PROVE  OnLiveProof
<1>1. TypeOK /\ Kinds /\ (post # None => Relies(post, sidecar, Rows))
    BY NextKind, CapturedParts DEF IInv
<1>2. Revision \in Nat /\ Revision = Len(statements)
    BY <1>1, StatementFacts DEF Revision
<1>3. CASE statements' = statements
    BY <1>2, <1>3 DEF OnLiveProof
<1>4. CASE Writes
    <2>1. sidecar' = sidecar
        BY <1>4 DEF Writes
    <2>2. PICK st \in Statements : /\ statements' = Append(statements, st)
              /\ \/ /\ post # None /\ st.body = post.body /\ post.pc = "locked"
                    /\ st.head = post.head
                 \/ st.status = "BLOCKED" \/ st.body.action = "REVIEW"
        BY <1>4 DEF Writes
    <2>3. Revision' = Revision + 1 /\ statements'[Revision + 1] = st
        BY <1>1, <2>2, StatementAdded
    <2>4. ASSUME st.body.action = "CONTINUE", st.status = "RECORDED"
          PROVE  st.head = sidecar /\ Proved(sidecar, st.body.step)
        BY <1>1, <2>2, <2>4 DEF Relies
    <2>5. Len(statements') = Revision + 1
        BY <2>3 DEF Revision
    <2>6. ASSUME NEW i \in Revision + 1 .. Len(statements') PROVE statements'[i] = st
        <3>1. i = Revision + 1
            BY <1>2, <2>5, <2>6
        <3> QED BY <2>3, <3>1
    <2> QED BY <2>1, <2>4, <2>6 DEF OnLiveProof
<1> QED BY <1>1, <1>3, <1>4
    DEF Kinds, Drops, Fails, Goes, Pends, Commits, Creates, Grows, Takes, Rests, Files

\* A CONTINUE statement is recorded only on a proof that is alive as it is
\* recorded (the guard of TaskReviewService._continue).
THEOREM ReceiptsRestOnProof == Spec => ReceiptOnLiveProof
<1>1. IInv /\ [Next]_vars =>
        [\A i \in Revision + 1 .. Len(statements)' :
            LET s == statements'[i] IN
            s.body.action = "CONTINUE" /\ s.status = "RECORDED" =>
                s.head = sidecar' /\ Proved(sidecar', s.body.step)]_vars
    BY RecordedOnProof DEF OnLiveProof
<1> QED BY <1>1, InvariantHolds, PTL DEF Spec, ReceiptOnLiveProof

=============================================================================
