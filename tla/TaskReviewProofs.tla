--------------------------- MODULE TaskReviewProofs ---------------------------
(***************************************************************************)
(* Proofs about TaskReview, for every set of proposals, fields, values and  *)
(* bounds.  A request that is granted is one transaction: it appends an     *)
(* audit to one task, with the event of the columns it changed, claims or   *)
(* releases one candidate, and merges record what they did.  The lemmas     *)
(* follow these four logs one by one; the inductive invariant says how they *)
(* fit together, so that an undo finds what it goes back to.                *)
(***************************************************************************)
EXTENDS TaskReview, SequenceTheorems, FiniteSetTheorems, NaturalsInduction,
        WellFoundedInduction, TLAPS

-----------------------------------------------------------------------------
(* Sequences that grow.                                                    *)

LEMMA Appended ==
    ASSUME NEW S, NEW s \in Seq(S), NEW x \in S
    PROVE  /\ Append(s, x) \in Seq(S) /\ Append(s, x) # <<>>
           /\ Len(Append(s, x)) = Len(s) + 1 /\ Len(s) \in Nat
           /\ DOMAIN Append(s, x) = DOMAIN s \cup {Len(s) + 1}
           /\ DOMAIN s = 1..Len(s)
           /\ Append(s, x)[Len(s) + 1] = x
           /\ \A i \in DOMAIN s : Append(s, x)[i] = s[i]
           /\ Last(Append(s, x)) = x
    BY DEF Last

LEMMA LastIsIn ==
    ASSUME NEW S, NEW s \in Seq(S), s # <<>>
    PROVE  Last(s) \in S /\ Len(s) \in DOMAIN s /\ Len(s) \in Nat /\ Len(s) >= 1
    BY DEF Last

LEMMA TwoAppended ==
    ASSUME NEW S, NEW s \in Seq(S), NEW x \in S, NEW y \in S
    PROVE  s \o <<x>> = Append(s, x) /\ s \o <<x, y>> = Append(Append(s, x), y)
    OBVIOUS

-----------------------------------------------------------------------------
(* Types of the parts.                                                     *)

LEMMA ProposalFacts ==
    ASSUME NEW p \in Proposals
    PROVE  /\ IdOf(p) \in Ids /\ SourceOf(p) \in Sources /\ VersionOf(p) \in Versions
           /\ Proposed[p].values \in [Fields -> Values]
    BY ReviewAssumption DEF Ids, IdOf, Sources, SourceOf, Versions, VersionOf

LEMMA FingerprintType ==
    ASSUME TypeOK, NEW p \in Listed
    PROVE  /\ p \in Proposals /\ Fingerprint(p) \in Fingerprints
           /\ Fingerprint(p).of = p /\ Current(Fingerprint(p))
<1>1. p \in Proposals /\ Listed \subseteq Proposals
    BY DEF Listed, TypeOK
<1>2. catalogue[SourceOf(p)].epoch \in 0..MaxEpoch
    BY <1>1, ProposalFacts DEF TypeOK
<1>3. Fingerprint(p) \in Fingerprints /\ Fingerprint(p).of = p
    BY <1>1, <1>2 DEF Fingerprint, Fingerprints
<1> QED BY <1>1, <1>3 DEF Current

LEMMA FingerprintFields ==
    ASSUME NEW fp \in Fingerprints
    PROVE  fp.of \in Proposals /\ IdOf(fp.of) \in Ids
    BY ProposalFacts DEF Fingerprints

LEMMA AuditFields ==
    ASSUME NEW a \in AuditRecords
    PROVE  /\ a.fp \in Fingerprints /\ a.values \in [Fields -> Values]
           /\ a.sources \in [Fields -> Origin] /\ a.events \in SUBSET (1..MaxEvents)
           /\ a.status \in {"approved", "needs_review", "invalidated"}
           /\ a.by \in {"human", "system"}
           /\ \A f \in Fields : /\ a.sources[f].fp \in Fingerprints
                                /\ a.sources[f].origin \in {"source", "human"}
<1>1. /\ a.fp \in Fingerprints /\ a.values \in [Fields -> Values]
      /\ a.sources \in [Fields -> Origin] /\ a.events \in SUBSET (1..MaxEvents)
      /\ a.status \in {"approved", "needs_review", "invalidated"}
      /\ a.by \in {"human", "system"}
    BY DEF AuditRecords
<1> QED BY <1>1 DEF Origin

LEMMA RowFields ==
    ASSUME NEW r \in TaskRows
    PROVE  /\ r \in Rows /\ ValuesIn(r) \in [Fields -> Values]
           /\ \A f \in Fields : ValuesIn(r)[f] = r[f] /\ r[f] \in Values
           /\ r["status"] \in Statuses /\ \A c \in Columns : r[c] \in Values \cup Statuses
    BY DEF TaskRows, Rows, ValuesIn, Columns

\* What the type invariant says of a task that was created.
LEMMA TaskFacts ==
    ASSUME TypeOK, NEW t \in Tasks, Created(t)
    PROVE  /\ row[t] \in TaskRows /\ reviews[t] \in Seq(AuditRecords)
           /\ Latest(t) \in AuditRecords /\ Len(reviews[t]) \in DOMAIN reviews[t]
           /\ Latest(t) = reviews[t][Len(reviews[t])]
           /\ Verdict(Latest(t))
<1>1. row[t] \in TaskRows /\ reviews[t] \in Seq(AuditRecords) /\ reviews[t] # <<>>
    BY DEF TypeOK, Created
<1>2. Latest(t) \in AuditRecords /\ Len(reviews[t]) \in DOMAIN reviews[t]
    BY <1>1, LastIsIn DEF Latest
<1> QED BY <1>1, <1>2 DEF TypeOK, Latest, Last

\* A candidate's latest assignment.
LEMMA TipFacts ==
    ASSUME TypeOK, NEW i \in Ids, claims[i] # <<>>
    PROVE  Tip(i) \in ClaimRecords /\ Len(claims[i]) \in Nat
           /\ Tip(i).op \in {"claim", "release"} /\ Tip(i).task \in 0..MaxTasks
           /\ Tip(i).action \in {"create", "merge", "reject"} /\ Tip(i).fp \in Fingerprints
<1>1. Tip(i) \in ClaimRecords /\ Len(claims[i]) \in Nat
    BY LastIsIn DEF TypeOK, Tip
<1> QED BY <1>1 DEF ClaimRecords

-----------------------------------------------------------------------------
(* The bound on audits.                                                    *)

Pairs(R) == UNION {{t} \X DOMAIN R[t] : t \in Tasks}

LEMMA PairsFinite ==
    ASSUME NEW R \in [Tasks -> Seq(AuditRecords)]
    PROVE  IsFiniteSet(Pairs(R)) /\ Cardinality(Pairs(R)) \in Nat
<1>1. IsFiniteSet(Tasks)
    BY FS_Interval, ReviewAssumption DEF Tasks
<1>2. ASSUME NEW t \in Tasks PROVE IsFiniteSet({t} \X DOMAIN R[t])
    <2>1. DOMAIN R[t] = 1..Len(R[t]) /\ Len(R[t]) \in Nat
        OBVIOUS
    <2>2. IsFiniteSet(DOMAIN R[t])
        BY <2>1, FS_Interval
    <2>3. IsFiniteSet({t})
        BY FS_Singleton
    <2> QED BY <2>2, <2>3, FS_Product
<1> DEFINE f == [t \in Tasks |-> {t} \X DOMAIN R[t]]
           SS == {f[t] : t \in Tasks}
<1>3. IsFiniteSet(SS)
    <2>1. f \in Surjection(Tasks, SS)
        BY DEF Surjection
    <2> QED BY <1>1, <2>1, FS_Surjection
<1>4. \A T \in SS : IsFiniteSet(T)
    BY <1>2
<1>5. Pairs(R) = UNION SS
    BY DEF Pairs
<1>6. IsFiniteSet(UNION SS)
    <2> HIDE DEF SS
    <2> QED BY <1>3, <1>4, FS_UNION
<1> QED BY <1>5, <1>6, FS_CardinalityType

\* One more audit of one task.
LEMMA OneMorePair ==
    ASSUME NEW R \in [Tasks -> Seq(AuditRecords)], NEW t \in Tasks, NEW x \in AuditRecords
    PROVE  /\ [R EXCEPT ![t] = Append(@, x)] \in [Tasks -> Seq(AuditRecords)]
           /\ Cardinality(Pairs([R EXCEPT ![t] = Append(@, x)])) = Cardinality(Pairs(R)) + 1
<1> DEFINE R2 == [R EXCEPT ![t] = Append(@, x)]
           n == Len(R[t]) + 1
<1>1. R2 \in [Tasks -> Seq(AuditRecords)]
    OBVIOUS
<1>2. DOMAIN R2[t] = DOMAIN R[t] \cup {n} /\ n \notin DOMAIN R[t]
    BY Appended
<1>3. \A u \in Tasks \ {t} : R2[u] = R[u]
    OBVIOUS
<1> HIDE DEF R2, n
<1>4. Pairs(R2) = Pairs(R) \cup {<<t, n>>}
    <2>1. ASSUME NEW z PROVE z \in Pairs(R2) <=> z \in Pairs(R) \/ z = <<t, n>>
        BY <1>2, <1>3 DEF Pairs
    <2> QED BY <2>1
<1>5. <<t, n>> \notin Pairs(R)
    BY <1>2 DEF Pairs
<1>6. IsFiniteSet(Pairs(R)) /\ Cardinality(Pairs(R)) \in Nat
    BY PairsFinite
<1>7. Cardinality(Pairs(R2)) = Cardinality(Pairs(R)) + 1
    BY <1>4, <1>5, <1>6, FS_AddElement
<1> QED BY <1>1, <1>7 DEF R2

-----------------------------------------------------------------------------
(* One transaction of one task.                                            *)

\* The event that a new row appends, if it differs.
LEMMA LogGrows ==
    ASSUME TypeOK, NEW t \in Tasks, NEW new \in TaskRows, Len(events[t]) < MaxEvents
    PROVE  /\ WithEvents(t, new) \in Seq(Entries) /\ Len(WithEvents(t, new)) <= MaxEvents
           /\ DOMAIN events[t] \subseteq DOMAIN WithEvents(t, new)
           /\ DOMAIN WithEvents(t, new) \subseteq 1..MaxEvents
           /\ \A e \in DOMAIN events[t] : WithEvents(t, new)[e] = events[t][e]
           /\ NewEvents(t, new) \in SUBSET (1..MaxEvents)
           /\ NewEvents(t, new) \subseteq DOMAIN WithEvents(t, new)
           /\ NewEvents(t, new) \cap DOMAIN events[t] = {}
           /\ \A e \in NewEvents(t, new) :
                 /\ DOMAIN WithEvents(t, new)[e] = ChangedColumns(row[t], new)
                 /\ \A c \in ChangedColumns(row[t], new) :
                       /\ WithEvents(t, new)[e][c].old = row[t][c]
                       /\ WithEvents(t, new)[e][c].new = new[c]
           /\ ChangedColumns(row[t], new) # {} => NewEvents(t, new) # {}
<1> DEFINE S == ChangedColumns(row[t], new)
           entry == [c \in S |-> [old |-> row[t][c], new |-> new[c]]]
           n == Len(events[t]) + 1
<1>1. events[t] \in Seq(Entries) /\ Len(events[t]) \in Nat /\ n \in 1..MaxEvents
      /\ DOMAIN events[t] = 1..Len(events[t])
    BY ReviewAssumption DEF TypeOK
<1>2. entry \in Entries
    <2>1. S \in SUBSET Columns
        BY DEF ChangedColumns
    <2>2. \A c \in S : row[t][c] \in Values \cup Statuses \cup {"none"} /\ new[c] \in Values \cup Statuses
        BY <2>1, RowFields DEF TypeOK, Rows
    <2>3. entry \in [S -> [old : Values \cup Statuses \cup {"none"}, new : Values \cup Statuses]]
        BY <2>2
    <2> QED BY <2>1, <2>3 DEF Entries
<1>3. DOMAIN entry = S /\ \A c \in S : entry[c].old = row[t][c] /\ entry[c].new = new[c]
    OBVIOUS
<1>4. WithEvents(t, new) = IF S = {} THEN events[t] ELSE Append(events[t], entry)
    BY DEF WithEvents
<1> HIDE DEF entry, S
<1>5. CASE S = {}
    <2>1. WithEvents(t, new) = events[t] /\ NewEvents(t, new) = {}
        BY <1>4, <1>5 DEF NewEvents
    <2> QED BY <1>1, <1>5, <2>1, ReviewAssumption DEF S
<1>6. CASE S # {}
    <2>1. /\ Append(events[t], entry) \in Seq(Entries)
          /\ Len(Append(events[t], entry)) = n
          /\ DOMAIN Append(events[t], entry) = DOMAIN events[t] \cup {n}
          /\ Append(events[t], entry)[n] = entry
          /\ \A e \in DOMAIN events[t] : Append(events[t], entry)[e] = events[t][e]
        BY <1>1, <1>2, Appended
    <2>2. WithEvents(t, new) = Append(events[t], entry)
        BY <1>4, <1>6
    <2>3. n \notin DOMAIN events[t] /\ NewEvents(t, new) = {n}
        BY <1>1, <2>1, <2>2 DEF NewEvents
    <2>4. DOMAIN events[t] \subseteq 1..MaxEvents /\ n <= MaxEvents
        BY <1>1, ReviewAssumption
    <2> HIDE DEF n
    <2> QED BY <1>1, <1>3, <2>1, <2>2, <2>3, <2>4 DEF S
<1> QED BY <1>5, <1>6

\* A transaction keeps the types of the tables, whatever it appends.
LEMMA TypeTransaction ==
    ASSUME TypeOK, NEW t \in Tasks, NEW new \in TaskRows, Len(events[t]) < MaxEvents,
           Write(t, new),
           NEW seq \in Seq(AuditRecords), seq # <<>>, reviews' = [reviews EXCEPT ![t] = seq],
           \A a \in DOMAIN seq : Verdict(seq[a]) /\ seq[a].events \subseteq DOMAIN WithEvents(t, new),
           Audits' <= MaxReviews, claims' \in [Ids -> Seq(ClaimRecords)],
           merges' \in [Tasks -> Seq(Operations)], \A u \in Tasks \ {t} : merges'[u] = merges[u],
           UNCHANGED <<catalogue, published>>, HoldTypeOK'
    PROVE  TypeOK'
<1> DEFINE log == WithEvents(t, new)
<1>1. log \in Seq(Entries) /\ Len(log) <= MaxEvents
    BY LogGrows
<1>2. /\ row' = [row EXCEPT ![t] = new] /\ events' = [events EXCEPT ![t] = log]
      /\ row \in [Tasks -> Rows] /\ events \in [Tasks -> Seq(Entries)]
      /\ reviews \in [Tasks -> Seq(AuditRecords)]
    BY DEF Write, TypeOK
<1> HIDE DEF log
<1>3. /\ row' \in [Tasks -> Rows] /\ events' \in [Tasks -> Seq(Entries)]
      /\ reviews' \in [Tasks -> Seq(AuditRecords)]
    BY <1>1, <1>2, RowFields
<1>4. ASSUME NEW u \in Tasks
      PROVE  /\ Len(events'[u]) <= MaxEvents
             /\ \A a \in DOMAIN reviews'[u] :
                   Verdict(reviews'[u][a]) /\ reviews'[u][a].events \subseteq DOMAIN events'[u]
             /\ Created(u)' => row'[u] \in TaskRows
             /\ ~Created(u)' => row'[u] = NoTask /\ events'[u] = <<>> /\ merges'[u] = <<>>
    <2>1. CASE u = t
        <3>1. reviews'[t] = seq /\ events'[t] = log /\ row'[t] = new
            BY <1>2
        <3> QED BY <1>1, <2>1, <3>1 DEF Created, log
    <2>2. CASE u # t
        <3>1. reviews'[u] = reviews[u] /\ events'[u] = events[u] /\ row'[u] = row[u]
              /\ merges'[u] = merges[u]
            BY <1>2, <2>2
        <3> QED BY <2>2, <3>1 DEF Created, TypeOK
    <2> QED BY <2>1, <2>2
<1> QED BY <1>3, <1>4 DEF TypeOK

\* What a transaction records: an audit that says what the row became, lists
\* the event of the change and names sources that said so.
Booked(t, new, audit) ==
    /\ new \in TaskRows /\ audit \in AuditRecords /\ Verdict(audit)
    /\ audit.values = ValuesIn(new) /\ audit.events = NewEvents(t, new)
    /\ Truthful(audit.sources, new)

LEMMA WithdrawnFields ==
    ASSUME NEW audit \in AuditRecords
    PROVE  /\ Withdrawn(audit) \in AuditRecords /\ Verdict(Withdrawn(audit))
           /\ Withdrawn(audit).fp = audit.fp /\ Withdrawn(audit).values = audit.values
           /\ Withdrawn(audit).sources = audit.sources /\ Withdrawn(audit).events = {}
           /\ Withdrawn(audit).status = "needs_review"
<1> DEFINE w == [audit EXCEPT !.action = "needs_review", !.status = "needs_review",
                              !.events = {}, !.by = "system"]
<1>1. w \in AuditRecords
    BY DEF AuditRecords
<1>2. /\ w.fp = audit.fp /\ w.values = audit.values /\ w.sources = audit.sources
      /\ w.events = {} /\ w.status = "needs_review" /\ w.action = "needs_review"
    BY DEF AuditRecords
<1>3. Withdrawn(audit) = w
    BY DEF Withdrawn
<1> HIDE DEF w
<1> QED BY <1>1, <1>2, <1>3 DEF Verdict

\* The number of audits after one, or two, of one task.
LEMMA AuditsGrow ==
    ASSUME TypeOK, NEW t \in Tasks, NEW x \in AuditRecords, NEW y \in AuditRecords
    PROVE  /\ Audits \in Nat
           /\ reviews' = [reviews EXCEPT ![t] = Append(@, x)] => Audits' = Audits + 1
           /\ reviews' = [reviews EXCEPT ![t] = Append(Append(@, x), y)] => Audits' = Audits + 2
<1> DEFINE R1 == [reviews EXCEPT ![t] = Append(@, x)]
           R2 == [R1 EXCEPT ![t] = Append(@, y)]
<1>1. reviews \in [Tasks -> Seq(AuditRecords)]
    BY DEF TypeOK
<1>2. R1 \in [Tasks -> Seq(AuditRecords)] /\ Cardinality(Pairs(R1)) = Cardinality(Pairs(reviews)) + 1
    BY <1>1, OneMorePair
<1>3. Cardinality(Pairs(R2)) = Cardinality(Pairs(R1)) + 1
    <2> HIDE DEF R1
    <2> QED BY <1>2, OneMorePair
<1>4. Cardinality(Pairs(reviews)) \in Nat
    BY <1>1, PairsFinite
<1>5. R2 = [reviews EXCEPT ![t] = Append(Append(@, x), y)]
    BY <1>1
<1>6. Audits = Cardinality(Pairs(reviews)) /\ Audits' = Cardinality(Pairs(reviews'))
    BY DEF Audits, Pairs
<1>7. R1 = [reviews EXCEPT ![t] = Append(@, x)]
    OBVIOUS
<1> HIDE DEF R1, R2
<1>8. ASSUME reviews' = R1 PROVE Audits' = Audits + 1
    BY <1>2, <1>6, <1>8
<1>9. ASSUME reviews' = R2 PROVE Audits' = Audits + 2
    BY <1>2, <1>3, <1>4, <1>6, <1>9
<1> QED BY <1>4, <1>5, <1>6, <1>7, <1>8, <1>9

\* One audit, or two when a merge is looked at again, keep the types.
LEMMA TypeBooked ==
    ASSUME TypeOK, NEW t \in Tasks, NEW new, NEW audit, Booked(t, new, audit), Room(t),
           Write(t, new),
           \/ reviews' = [reviews EXCEPT ![t] = Append(@, audit)]
           \/ reviews' = [reviews EXCEPT ![t] = Append(Append(@, audit), Withdrawn(audit))]
              /\ Audits + 2 <= MaxReviews,
           claims' \in [Ids -> Seq(ClaimRecords)],
           merges' \in [Tasks -> Seq(Operations)], \A u \in Tasks \ {t} : merges'[u] = merges[u],
           UNCHANGED <<catalogue, published>>, HoldTypeOK'
    PROVE  TypeOK'
<1> DEFINE s1 == Append(reviews[t], audit)
           s2 == Append(s1, Withdrawn(audit))
           log == WithEvents(t, new)
<1>1. /\ new \in TaskRows /\ audit \in AuditRecords /\ Verdict(audit)
      /\ audit.events \subseteq DOMAIN log
      /\ Len(events[t]) < MaxEvents /\ DOMAIN events[t] \subseteq DOMAIN log
    BY LogGrows DEF Booked, Room
<1>2. /\ Withdrawn(audit) \in AuditRecords /\ Verdict(Withdrawn(audit))
      /\ Withdrawn(audit).events = {}
    BY <1>1, WithdrawnFields
<1>3. reviews \in [Tasks -> Seq(AuditRecords)] /\ reviews[t] \in Seq(AuditRecords)
    BY DEF TypeOK
<1>4. \A a \in DOMAIN reviews[t] : Verdict(reviews[t][a]) /\ reviews[t][a].events \subseteq DOMAIN log
    BY <1>1 DEF TypeOK
<1>5. /\ s1 \in Seq(AuditRecords) /\ s1 # <<>>
      /\ \A a \in DOMAIN s1 : Verdict(s1[a]) /\ s1[a].events \subseteq DOMAIN log
    <2>1. /\ s1 \in Seq(AuditRecords) /\ s1 # <<>>
          /\ DOMAIN s1 = DOMAIN reviews[t] \cup {Len(reviews[t]) + 1}
          /\ s1[Len(reviews[t]) + 1] = audit
          /\ \A a \in DOMAIN reviews[t] : s1[a] = reviews[t][a]
        BY <1>1, <1>3, Appended
    <2> HIDE DEF s1
    <2> QED BY <1>1, <1>4, <2>1
<1>6. /\ s2 \in Seq(AuditRecords) /\ s2 # <<>>
      /\ \A a \in DOMAIN s2 : Verdict(s2[a]) /\ s2[a].events \subseteq DOMAIN log
    <2> HIDE DEF s1
    <2> QED BY <1>2, <1>5, Appended
<1>7. Audits \in Nat /\ Audits < MaxReviews /\ MaxReviews \in Nat
    BY <1>1, AuditsGrow, ReviewAssumption DEF Room
<1>8. CASE reviews' = [reviews EXCEPT ![t] = Append(@, audit)]
    <2>0. Audits' = Audits + 1
        BY <1>1, <1>8, AuditsGrow
    <2>1. Audits' <= MaxReviews
        BY <1>7, <2>0
    <2>2. reviews' = [reviews EXCEPT ![t] = s1]
        BY <1>8
    <2> HIDE DEF s1
    <2> QED BY <1>1, <1>5, <2>1, <2>2, TypeTransaction
<1>9. CASE reviews' = [reviews EXCEPT ![t] = Append(Append(@, audit), Withdrawn(audit))]
              /\ Audits + 2 <= MaxReviews
    <2>1. Audits' <= MaxReviews
        BY <1>1, <1>2, <1>7, <1>9, AuditsGrow
    <2>2. reviews' = [reviews EXCEPT ![t] = s2]
        BY <1>9
    <2> HIDE DEF s2
    <2> QED BY <1>1, <1>6, <2>1, <2>2, TypeTransaction
<1> QED BY <1>8, <1>9

-----------------------------------------------------------------------------
(* Audits explain the row and its events.                                  *)

LEMMA ExplainedGrows ==
    ASSUME TypeOK, NEW t \in Tasks, Len(events[t]) < MaxEvents, NEW new \in TaskRows,
           NEW audit \in AuditRecords, audit.values = ValuesIn(new),
           audit.events = NewEvents(t, new),
           Created(t) => Explained(row[t], events[t], reviews[t])
    PROVE  Explained(new, WithEvents(t, new), Append(reviews[t], audit))
<1> DEFINE R == reviews[t]
           n == Len(R) + 1
           R2 == Append(R, audit)
           log == events[t]
           log2 == WithEvents(t, new)
           S == ChangedColumns(row[t], new)
<1>1. /\ DOMAIN log \subseteq DOMAIN log2
      /\ \A e \in DOMAIN log : log2[e] = log[e]
      /\ audit.events \cap DOMAIN log = {}
      /\ DOMAIN log2 = DOMAIN log \cup audit.events
      /\ \A e \in audit.events :
            /\ DOMAIN log2[e] = S
            /\ \A c \in S : log2[e][c].old = row[t][c] /\ log2[e][c].new = new[c]
      /\ S # {} => audit.events # {}
    <2>1. audit.events = NewEvents(t, new) /\ NewEvents(t, new) = DOMAIN log2 \ DOMAIN log
        BY DEF NewEvents
    <2>2. DOMAIN log \subseteq DOMAIN log2 /\ \A e \in DOMAIN log : log2[e] = log[e]
        BY LogGrows
    <2>3. /\ \A e \in NewEvents(t, new) :
                /\ DOMAIN log2[e] = S
                /\ \A c \in S : log2[e][c].old = row[t][c] /\ log2[e][c].new = new[c]
          /\ S # {} => NewEvents(t, new) # {}
        BY LogGrows
    <2> HIDE DEF log, log2, S
    <2> QED BY <2>1, <2>2, <2>3
<1>2. R \in Seq(AuditRecords) /\ Len(R) \in Nat /\ DOMAIN R = 1..Len(R)
    BY DEF TypeOK
<1>3. /\ DOMAIN R2 = DOMAIN R \cup {n} /\ R2[n] = audit /\ n \notin DOMAIN R
      /\ \A a \in DOMAIN R : R2[a] = R[a]
      /\ Last(R2) = audit
    BY <1>2, Appended
<1>4. \A a \in DOMAIN R : R[a].events \subseteq DOMAIN log
    BY DEF TypeOK
<1>5. Created(t) => /\ Explained(row[t], log, R) /\ n > 1 /\ n - 1 \in DOMAIN R
                    /\ \A f \in Fields : R[n - 1].values[f] = row[t][f]
    <2>1. ASSUME Created(t)
          PROVE  /\ n > 1 /\ n - 1 \in DOMAIN R /\ R[n - 1] = Last(R)
        BY <1>2, <2>1 DEF Created, Last
    <2>2. ASSUME Created(t) PROVE Last(R).values = ValuesIn(row[t])
        BY <2>2 DEF Explained
    <2>3. Created(t) => Explained(row[t], log, R)
        OBVIOUS
    <2> HIDE DEF R, log, n
    <2> QED BY <2>1, <2>2, <2>3 DEF ValuesIn
<1>6. ~Created(t) => R = <<>> /\ log = <<>> /\ row[t] = NoTask /\ n = 1
    BY DEF TypeOK, Created
<1>7. DOMAIN R # {} \/ DOMAIN log # {} => Created(t)
    BY <1>6
<1>8. \A f \in Fields : audit.values[f] = new[f] /\ f \in Columns /\ new[f] \in Values
    BY RowFields DEF Columns
<1> HIDE DEF R, R2, log, log2, n, S
<1>9. ASSUME NEW e \in DOMAIN log2, DOMAIN log2[e] # {"status"}
      PROVE  \E a \in DOMAIN R2 : \A b \in DOMAIN R2 : e \in R2[b].events <=> b = a
    <2>1. CASE e \in DOMAIN log
        <3>1. PICK a \in DOMAIN R : \A b \in DOMAIN R : e \in R[b].events <=> b = a
            BY <1>1, <1>5, <1>7, <1>9, <2>1 DEF Explained
        <3>2. e \notin audit.events
            BY <1>1, <2>1
        <3> QED BY <1>3, <3>1, <3>2
    <2>2. CASE e \notin DOMAIN log
        <3>1. e \in audit.events
            BY <1>1, <2>2
        <3>2. \A b \in DOMAIN R : e \notin R[b].events
            BY <1>4, <2>2
        <3> QED BY <1>3, <3>1, <3>2
    <2> QED BY <2>1, <2>2
<1>10. ASSUME NEW a \in DOMAIN R2, NEW f \in Fields
       PROVE  LET told == {e \in R2[a].events : f \in DOMAIN log2[e]}
              IN  IF told # {} THEN \A e \in told :
                                      /\ R2[a].values[f] = log2[e][f].new
                                      /\ a > 1 => R2[a - 1].values[f] = log2[e][f].old
                  ELSE a > 1 /\ R2[a].values[f] = R2[a - 1].values[f]
    <2>1. CASE a \in DOMAIN R
        <3> DEFINE told2 == {e \in R2[a].events : f \in DOMAIN log2[e]}
                   told1 == {e \in R[a].events : f \in DOMAIN log[e]}
        <3>1. R2[a] = R[a] /\ (a > 1 => R2[a - 1] = R[a - 1])
            BY <1>2, <1>3, <2>1
        <3>2. \A e \in R[a].events : log2[e] = log[e]
            BY <1>1, <1>4, <2>1
        <3>3. told2 = told1
            BY <3>1, <3>2
        <3>4. IF told1 # {} THEN \A e \in told1 :
                                   /\ R[a].values[f] = log[e][f].new
                                   /\ a > 1 => R[a - 1].values[f] = log[e][f].old
              ELSE a > 1 /\ R[a].values[f] = R[a - 1].values[f]
            BY <1>5, <1>7, <2>1 DEF Explained
        <3>5. \A e \in told1 : log2[e] = log[e]
            BY <3>2
        <3> HIDE DEF told1
        <3>6. IF told2 # {} THEN \A e \in told2 :
                                   /\ R2[a].values[f] = log2[e][f].new
                                   /\ a > 1 => R2[a - 1].values[f] = log2[e][f].old
              ELSE a > 1 /\ R2[a].values[f] = R2[a - 1].values[f]
            <4> HIDE DEF told2
            <4> QED BY <3>1, <3>3, <3>4, <3>5
        <3> QED BY <3>6
    <2>2. CASE a = n
        <3> DEFINE told == {e \in audit.events : f \in DOMAIN log2[e]}
        <3>1. R2[a] = audit /\ (a > 1 => Created(t))
            BY <1>3, <1>6, <2>2
        <3>2. Created(t) => a > 1 /\ R2[a - 1].values[f] = row[t][f]
            BY <1>3, <1>5, <2>2
        <3>3. ASSUME NEW e \in told
              PROVE  audit.values[f] = log2[e][f].new /\ row[t][f] = log2[e][f].old
            BY <1>1, <1>8
        <3>4. ASSUME told = {} PROVE Created(t) /\ audit.values[f] = row[t][f]
            <4>1. f \notin S
                BY <1>1, <3>4
            <4>2. row[t][f] = new[f]
                BY <1>8, <4>1 DEF S, ChangedColumns
            <4>3. Created(t)
                BY <1>6, <1>8, <4>2, ReviewAssumption DEF NoTask
            <4> QED BY <1>8, <4>2, <4>3
        <3>5. R2[a].events = audit.events
            BY <3>1
        <3>6. \A e \in told : /\ R2[a].values[f] = log2[e][f].new
                              /\ a > 1 => R2[a - 1].values[f] = log2[e][f].old
            BY <3>1, <3>2, <3>3
        <3>7. told = {} => a > 1 /\ R2[a].values[f] = R2[a - 1].values[f]
            BY <3>1, <3>2, <3>4
        <3>8. told = {e \in R2[a].events : f \in DOMAIN log2[e]}
            BY <3>5
        <3> HIDE DEF told
        <3> QED BY <3>6, <3>7, <3>8
    <2> QED BY <1>3, <2>1, <2>2
<1>11. Last(R2).values = ValuesIn(new)
    BY <1>3
<1>12. Explained(new, log2, R2)
    BY <1>9, <1>10, <1>11 DEF Explained
<1> QED BY <1>12 DEF log2, R2, R

\* A further audit that changes nothing.
LEMMA ExplainedAgain ==
    ASSUME NEW r, NEW log, NEW R \in Seq(AuditRecords), R # <<>>, NEW audit \in AuditRecords,
           audit.values = ValuesIn(r), audit.events = {}, Explained(r, log, R)
    PROVE  Explained(r, log, Append(R, audit))
<1> DEFINE n == Len(R) + 1
           R2 == Append(R, audit)
<1>1. /\ DOMAIN R2 = DOMAIN R \cup {n} /\ R2[n] = audit /\ n \notin DOMAIN R
      /\ \A a \in DOMAIN R : R2[a] = R[a]
      /\ Last(R2) = audit /\ DOMAIN R = 1..Len(R) /\ Len(R) \in Nat
    BY Appended
<1>2. n > 1 /\ n - 1 \in DOMAIN R /\ R2[n - 1] = Last(R) /\ Last(R).values = ValuesIn(r)
    <2>1. Last(R).values = ValuesIn(r)
        BY DEF Explained
    <2>2. Len(R) > 0 /\ Last(R) = R[n - 1]
        BY <1>1 DEF Last
    <2>3. Len(R) \in DOMAIN R
        BY <1>1, <2>2
    <2> HIDE DEF R2
    <2> QED BY <1>1, <2>1, <2>2, <2>3
<1> HIDE DEF R2, n
<1>3. ASSUME NEW e \in DOMAIN log, DOMAIN log[e] # {"status"}
      PROVE  \E a \in DOMAIN R2 : \A b \in DOMAIN R2 : e \in R2[b].events <=> b = a
    <2>1. PICK a \in DOMAIN R : \A b \in DOMAIN R : e \in R[b].events <=> b = a
        BY <1>3 DEF Explained
    <2> QED BY <1>1, <2>1
<1>4. ASSUME NEW a \in DOMAIN R2, NEW f \in Fields
      PROVE  LET told == {e \in R2[a].events : f \in DOMAIN log[e]}
             IN  IF told # {} THEN \A e \in told :
                                     /\ R2[a].values[f] = log[e][f].new
                                     /\ a > 1 => R2[a - 1].values[f] = log[e][f].old
                 ELSE a > 1 /\ R2[a].values[f] = R2[a - 1].values[f]
    <2>1. CASE a \in DOMAIN R
        <3>1. R2[a] = R[a] /\ (a > 1 => R2[a - 1] = R[a - 1])
            BY <1>1, <2>1 DEF n
        <3>2. LET told == {e \in R[a].events : f \in DOMAIN log[e]}
              IN  IF told # {} THEN \A e \in told :
                                      /\ R[a].values[f] = log[e][f].new
                                      /\ a > 1 => R[a - 1].values[f] = log[e][f].old
                  ELSE a > 1 /\ R[a].values[f] = R[a - 1].values[f]
            BY <2>1 DEF Explained
        <3> QED BY <3>1, <3>2
    <2>2. CASE a = n
        <3>1. R2[a].events = {} /\ R2[a].values = ValuesIn(r) /\ R2[a - 1].values = ValuesIn(r)
            BY <1>1, <1>2, <2>2
        <3> QED BY <1>2, <2>2, <3>1
    <2> QED BY <1>1, <2>1, <2>2
<1>5. Last(R2).values = ValuesIn(r)
    BY <1>1
<1>6. Explained(r, log, R2)
    BY <1>3, <1>4, <1>5 DEF Explained
<1> QED BY <1>6 DEF R2

\* A change of the status alone, which no audit lists.
LEMMA ExplainedStatus ==
    ASSUME TypeOK, NEW t \in Tasks, Created(t), Len(events[t]) < MaxEvents,
           NEW new \in TaskRows, \A f \in Fields : new[f] = row[t][f],
           Explained(row[t], events[t], reviews[t])
    PROVE  Explained(new, WithEvents(t, new), reviews[t])
<1> DEFINE R == reviews[t]
           log == events[t]
           log2 == WithEvents(t, new)
           S == ChangedColumns(row[t], new)
<1>1. DOMAIN log \subseteq DOMAIN log2 /\ \A e \in DOMAIN log : log2[e] = log[e]
    BY LogGrows
<1>2. /\ \A e \in NewEvents(t, new) : DOMAIN log2[e] = S
      /\ NewEvents(t, new) = DOMAIN log2 \ DOMAIN log
    BY LogGrows DEF NewEvents
<1>3. S \subseteq {"status"}
    BY DEF ChangedColumns, Columns
<1>4. \A a \in DOMAIN R : R[a].events \subseteq DOMAIN log
    BY DEF TypeOK
<1>5. Explained(row[t], log, R)
    OBVIOUS
<1>6. ValuesIn(new) = ValuesIn(row[t])
    BY DEF ValuesIn
<1>7. NewEvents(t, new) # {} => S # {}
    BY DEF NewEvents, WithEvents
<1> HIDE DEF R, log, log2, S
<1>8. ASSUME NEW e \in DOMAIN log2, DOMAIN log2[e] # {"status"}
      PROVE  \E a \in DOMAIN R : \A b \in DOMAIN R : e \in R[b].events <=> b = a
    <2>1. e \in DOMAIN log
        BY <1>2, <1>3, <1>7, <1>8
    <2>2. DOMAIN log[e] # {"status"}
        BY <1>1, <1>8, <2>1
    <2> QED BY <1>5, <2>1, <2>2 DEF Explained
<1>9. ASSUME NEW a \in DOMAIN R, NEW f \in Fields
      PROVE  LET told == {e \in R[a].events : f \in DOMAIN log2[e]}
             IN  IF told # {} THEN \A e \in told :
                                     /\ R[a].values[f] = log2[e][f].new
                                     /\ a > 1 => R[a - 1].values[f] = log2[e][f].old
                 ELSE a > 1 /\ R[a].values[f] = R[a - 1].values[f]
    <2>1. LET told == {e \in R[a].events : f \in DOMAIN log[e]}
          IN  IF told # {} THEN \A e \in told :
                                  /\ R[a].values[f] = log[e][f].new
                                  /\ a > 1 => R[a - 1].values[f] = log[e][f].old
              ELSE a > 1 /\ R[a].values[f] = R[a - 1].values[f]
        BY <1>5 DEF Explained
    <2>2. \A e \in R[a].events : log2[e] = log[e]
        BY <1>1, <1>4
    <2>3. {e \in R[a].events : f \in DOMAIN log2[e]} = {e \in R[a].events : f \in DOMAIN log[e]}
        BY <2>2
    <2> QED BY <2>1, <2>2, <2>3
<1>10. Last(R).values = ValuesIn(new)
    BY <1>5, <1>6 DEF Explained
<1>11. Explained(new, log2, R)
    BY <1>8, <1>9, <1>10 DEF Explained
<1> QED BY <1>11 DEF log2, R

-----------------------------------------------------------------------------
(* A transaction and the histories.                                        *)

\* The row, its event and one audit, or two when a merge is looked at again.
Posted(t, new, audit) ==
    /\ Booked(t, new, audit) /\ Room(t) /\ Write(t, new)
    /\ \/ reviews' = [reviews EXCEPT ![t] = Append(@, audit)]
       \/ reviews' = [reviews EXCEPT ![t] = Append(Append(@, audit), Withdrawn(audit))]
    /\ UNCHANGED <<catalogue, published>>

LEMMA PostedFacts ==
    ASSUME TypeOK, NEW t \in Tasks, NEW new, NEW audit, Posted(t, new, audit)
    PROVE  /\ row'[t] = new /\ events'[t] = WithEvents(t, new)
           /\ \A u \in Tasks \ {t} : /\ row'[u] = row[u] /\ events'[u] = events[u]
                                     /\ reviews'[u] = reviews[u]
           /\ \A u \in Tasks : \A a \in DOMAIN reviews[u] :
                 a \in DOMAIN reviews'[u] /\ reviews'[u][a] = reviews[u][a]
           /\ Created(t)' /\ (\A u \in Tasks \ {t} : Created(u)' <=> Created(u))
           /\ reviews'[t] \in Seq(AuditRecords)
           /\ \A a \in DOMAIN reviews'[t] : a \in DOMAIN reviews[t] \/
                 /\ reviews'[t][a].fp = audit.fp /\ reviews'[t][a].values = audit.values
                 /\ reviews'[t][a].sources = audit.sources
           /\ Latest(t)' = Last(reviews'[t]) /\ Latest(t)'.fp = audit.fp
           /\ Latest(t)'.values = audit.values /\ Latest(t)'.sources = audit.sources
<1> DEFINE s1 == Append(reviews[t], audit)
           s2 == Append(s1, Withdrawn(audit))
<1>1. /\ row \in [Tasks -> Rows] /\ events \in [Tasks -> Seq(Entries)]
      /\ reviews \in [Tasks -> Seq(AuditRecords)] /\ reviews[t] \in Seq(AuditRecords)
    BY DEF TypeOK
<1>2. audit \in AuditRecords
    BY DEF Posted, Booked
<1>3. row'[t] = new /\ events'[t] = WithEvents(t, new)
      /\ \A u \in Tasks \ {t} : row'[u] = row[u] /\ events'[u] = events[u]
    BY <1>1 DEF Posted, Write
<1>4. /\ Withdrawn(audit) \in AuditRecords
      /\ Withdrawn(audit).fp = audit.fp /\ Withdrawn(audit).values = audit.values
      /\ Withdrawn(audit).sources = audit.sources
    BY <1>2, WithdrawnFields
<1>5. /\ s1 \in Seq(AuditRecords) /\ s1 # <<>> /\ Last(s1) = audit
      /\ DOMAIN s1 = DOMAIN reviews[t] \cup {Len(reviews[t]) + 1}
      /\ s1[Len(reviews[t]) + 1] = audit
      /\ \A a \in DOMAIN reviews[t] : s1[a] = reviews[t][a]
    BY <1>1, <1>2, Appended
<1>6. /\ s2 \in Seq(AuditRecords) /\ s2 # <<>> /\ Last(s2) = Withdrawn(audit)
      /\ DOMAIN s2 = DOMAIN s1 \cup {Len(s1) + 1}
      /\ s2[Len(s1) + 1] = Withdrawn(audit)
      /\ \A a \in DOMAIN s1 : s2[a] = s1[a]
    <2> HIDE DEF s1
    <2> QED BY <1>4, <1>5, Appended
<1>7. \A u \in Tasks \ {t} : reviews'[u] = reviews[u]
    BY <1>1 DEF Posted
<1>8. reviews'[t] = s1 \/ reviews'[t] = s2
    BY <1>1 DEF Posted
<1> HIDE DEF s1, s2
<1>9. /\ \A a \in DOMAIN reviews[t] : a \in DOMAIN reviews'[t] /\ reviews'[t][a] = reviews[t][a]
      /\ reviews'[t] \in Seq(AuditRecords) /\ reviews'[t] # <<>>
      /\ \A a \in DOMAIN reviews'[t] : a \in DOMAIN reviews[t] \/
            /\ reviews'[t][a].fp = audit.fp /\ reviews'[t][a].values = audit.values
            /\ reviews'[t][a].sources = audit.sources
    BY <1>4, <1>5, <1>6, <1>8
<1>10. /\ Last(reviews'[t]).fp = audit.fp /\ Last(reviews'[t]).values = audit.values
       /\ Last(reviews'[t]).sources = audit.sources
    BY <1>4, <1>5, <1>6, <1>8
<1>11. Latest(t)' = Last(reviews'[t])
    BY DEF Latest, Last
<1>12. Created(t)' /\ (\A u \in Tasks \ {t} : Created(u)' <=> Created(u))
    BY <1>7, <1>9 DEF Created
<1>13. \A u \in Tasks : \A a \in DOMAIN reviews[u] :
           a \in DOMAIN reviews'[u] /\ reviews'[u][a] = reviews[u][a]
    BY <1>7, <1>9
<1> QED BY <1>3, <1>7, <1>9, <1>10, <1>11, <1>12, <1>13

LEMMA HistoryPosted ==
    ASSUME TypeOK, AuditedHistory, NEW t \in Tasks, NEW new, NEW audit, Posted(t, new, audit)
    PROVE  AuditedHistory'
<1>1. ASSUME NEW u \in Tasks \ {t}, Created(u)'
      PROVE  Explained(row'[u], events'[u], reviews'[u])
    BY <1>1, PostedFacts DEF AuditedHistory
<1>2. Explained(row'[t], events'[t], reviews'[t])
    <2> DEFINE s1 == Append(reviews[t], audit)
    <2>1. /\ new \in TaskRows /\ audit \in AuditRecords /\ audit.values = ValuesIn(new)
          /\ audit.events = NewEvents(t, new) /\ Len(events[t]) < MaxEvents
        BY DEF Posted, Booked, Room
    <2>2. Created(t) => Explained(row[t], events[t], reviews[t])
        BY DEF AuditedHistory
    <2>3. Explained(new, WithEvents(t, new), s1)
        BY <2>1, <2>2, ExplainedGrows
    <2>4. reviews \in [Tasks -> Seq(AuditRecords)] /\ reviews[t] \in Seq(AuditRecords)
        BY DEF TypeOK
    <2>5. s1 \in Seq(AuditRecords) /\ s1 # <<>>
        BY <2>1, <2>4, Appended
    <2>6. /\ Withdrawn(audit) \in AuditRecords /\ Withdrawn(audit).values = ValuesIn(new)
          /\ Withdrawn(audit).events = {}
        BY <2>1, WithdrawnFields
    <2>7. Explained(new, WithEvents(t, new), Append(s1, Withdrawn(audit)))
        <3> HIDE DEF s1
        <3> QED BY <2>3, <2>5, <2>6, ExplainedAgain
    <2>8. reviews'[t] = s1 \/ reviews'[t] = Append(s1, Withdrawn(audit))
        BY <2>4 DEF Posted
    <2>9. row'[t] = new /\ events'[t] = WithEvents(t, new)
        BY PostedFacts
    <2> HIDE DEF s1
    <2> QED BY <2>3, <2>7, <2>8, <2>9
<1>3. \A u \in Tasks : Created(u)' => Explained(row'[u], events'[u], reviews'[u])
    BY <1>1, <1>2
<1> QED BY <1>3 DEF AuditedHistory, Explained, Last, ValuesIn

LEMMA TruthfulPosted ==
    ASSUME TypeOK, AuditsTruthful, NEW t \in Tasks, NEW new, NEW audit, Posted(t, new, audit)
    PROVE  AuditsTruthful'
<1>1. ASSUME NEW u \in Tasks, NEW a \in DOMAIN reviews'[u]
      PROVE  Truthful(reviews'[u][a].sources, reviews'[u][a].values)
    <2>1. CASE a \in DOMAIN reviews[u]
        BY <2>1, PostedFacts DEF AuditsTruthful
    <2>2. CASE u = t /\ a \notin DOMAIN reviews[t]
        <3>1. reviews'[u][a].values = audit.values /\ reviews'[u][a].sources = audit.sources
            BY <2>2, PostedFacts
        <3>2. audit.values = ValuesIn(new) /\ Truthful(audit.sources, new)
            BY DEF Posted, Booked
        <3>3. Truthful(audit.sources, ValuesIn(new))
            BY <3>2 DEF Truthful, ValuesIn
        <3> QED BY <3>1, <3>2, <3>3
    <2>3. CASE u # t
        BY <2>1, <2>3, PostedFacts
    <2> QED BY <2>1, <2>2, <2>3
<1> QED BY <1>1 DEF AuditsTruthful, Truthful

-----------------------------------------------------------------------------
(* Claims and merges.                                                      *)

\* No claim is released: what a task has claimed it keeps.
NoRelease == \A i \in Ids, u \in Tasks : ClaimedBy(i, u) => claims'[i] = claims[i]
\* The same of all tasks but one.
OthersKeep(t) == \A i \in Ids, u \in Tasks \ {t} : ClaimedBy(i, u) => claims'[i] = claims[i]
ReviewsGrow ==
    \A u \in Tasks : \A a \in DOMAIN reviews[u] :
        a \in DOMAIN reviews'[u] /\ reviews'[u][a] = reviews[u][a]

LEMMA ClaimedStays ==
    ASSUME NEW i \in Ids, NEW u, claims'[i] = claims[i]
    PROVE  ClaimedBy(i, u)' <=> ClaimedBy(i, u)
    BY DEF ClaimedBy, Tip, Last

\* A candidate is claimed that was free.
LEMMA ClaimFacts ==
    ASSUME TypeOK, NEW fp \in Fingerprints, Free(IdOf(fp.of)), NEW t \in 0..MaxTasks,
           NEW action \in {"create", "merge", "reject"}, Claim(fp, t, action)
    PROVE  /\ IdOf(fp.of) \in Ids
           /\ claims' \in [Ids -> Seq(ClaimRecords)] /\ NoRelease
           /\ ClaimedBy(IdOf(fp.of), t)'
           /\ Len(claims'[IdOf(fp.of)]) = Len(claims[IdOf(fp.of)]) + 1
           /\ \A u \in Tasks : ~ClaimedBy(IdOf(fp.of), u)
           /\ \A i \in Ids \ {IdOf(fp.of)} : claims'[i] = claims[i]
<1> DEFINE i == IdOf(fp.of)
           c == [op |-> "claim", task |-> t, action |-> action, fp |-> fp]
<1>1. i \in Ids
    BY FingerprintFields
<1>2. c \in ClaimRecords /\ c.op = "claim" /\ c.task = t
    BY DEF ClaimRecords
<1>3. claims \in [Ids -> Seq(ClaimRecords)] /\ claims' = [claims EXCEPT ![i] = Append(@, c)]
    BY DEF TypeOK, Claim
<1> HIDE DEF c
<1>4. /\ claims'[i] = Append(claims[i], c) /\ claims[i] \in Seq(ClaimRecords)
      /\ \A j \in Ids \ {i} : claims'[j] = claims[j]
    BY <1>1, <1>3
<1>5. /\ claims'[i] \in Seq(ClaimRecords) /\ claims'[i] # <<>> /\ Last(claims'[i]) = c
      /\ Len(claims'[i]) = Len(claims[i]) + 1
    BY <1>2, <1>4, Appended
<1>6. claims' \in [Ids -> Seq(ClaimRecords)]
    BY <1>1, <1>2, <1>3, <1>5
<1>7. ClaimedBy(i, t)'
    BY <1>2, <1>5 DEF ClaimedBy, Tip, Last
<1>8. \A u \in Tasks : ~ClaimedBy(i, u)
    BY DEF Free, ClaimedBy
<1>9. NoRelease
    BY <1>4, <1>8 DEF NoRelease
<1> QED BY <1>1, <1>4, <1>5, <1>6, <1>7, <1>8, <1>9

LEMMA OperationFields ==
    ASSUME TypeOK, NEW t \in Tasks, NEW k \in DOMAIN merges[t]
    PROVE  LET op == merges[t][k] IN
           /\ merges[t] \in Seq(Operations) /\ op \in Operations
           /\ k \in Nat /\ k >= 1 /\ k <= Len(merges[t]) /\ Len(merges[t]) \in Nat
           /\ op.op \in {"merge", "undo"} /\ op.target \in Nat /\ op.parent \in Nat
           /\ op.audit \in Nat /\ op.claim \in Nat /\ op.was \in Nat /\ op.tail \in Nat
           /\ op.fp \in Fingerprints /\ op.before \in TaskRows /\ op.after \in TaskRows
           /\ op.fields \subseteq Fields /\ op.events \in SUBSET (1..MaxEvents)
           /\ IdOf(op.fp.of) \in Ids
<1>1. /\ merges[t] \in Seq(Operations) /\ merges[t][k] \in Operations
      /\ k \in Nat /\ k >= 1 /\ k <= Len(merges[t]) /\ Len(merges[t]) \in Nat
    BY DEF TypeOK
<1>2. \A op \in Operations :
           /\ op.op \in {"merge", "undo"} /\ op.target \in Nat /\ op.parent \in Nat
           /\ op.audit \in Nat /\ op.claim \in Nat /\ op.was \in Nat /\ op.tail \in Nat
           /\ op.fp \in Fingerprints /\ op.before \in TaskRows /\ op.after \in TaskRows
           /\ op.fields \subseteq Fields /\ op.events \in SUBSET (1..MaxEvents)
    BY DEF Operations
<1> QED BY <1>1, <1>2, FingerprintFields

LEMMA DependencyFields ==
    ASSUME NEW audit \in AuditRecords, NEW merged, NEW fp \in Dependencies(audit, merged)
    PROVE  fp \in Fingerprints /\ IdOf(fp.of) \in Ids
    BY AuditFields, FingerprintFields DEF Dependencies

\* What is said of a task's merges outlives a step that leaves them alone, adds
\* audits and releases none of its candidates.
LEMMA TaskMergesStand ==
    ASSUME IInv, NEW t \in Tasks, merges'[t] = merges[t],
           \A i \in Ids : ClaimedBy(i, t) => claims'[i] = claims[i],
           \A a \in DOMAIN reviews[t] : a \in DOMAIN reviews'[t] /\ reviews'[t][a] = reviews[t][a]
    PROVE  Recorded(t)' /\ Reversible(t)' /\ Stacked(t)'
<1>1. ASSUME NEW k \in DOMAIN merges[t]
      PROVE  /\ merges[t][k].was \in DOMAIN reviews'[t]
             /\ reviews'[t][merges[t][k].was] = reviews[t][merges[t][k].was]
    BY DEF IInv, Recorded
<1>2. Recorded(t)'
    BY <1>1 DEF IInv, Recorded, ValuesIn
<1>3. Active(t)' = Active(t) /\ Active(t) \subseteq DOMAIN merges[t]
    BY DEF Active, Undone
<1>4. ASSUME NEW k \in Active(t)
      PROVE  /\ claims'[IdOf(merges[t][k].fp.of)] = claims[IdOf(merges[t][k].fp.of)]
             /\ StillClaimed(t, k)' /\ ClaimedBy(IdOf(merges[t][k].fp.of), t)'
    <2>1. k \in DOMAIN merges[t] /\ IdOf(merges[t][k].fp.of) \in Ids
        BY <1>3, OperationFields DEF IInv
    <2>2. StillClaimed(t, k) /\ ClaimedBy(IdOf(merges[t][k].fp.of), t)
        BY <2>1 DEF IInv, StackWellFormed, Stacked
    <2>3. claims'[IdOf(merges[t][k].fp.of)] = claims[IdOf(merges[t][k].fp.of)]
        BY <2>1, <2>2
    <2> QED BY <2>1, <2>2, <2>3, ClaimedStays DEF StillClaimed, Last
<1>5. Reversible(t)'
    <2>1. ASSUME NEW k \in Active(t), NEW fp \in Dependencies(reviews[t][merges[t][k].was], TRUE)
          PROVE  ClaimedBy(IdOf(fp.of), t)'
        <3>1. reviews[t][merges[t][k].was] \in AuditRecords
            BY <1>3 DEF IInv, Recorded, TypeOK
        <3>2. IdOf(fp.of) \in Ids
            BY <3>1, DependencyFields
        <3>3. ClaimedBy(IdOf(fp.of), t)
            BY DEF IInv, Reversible
        <3> QED BY <3>2, <3>3, ClaimedStays
    <2>2. ASSUME NEW k \in Active(t)
          PROVE  /\ \A j \in Active(t) \ {k} : IdOf(merges[t][j].fp.of) # IdOf(merges[t][k].fp.of)
                 /\ \A fp \in Dependencies(reviews[t][merges[t][k].was], TRUE) :
                       \A j \in Active(t) : j >= k => IdOf(merges[t][j].fp.of) # IdOf(fp.of)
        BY DEF IInv, Reversible
    <2> QED BY <1>1, <1>3, <2>1, <2>2 DEF Reversible, Dependencies
<1>6. Stacked(t)'
    <2>1. ASSUME NEW k \in DOMAIN merges[t]
          PROVE  LET op == merges[t][k]
                     top == Highest(InForce(merges[t], k))
                 IN /\ op.op = "merge" => op.parent = top
                    /\ op.op = "undo" => op.target = top /\ op.parent = merges[t][top].parent
        BY DEF IInv, StackWellFormed, Stacked
    <2>2. \A k \in DOMAIN merges[t] : k \in Active(t)' =>
              StillClaimed(t, k)' /\ ClaimedBy(IdOf(merges[t][k].fp.of), t)'
        BY <1>3, <1>4
    <2> QED BY <2>1, <2>2 DEF Stacked
<1> QED BY <1>2, <1>5, <1>6

LEMMA MergesStand ==
    ASSUME IInv, NoRelease, ReviewsGrow, UNCHANGED merges
    PROVE  /\ \A t \in Tasks : Recorded(t)' /\ Reversible(t)'
           /\ StackWellFormed'
<1>1. ASSUME NEW t \in Tasks PROVE Recorded(t)' /\ Reversible(t)' /\ Stacked(t)'
    BY TaskMergesStand DEF NoRelease, ReviewsGrow
<1> QED BY <1>1 DEF StackWellFormed

LEMMA BindingPosted ==
    ASSUME IInv, NEW t \in Tasks, NEW new, NEW audit, Posted(t, new, audit), OthersKeep(t),
           \A fp \in Dependencies(audit, TRUE) : ClaimedBy(IdOf(fp.of), t)'
    PROVE  BindingClaimed'
<1>1. ASSUME NEW u \in Tasks, Created(u)', NEW fp \in Dependencies(Latest(u)', TRUE)
      PROVE  ClaimedBy(IdOf(fp.of), u)'
    <2>1. CASE u = t
        <3>1. Latest(t)'.fp = audit.fp /\ Latest(t)'.sources = audit.sources
            BY PostedFacts DEF IInv
        <3>2. fp \in Dependencies(audit, TRUE)
            BY <1>1, <2>1, <3>1 DEF Dependencies
        <3> QED BY <2>1, <3>2
    <2>2. CASE u # t
        <3>1. reviews'[u] = reviews[u] /\ Created(u)
            BY <1>1, <2>2, PostedFacts DEF IInv
        <3>2. Latest(u)' = Latest(u) /\ Latest(u) \in AuditRecords
            BY <3>1, TaskFacts DEF Latest, Last, IInv
        <3>3. ClaimedBy(IdOf(fp.of), u) /\ IdOf(fp.of) \in Ids
            BY <1>1, <3>1, <3>2, DependencyFields DEF IInv, BindingClaimed
        <3> QED BY <2>2, <3>3, ClaimedStays DEF OthersKeep
    <2> QED BY <2>1, <2>2
<1> QED BY <1>1 DEF BindingClaimed, Dependencies

\* A transaction of the review that is no merge: one audit, and maybe a claim.
LEMMA ReviewKeeps ==
    ASSUME IInv, NEW t \in Tasks, NEW new, NEW audit, Booked(t, new, audit), Room(t),
           Write(t, new), Record(t, audit), Submitted, UNCHANGED merges,
           claims' \in [Ids -> Seq(ClaimRecords)], NoRelease,
           \A fp \in Dependencies(audit, TRUE) : ClaimedBy(IdOf(fp.of), t)'
    PROVE  IInv'
<1>1. Posted(t, new, audit)
    BY DEF Posted, Record, Submitted
<1>2. HoldTypeOK'
    BY DEF IInv, TypeOK, HoldTypeOK, Submitted
<1>3. TypeOK'
    <2>1. reviews' = [reviews EXCEPT ![t] = Append(@, audit)] /\ UNCHANGED <<catalogue, published>>
        BY DEF Record, Submitted
    <2>2. merges' \in [Tasks -> Seq(Operations)] /\ \A u \in Tasks \ {t} : merges'[u] = merges[u]
        BY DEF IInv, TypeOK
    <2>3. TypeOK
        BY DEF IInv
    <2> QED BY <1>2, <2>1, <2>2, <2>3, TypeBooked
<1>4. AuditedHistory' /\ AuditsTruthful'
    BY <1>1, HistoryPosted, TruthfulPosted DEF IInv
<1>5. ReviewsGrow
    BY <1>1, PostedFacts DEF IInv, ReviewsGrow
<1>6. (\A u \in Tasks : Recorded(u)' /\ Reversible(u)') /\ StackWellFormed'
    BY <1>5, MergesStand
<1>7. BindingClaimed'
    <2>1. OthersKeep(t)
        BY DEF NoRelease, OthersKeep
    <2> QED BY <1>1, <2>1, BindingPosted
<1> QED BY <1>3, <1>4, <1>6, <1>7 DEF IInv

\* When no candidate is claimed, none is released.
LEMMA ClaimsStand ==
    ASSUME TypeOK, UNCHANGED claims
    PROVE  /\ claims' \in [Ids -> Seq(ClaimRecords)] /\ NoRelease
           /\ \A i \in Ids, u \in Tasks : ClaimedBy(i, u)' <=> ClaimedBy(i, u)
    BY ClaimedStays DEF TypeOK, NoRelease

\* What an audit of a task that was created says is true of its row.
LEMMA LatestFacts ==
    ASSUME IInv, NEW t \in Tasks, Created(t)
    PROVE  /\ Latest(t).values = ValuesIn(row[t]) /\ Truthful(Latest(t).sources, row[t])
           /\ \A fp \in Dependencies(Latest(t), TRUE) : ClaimedBy(IdOf(fp.of), t)
<1>1. Latest(t).values = ValuesIn(row[t])
    BY DEF IInv, AuditedHistory, Explained, Latest
<1>2. Truthful(Latest(t).sources, Latest(t).values)
    BY TaskFacts DEF IInv, AuditsTruthful
<1> QED BY <1>1, <1>2 DEF IInv, BindingClaimed, Truthful, ValuesIn

\* A row that is written as it was makes no event.
LEMMA SameRow ==
    ASSUME TypeOK, NEW t \in Tasks, UNCHANGED <<row, events>>
    PROVE  Write(t, row[t]) /\ NewEvents(t, row[t]) = {}
<1>1. WithEvents(t, row[t]) = events[t]
    BY DEF WithEvents, ChangedColumns
<1>2. row' = [row EXCEPT ![t] = row[t]] /\ events' = [events EXCEPT ![t] = events[t]]
    BY DEF TypeOK
<1> QED BY <1>1, <1>2 DEF Write, NewEvents

-----------------------------------------------------------------------------
(* The requests, one by one.                                               *)

LEMMA ObserveKeeps == ASSUME IInv, NEW t \in Tasks, Observe(t) PROVE IInv'
<1> DEFINE audit == Withdrawn(Latest(t))
<1>1. Created(t) /\ Room(t) /\ Submitted /\ UNCHANGED <<row, events, claims, merges>>
      /\ Record(t, audit)
    BY DEF Observe
<1>2. Latest(t) \in AuditRecords /\ row[t] \in TaskRows
    BY <1>1, TaskFacts DEF IInv
<1>3. /\ audit \in AuditRecords /\ Verdict(audit) /\ audit.fp = Latest(t).fp
      /\ audit.values = Latest(t).values
      /\ audit.sources = Latest(t).sources /\ audit.events = {}
    BY <1>2, WithdrawnFields
<1> HIDE DEF audit
<1>4. Write(t, row[t]) /\ NewEvents(t, row[t]) = {}
    BY <1>1, SameRow DEF IInv
<1>5. Booked(t, row[t], audit)
    BY <1>1, <1>2, <1>3, <1>4, LatestFacts DEF Booked
<1>6. claims' \in [Ids -> Seq(ClaimRecords)] /\ NoRelease
    BY <1>1, ClaimsStand DEF IInv
<1>7. \A fp \in Dependencies(audit, TRUE) : ClaimedBy(IdOf(fp.of), t)'
    <2>1. Dependencies(audit, TRUE) = Dependencies(Latest(t), TRUE)
        BY <1>3 DEF Dependencies
    <2> QED BY <1>1, <1>2, <2>1, LatestFacts, DependencyFields, ClaimsStand DEF IInv
<1> QED BY <1>1, <1>4, <1>5, <1>6, <1>7, ReviewKeeps

\* What the review's actions make of an audit's status.
Decides(action, status) ==
    \/ status = "approved" /\ action \in {"confirm", "reconfirm", "edit", "rebind"}
    \/ status = "needs_review" /\ action = "needs_review"
    \/ status = "invalidated" /\ action = "invalidate"

LEMMA AuditBooked ==
    ASSUME TypeOK, NEW t \in Tasks, NEW action, NEW status, Decides(action, status),
           NEW fp \in Fingerprints, NEW new \in TaskRows, NEW sources \in [Fields -> Origin],
           Truthful(sources, new), Len(events[t]) < MaxEvents,
           NEW audit, audit = Audit(action, status, fp, new, sources, NewEvents(t, new))
    PROVE  /\ Booked(t, new, audit) /\ audit \in AuditRecords /\ audit.status = status
           /\ audit.fp = fp /\ audit.sources = sources /\ audit.values = ValuesIn(new)
<1> DEFINE evs == NewEvents(t, new)
<1>0. audit = [action |-> action, status |-> status, fp |-> fp, values |-> ValuesIn(new),
               sources |-> sources, events |-> evs, by |-> "human"]
    BY DEF Audit
<1>1. evs \in SUBSET (1..MaxEvents) /\ ValuesIn(new) \in [Fields -> Values]
    BY LogGrows, RowFields
<1>2. /\ action \in {"confirm", "reconfirm", "edit", "rebind", "needs_review", "invalidate"}
      /\ status \in {"approved", "needs_review", "invalidated"}
    BY DEF Decides
<1>3. audit \in AuditRecords
    BY <1>0, <1>1, <1>2 DEF AuditRecords
<1>4. /\ audit.action = action /\ audit.status = status /\ audit.fp = fp
      /\ audit.values = ValuesIn(new) /\ audit.sources = sources /\ audit.events = evs
      /\ audit.by = "human"
    BY <1>0
<1>6. Verdict(audit)
    BY <1>4 DEF Verdict, Decides
<1>7. Booked(t, new, audit)
    BY <1>3, <1>4, <1>6 DEF Booked
<1> QED BY <1>3, <1>4, <1>7

\* An audit that keeps the row, the binding and the field sources.
LEMMA VerdictKeeps ==
    ASSUME IInv, NEW t \in Tasks, NEW action, NEW status, Decides(action, status),
           Created(t), Room(t), Submitted, UNCHANGED <<row, events, claims, merges>>,
           Record(t, Audit(action, status, Latest(t).fp, row[t], Latest(t).sources, {}))
    PROVE  IInv'
<1> DEFINE audit == Audit(action, status, Latest(t).fp, row[t], Latest(t).sources, {})
<1>1. Latest(t) \in AuditRecords /\ row[t] \in TaskRows
    BY TaskFacts DEF IInv
<1>2. Latest(t).fp \in Fingerprints /\ Latest(t).sources \in [Fields -> Origin]
    BY <1>1, AuditFields
<1>3. Write(t, row[t]) /\ NewEvents(t, row[t]) = {}
    BY SameRow DEF IInv
<1>4. /\ Booked(t, row[t], audit) /\ audit.fp = Latest(t).fp /\ audit.sources = Latest(t).sources
    <2>1. audit = Audit(action, status, Latest(t).fp, row[t], Latest(t).sources,
                        NewEvents(t, row[t]))
        BY <1>3
    <2>2. TypeOK /\ Truthful(Latest(t).sources, row[t]) /\ Len(events[t]) < MaxEvents
        BY LatestFacts DEF IInv, Room
    <2> HIDE DEF audit
    <2> QED BY <1>1, <1>2, <2>1, <2>2, AuditBooked
<1>5. Record(t, audit)
    OBVIOUS
<1> HIDE DEF audit
<1>6. claims' \in [Ids -> Seq(ClaimRecords)] /\ NoRelease
    BY ClaimsStand DEF IInv
<1>7. \A fp \in Dependencies(audit, TRUE) : ClaimedBy(IdOf(fp.of), t)'
    <2>1. Dependencies(audit, TRUE) = Dependencies(Latest(t), TRUE)
        BY <1>4 DEF Dependencies
    <2> QED BY <1>1, <2>1, LatestFacts, DependencyFields, ClaimsStand DEF IInv
<1> QED BY <1>3, <1>4, <1>5, <1>6, <1>7, ReviewKeeps

LEMMA InvalidateKeeps == ASSUME IInv, NEW t \in Tasks, Invalidate(t) PROVE IInv'
    BY VerdictKeeps DEF Invalidate, Sighted, Decides

LEMMA UndoInvalidationKeeps == ASSUME IInv, NEW t \in Tasks, UndoInvalidation(t) PROVE IInv'
    BY VerdictKeeps DEF UndoInvalidation, Decides

\* Rows and field sources of the requests that write fields.
LEMMA PatchedFacts ==
    ASSUME NEW r \in TaskRows, NEW patch \in Patches
    PROVE  /\ Patched(r, patch) \in TaskRows /\ DOMAIN patch \subseteq Fields
           /\ \A f \in Fields \ DOMAIN patch : Patched(r, patch)[f] = r[f]
<1>1. PICK S \in SUBSET Edited : patch \in [S -> Values]
    BY DEF Patches
<1>2. DOMAIN patch \subseteq Fields /\ "status" \notin DOMAIN patch
      /\ \A c \in DOMAIN patch : patch[c] \in Values
    BY <1>1, ReviewAssumption
<1>3. \A c \in Columns : r[c] \in Values \cup Statuses
    BY RowFields
<1>4. Patched(r, patch) \in [Columns -> Values \cup Statuses]
    BY <1>2, <1>3 DEF Patched
<1>5. /\ \A f \in Fields : Patched(r, patch)[f] = IF f \in DOMAIN patch THEN patch[f] ELSE r[f]
      /\ Patched(r, patch)["status"] = r["status"]
    BY <1>2 DEF Patched, Columns
<1>6. Patched(r, patch) \in TaskRows
    BY <1>2, <1>4, <1>5, RowFields DEF TaskRows
<1> QED BY <1>2, <1>5, <1>6

LEMMA OriginsFacts ==
    ASSUME NEW sources \in [Fields -> Origin], NEW fp \in Fingerprints, NEW r, NEW patch,
           Truthful(sources, r)
    PROVE  /\ Origins(sources, patch, fp) \in [Fields -> Origin]
           /\ \A new : (\A f \in Fields \ DOMAIN patch : new[f] = r[f]) =>
                          Truthful(Origins(sources, patch, fp), new)
           /\ \A audit : audit.fp = fp /\ audit.sources = Origins(sources, patch, fp) =>
                 \A dep \in Dependencies(audit, TRUE) :
                    dep = fp \/ \E f \in Fields : dep = sources[f].fp
<1>1. Source("human", fp) \in Origin /\ Source("human", fp).origin = "human"
      /\ Source("human", fp).fp = fp
    BY DEF Source, Origin
<1>2. Origins(sources, patch, fp) \in [Fields -> Origin]
    BY <1>1 DEF Origins
<1>3. \A f \in Fields : Origins(sources, patch, fp)[f] =
                           IF f \in DOMAIN patch THEN Source("human", fp) ELSE sources[f]
    BY DEF Origins
<1>4. \A new : (\A f \in Fields \ DOMAIN patch : new[f] = r[f]) =>
                  Truthful(Origins(sources, patch, fp), new)
    BY <1>1, <1>3 DEF Truthful
<1>5. ASSUME NEW audit, audit.fp = fp, audit.sources = Origins(sources, patch, fp),
             NEW dep \in Dependencies(audit, TRUE)
      PROVE  dep = fp \/ \E f \in Fields : dep = sources[f].fp
    BY <1>1, <1>3, <1>5 DEF Dependencies
<1> QED BY <1>2, <1>4, <1>5

\* The same, of one row.
LEMMA OriginsTruthful ==
    ASSUME NEW sources \in [Fields -> Origin], NEW fp \in Fingerprints, NEW r, NEW patch,
           Truthful(sources, r), NEW new, \A f \in Fields \ DOMAIN patch : new[f] = r[f]
    PROVE  Truthful(Origins(sources, patch, fp), new)
<1>1. /\ Source("human", fp).origin = "human"
      /\ \A f \in Fields : Origins(sources, patch, fp)[f] =
                             IF f \in DOMAIN patch THEN Source("human", fp) ELSE sources[f]
    BY DEF Origins, Source
<1> QED BY <1>1 DEF Truthful

\* A re-confirmation or an edit.
LEMMA PatchKeeps ==
    ASSUME IInv, NEW t \in Tasks, NEW action \in {"reconfirm", "edit"}, NEW fp \in Fingerprints,
           ClaimedBy(IdOf(fp.of), t), NEW patch \in Patches, Created(t), Room(t),
           Write(t, Patched(row[t], patch)), Submitted, UNCHANGED <<claims, merges>>,
           Record(t, Audit(action, "approved", fp, Patched(row[t], patch),
                           Origins(Latest(t).sources, patch, fp),
                           NewEvents(t, Patched(row[t], patch))))
    PROVE  IInv'
<1> DEFINE new == Patched(row[t], patch)
           sources == Origins(Latest(t).sources, patch, fp)
           audit == Audit(action, "approved", fp, new, sources, NewEvents(t, new))
<1>1. TypeOK /\ Latest(t) \in AuditRecords /\ row[t] \in TaskRows /\ Len(events[t]) < MaxEvents
    BY TaskFacts DEF IInv, Room
<1>2. new \in TaskRows /\ \A f \in Fields \ DOMAIN patch : new[f] = row[t][f]
    BY <1>1, PatchedFacts
<1>3. Latest(t).sources \in [Fields -> Origin] /\ Truthful(Latest(t).sources, row[t])
    BY <1>1, AuditFields, LatestFacts
<1>4. /\ sources \in [Fields -> Origin]
      /\ \A r : (\A f \in Fields \ DOMAIN patch : r[f] = row[t][f]) => Truthful(sources, r)
      /\ \A a : a.fp = fp /\ a.sources = sources =>
            \A dep \in Dependencies(a, TRUE) :
               dep = fp \/ \E f \in Fields : dep = Latest(t).sources[f].fp
    BY <1>3, OriginsFacts
<1>5. Decides(action, "approved")
    BY DEF Decides
<1>6. Record(t, audit) /\ Write(t, new)
    OBVIOUS
<1> HIDE DEF new, sources
<1>7. Truthful(sources, new)
    BY <1>2, <1>4
<1>8. Booked(t, new, audit) /\ audit.fp = fp /\ audit.sources = sources
    <2>1. audit = Audit(action, "approved", fp, new, sources, NewEvents(t, new))
        OBVIOUS
    <2> HIDE DEF audit
    <2> QED BY <1>1, <1>2, <1>4, <1>5, <1>7, <2>1, AuditBooked
<1> HIDE DEF audit
<1>9. claims' \in [Ids -> Seq(ClaimRecords)] /\ NoRelease
    BY <1>1, ClaimsStand
<1>10. \A dep \in Dependencies(audit, TRUE) : ClaimedBy(IdOf(dep.of), t)'
    <2>1. ASSUME NEW dep \in Dependencies(audit, TRUE) PROVE ClaimedBy(IdOf(dep.of), t)'
        <3>1. dep = fp \/ \E f \in Fields : dep = Latest(t).sources[f].fp
            BY <1>4, <1>8, <2>1
        <3>2. dep = fp \/ dep \in Dependencies(Latest(t), TRUE)
            BY <3>1 DEF Dependencies
        <3>3. ClaimedBy(IdOf(dep.of), t) /\ IdOf(dep.of) \in Ids
            BY <1>1, <3>2, LatestFacts, DependencyFields, FingerprintFields
        <3> QED BY <1>1, <3>3, ClaimsStand
    <2> QED BY <2>1
<1> QED BY <1>6, <1>8, <1>9, <1>10, ReviewKeeps

LEMMA ReconfirmKeeps ==
    ASSUME IInv, NEW t \in Tasks, NEW p \in Proposals, NEW patch \in Patches,
           Reconfirm(t, p, patch)
    PROVE  IInv'
<1>1. p \in Listed /\ Fingerprint(p) \in Fingerprints /\ Fingerprint(p).of = p
    BY FingerprintType DEF Reconfirm, IInv
<1>2. ClaimedBy(IdOf(Fingerprint(p).of), t)
    BY <1>1 DEF Reconfirm
<1> QED BY <1>1, <1>2, PatchKeeps DEF Reconfirm

LEMMA EditKeeps ==
    ASSUME IInv, NEW t \in Tasks, NEW patch \in Patches, EditFields(t, patch) PROVE IInv'
<1>1. Created(t) /\ Latest(t) \in AuditRecords
    BY TaskFacts DEF EditFields, IInv
<1>2. Latest(t).fp \in Fingerprints /\ ClaimedBy(IdOf(Latest(t).fp.of), t)
    BY <1>1, AuditFields, LatestFacts DEF Dependencies
<1> QED BY <1>1, <1>2, PatchKeeps DEF EditFields

\* TaskStore.set_status writes no audit.
LEMMA SetStatusKeeps ==
    ASSUME IInv, NEW t \in Tasks, NEW status \in Statuses, SetStatus(t, status) PROVE IInv'
<1> DEFINE new == [row[t] EXCEPT !["status"] = status]
<1>1. /\ Created(t) /\ Len(events[t]) < MaxEvents /\ Write(t, new) /\ Submitted
      /\ UNCHANGED <<reviews, claims, merges>> /\ TypeOK
    BY DEF SetStatus, Room, IInv
<1>2. row[t] \in TaskRows /\ reviews[t] \in Seq(AuditRecords) /\ reviews[t] # <<>>
    BY <1>1, TaskFacts DEF Created
<1>3. new \in TaskRows /\ \A f \in Fields : new[f] = row[t][f]
    <2>1. row[t] \in [Columns -> Values \cup Statuses]
        BY <1>2 DEF TaskRows
    <2>2. new \in [Columns -> Values \cup Statuses] /\ new["status"] = status
          /\ \A f \in Fields : new[f] = row[t][f]
        BY <2>1, ReviewAssumption DEF Columns
    <2> QED BY <1>2, <2>2, RowFields DEF TaskRows
<1> HIDE DEF new
<1>4. HoldTypeOK'
    BY <1>1 DEF TypeOK, HoldTypeOK, Submitted
<1>5. TypeOK'
    <2>1. reviews' = [reviews EXCEPT ![t] = reviews[t]]
        BY <1>1 DEF TypeOK
    <2>2. \A a \in DOMAIN reviews[t] :
              Verdict(reviews[t][a]) /\ reviews[t][a].events \subseteq DOMAIN WithEvents(t, new)
        BY <1>1, <1>3, LogGrows DEF TypeOK
    <2>3. Audits' <= MaxReviews
        BY <1>1 DEF TypeOK, Audits
    <2>4. claims' \in [Ids -> Seq(ClaimRecords)] /\ merges' \in [Tasks -> Seq(Operations)]
          /\ \A u \in Tasks \ {t} : merges'[u] = merges[u]
        BY <1>1 DEF TypeOK
    <2>5. UNCHANGED <<catalogue, published>>
        BY <1>1 DEF Submitted
    <2> QED BY <1>1, <1>2, <1>3, <1>4, <2>1, <2>2, <2>3, <2>4, <2>5, TypeTransaction
<1>6. AuditedHistory'
    <2>1. Explained(new, WithEvents(t, new), reviews[t])
        BY <1>1, <1>3, ExplainedStatus DEF IInv, AuditedHistory
    <2>2. /\ row'[t] = new /\ events'[t] = WithEvents(t, new)
          /\ \A u \in Tasks \ {t} : row'[u] = row[u] /\ events'[u] = events[u]
        BY <1>1 DEF Write, TypeOK
    <2>3. \A u \in Tasks : Created(u) => Explained(row'[u], events'[u], reviews[u])
        BY <2>1, <2>2 DEF IInv, AuditedHistory
    <2> QED BY <1>1, <2>3 DEF AuditedHistory, Created, Explained, Last, ValuesIn
<1>7. AuditsTruthful'
    BY <1>1 DEF IInv, AuditsTruthful, Truthful
<1>8. NoRelease /\ ReviewsGrow
    BY <1>1, ClaimsStand DEF ReviewsGrow
<1>9. (\A u \in Tasks : Recorded(u)' /\ Reversible(u)') /\ StackWellFormed'
    BY <1>1, <1>8, MergesStand
<1>10. BindingClaimed'
    BY <1>1 DEF IInv, BindingClaimed, Dependencies, ClaimedBy, Latest, Tip, Last, Created
<1> QED BY <1>5, <1>6, <1>7, <1>9, <1>10 DEF IInv

\* A transaction that claims the candidate the new audit is bound to.
LEMMA ClaimKeeps ==
    ASSUME IInv, NEW t \in Tasks, NEW p \in Listed, Free(IdOf(p)),
           NEW kind \in {"create", "merge"}, NEW action \in {"confirm", "rebind"},
           NEW new \in TaskRows, NEW sources \in [Fields -> Origin], Truthful(sources, new),
           \A f \in Fields : sources[f].fp = Fingerprint(p) \/
                             (Created(t) /\ sources[f] = Latest(t).sources[f]),
           Room(t), Write(t, new), Claim(Fingerprint(p), t, kind), Submitted, UNCHANGED merges,
           Record(t, Audit(action, "approved", Fingerprint(p), new, sources, NewEvents(t, new)))
    PROVE  IInv'
<1>0. PICK fp : fp = Fingerprint(p)
    OBVIOUS
<1> DEFINE audit == Audit(action, "approved", fp, new, sources, NewEvents(t, new))
<1>1. TypeOK /\ fp \in Fingerprints /\ fp.of = p /\ Len(events[t]) < MaxEvents
    BY <1>0, FingerprintType DEF IInv, Room
<1>2. Decides(action, "approved")
    BY DEF Decides
<1>3. Record(t, audit) /\ Claim(fp, t, kind)
    BY <1>0
<1>4. Booked(t, new, audit) /\ audit.fp = fp /\ audit.sources = sources
    <2>1. audit = Audit(action, "approved", fp, new, sources, NewEvents(t, new))
        OBVIOUS
    <2> HIDE DEF audit
    <2> QED BY <1>1, <1>2, <2>1, AuditBooked
<1> HIDE DEF audit
<1>5. t \in 0..MaxTasks /\ Free(IdOf(fp.of)) /\ kind \in {"create", "merge", "reject"}
    BY <1>1, ReviewAssumption DEF Tasks
<1>6. /\ claims' \in [Ids -> Seq(ClaimRecords)] /\ NoRelease
      /\ ClaimedBy(IdOf(fp.of), t)'
    BY <1>1, <1>3, <1>5, ClaimFacts
<1>7. ASSUME NEW dep \in Dependencies(audit, TRUE) PROVE ClaimedBy(IdOf(dep.of), t)'
    <2>1. dep = fp \/ \E f \in Fields : dep = sources[f].fp
        BY <1>4, <1>7 DEF Dependencies
    <2>2. CASE dep = fp
        BY <1>6, <2>2
    <2>3. CASE dep # fp
        <3>1. PICK f \in Fields : dep = Latest(t).sources[f].fp /\ Created(t)
            BY <1>0, <2>1, <2>3
        <3>2. dep \in Dependencies(Latest(t), TRUE) /\ Latest(t) \in AuditRecords
            BY <1>1, <3>1, TaskFacts DEF Dependencies
        <3>3. ClaimedBy(IdOf(dep.of), t) /\ IdOf(dep.of) \in Ids
            BY <3>1, <3>2, LatestFacts, DependencyFields
        <3> QED BY <1>6, <3>3, ClaimedStays DEF NoRelease
    <2> QED BY <2>2, <2>3
<1> QED BY <1>3, <1>4, <1>6, <1>7, ReviewKeeps

LEMMA ConfirmKeeps ==
    ASSUME IInv, NEW t \in Tasks, NEW p \in Proposals, NEW patch \in Patches,
           Confirm(t, p, patch)
    PROVE  IInv'
<1> DEFINE fp == Fingerprint(p)
           proposed == [c \in Columns |-> IF c = "status" THEN "open" ELSE Proposed[p].values[c]]
           new == Patched(proposed, patch)
           said == [f \in Fields |-> Source("source", fp)]
           sources == Origins(said, patch, fp)
<1>1. /\ ~Created(t) /\ Room(t) /\ p \in Listed /\ Free(IdOf(p)) /\ Write(t, new)
      /\ Claim(fp, t, "create") /\ Submitted /\ UNCHANGED merges
      /\ Record(t, Audit("confirm", "approved", fp, new, sources, {1}))
    BY DEF Confirm
<1>2. TypeOK /\ fp \in Fingerprints /\ fp.of = p
    BY <1>1, FingerprintType DEF IInv
<1>3. proposed \in TaskRows /\ \A f \in Fields : proposed[f] = Proposed[p].values[f]
    <2>1. \A f \in Fields : Proposed[p].values[f] \in Values /\ f # "status"
        BY ProposalFacts, ReviewAssumption
    <2> QED BY <2>1 DEF TaskRows, Columns, Statuses
<1>4. said \in [Fields -> Origin] /\ \A f \in Fields : said[f].fp = fp
    BY <1>2 DEF Source, Origin
<1>5. Truthful(said, proposed)
    BY <1>2, <1>3 DEF Truthful, Source
<1>6. new \in TaskRows /\ \A f \in Fields \ DOMAIN patch : new[f] = proposed[f]
    <2> HIDE DEF proposed
    <2> QED BY <1>3, PatchedFacts
<1>7. /\ sources \in [Fields -> Origin] /\ Truthful(sources, new)
      /\ \A f \in Fields : sources[f].fp = fp
    <2>1. sources \in [Fields -> Origin] /\ Truthful(sources, new)
        <3>1. /\ said \in [Fields -> Origin] /\ fp \in Fingerprints /\ Truthful(said, proposed)
              /\ \A f \in Fields \ DOMAIN patch : new[f] = proposed[f]
            BY <1>2, <1>4, <1>5, <1>6
        <3> HIDE DEF said, proposed, new, fp
        <3>2. Origins(said, patch, fp) \in [Fields -> Origin]
            BY ONLY <3>1, OriginsFacts
        <3>3. Truthful(Origins(said, patch, fp), new)
            BY ONLY <3>1, OriginsTruthful
        <3> QED BY <3>2, <3>3
    <2>2. \A f \in Fields : sources[f].fp = fp
        BY <1>4 DEF Origins, Source
    <2> QED BY <2>1, <2>2
<1> HIDE DEF new, sources, proposed, said
<1>8. NewEvents(t, new) = {1}
    <2>1. row[t] = NoTask /\ events[t] = <<>>
        BY <1>1, <1>2 DEF TypeOK
    <2>2. "status" \in ChangedColumns(row[t], new)
        BY <1>6, <2>1, RowFields, ReviewAssumption DEF ChangedColumns, NoTask, Columns
    <2>3. \A x : DOMAIN Append(<<>>, x) = {1} /\ DOMAIN (<<>>) = {}
        OBVIOUS
    <2> QED BY <2>1, <2>2, <2>3 DEF NewEvents, WithEvents
<1>9. Record(t, Audit("confirm", "approved", Fingerprint(p), new, sources, NewEvents(t, new)))
    BY <1>1, <1>8
<1> QED BY <1>1, <1>6, <1>7, <1>9, ClaimKeeps

LEMMA RebindKeeps ==
    ASSUME IInv, NEW t \in Tasks, NEW p \in Proposals, NEW choices \in Choices,
           Rebind(t, p, choices)
    PROVE  IInv'
<1> DEFINE fp == Fingerprint(p)
           human == ByHuman(t, p, choices)
           new == [c \in Columns |-> IF c \in DOMAIN choices THEN Chosen(t, p, choices, c)
                                                             ELSE row[t][c]]
           sources == [f \in Fields |->
               IF f \in human THEN Source("human", fp)
               ELSE IF f \in DOMAIN choices /\ choices[f] = "candidate" THEN Source("source", fp)
               ELSE Latest(t).sources[f]]
<1>1. /\ Created(t) /\ Room(t) /\ p \in Listed /\ Free(IdOf(p)) /\ Write(t, new)
      /\ Claim(fp, t, "merge") /\ Submitted /\ UNCHANGED merges
      /\ Record(t, Audit("rebind", "approved", fp, new, sources, NewEvents(t, new)))
    BY DEF Rebind, Sighted
<1>2. TypeOK /\ fp \in Fingerprints /\ fp.of = p /\ Latest(t) \in AuditRecords /\ row[t] \in TaskRows
    BY <1>1, FingerprintType, TaskFacts DEF IInv
<1>3. DOMAIN choices \subseteq Fields
      /\ \A f \in DOMAIN choices : choices[f] \in {"current", "candidate"} \cup Values
    BY DEF Choices
<1>4. \A f \in Fields : Proposed[p].values[f] \in Values /\ row[t][f] \in Values
    BY <1>2, ProposalFacts, RowFields
<1>5. new \in TaskRows
    <2>1. \A f \in DOMAIN choices : Chosen(t, p, choices, f) \in Values
        BY <1>3, <1>4 DEF Chosen
    <2>2. \A c \in Columns : new[c] \in Values \cup Statuses
        BY <1>2, <2>1, RowFields
    <2>3. \A f \in Fields : new[f] \in Values /\ f \in Columns
        BY <1>4, <2>1 DEF Columns
    <2>4. new["status"] \in Statuses
        BY <1>2, <1>3, RowFields, ReviewAssumption DEF Columns
    <2> QED BY <2>2, <2>3, <2>4 DEF TaskRows
<1>6. \A f \in Fields : Latest(t).sources[f] \in Origin
    BY <1>2, AuditFields
<1>7. /\ Source("human", fp) \in Origin /\ Source("human", fp).fp = fp
      /\ Source("human", fp).origin = "human"
      /\ Source("source", fp) \in Origin /\ Source("source", fp).fp = fp
    BY <1>2 DEF Source, Origin
<1>8. sources \in [Fields -> Origin]
    BY <1>6, <1>7
<1>9. \A f \in Fields : sources[f].fp = fp \/ sources[f] = Latest(t).sources[f]
    BY <1>7
<1>10. Truthful(sources, new)
    <2>1. ASSUME NEW f \in Fields, sources[f].origin = "source"
          PROVE  new[f] = Proposed[sources[f].fp.of].values[f]
        <3>1. f \in Columns /\ f \notin human
            BY <1>7, <2>1 DEF Columns
        <3>2. CASE f \in DOMAIN choices /\ choices[f] = "candidate"
            <4>1. sources[f] = Source("source", fp) /\ new[f] = Proposed[p].values[f]
                BY <3>1, <3>2 DEF Chosen
            <4> QED BY <1>2, <1>7, <4>1
        <3>3. CASE ~(f \in DOMAIN choices /\ choices[f] = "candidate")
            <4>1. sources[f] = Latest(t).sources[f]
                BY <3>1, <3>3
            <4>2. row[t][f] = Proposed[sources[f].fp.of].values[f]
                BY <1>1, <2>1, <4>1, LatestFacts DEF Truthful
            <4>3. f \in DOMAIN choices => choices[f] = "current"
                BY <1>3, <3>1, <3>3 DEF ByHuman
            <4>4. new[f] = row[t][f]
                BY <3>1, <4>3 DEF Chosen
            <4> QED BY <4>2, <4>4
        <3> QED BY <3>2, <3>3
    <2> QED BY <2>1 DEF Truthful
<1> HIDE DEF new, sources, human
<1> QED BY <1>1, <1>5, <1>8, <1>9, <1>10, ClaimKeeps

\* Steps that touch no task.
LEMMA TasksStand ==
    ASSUME IInv, UNCHANGED <<row, events, reviews, merges>>, NoRelease,
           claims' \in [Ids -> Seq(ClaimRecords)],
           catalogue' \in [Sources -> [version : Versions \cup {1}, active : BOOLEAN, epoch : 0..MaxEpoch]],
           published' \subseteq Proposals, HoldTypeOK'
    PROVE  IInv'
<1>1. TypeOK'
    BY DEF IInv, TypeOK, Audits, Created
<1>2. AuditedHistory'
    <2>1. \A t \in Tasks : Created(t) => Explained(row'[t], events'[t], reviews'[t])
        BY DEF IInv, AuditedHistory
    <2> QED BY <2>1 DEF AuditedHistory, Created, Explained, Last, ValuesIn
<1>3. AuditsTruthful'
    BY DEF IInv, AuditsTruthful, Truthful
<1>4. (\A u \in Tasks : Recorded(u)' /\ Reversible(u)') /\ StackWellFormed'
    BY MergesStand DEF ReviewsGrow
<1>5. ASSUME NEW t \in Tasks, Created(t), NEW fp \in Dependencies(Latest(t), TRUE)
      PROVE  ClaimedBy(IdOf(fp.of), t)'
    <2>1. ClaimedBy(IdOf(fp.of), t) /\ IdOf(fp.of) \in Ids
        BY <1>5, TaskFacts, DependencyFields DEF IInv, BindingClaimed
    <2> QED BY <2>1, ClaimedStays DEF NoRelease
<1>6. BindingClaimed'
    BY <1>5 DEF BindingClaimed, Created, Latest, Last, Dependencies
<1> QED BY <1>1, <1>2, <1>3, <1>4, <1>6 DEF IInv

LEMMA RejectKeeps == ASSUME IInv, NEW p \in Proposals, Reject(p) PROVE IInv'
<1>0. PICK fp : fp = Fingerprint(p)
    OBVIOUS
<1>1. fp \in Fingerprints /\ fp.of = p /\ Free(IdOf(fp.of)) /\ Claim(fp, 0, "reject")
    BY <1>0, FingerprintType DEF Reject, IInv
<1>2. 0 \in 0..MaxTasks
    BY ReviewAssumption
<1>3. claims' \in [Ids -> Seq(ClaimRecords)] /\ NoRelease
    BY <1>1, <1>2, ClaimFacts DEF IInv
<1>4. HoldTypeOK' /\ UNCHANGED <<catalogue, published>>
    BY DEF Reject, Submitted, IInv, TypeOK, HoldTypeOK
<1> QED BY <1>3, <1>4, TasksStand DEF Reject, IInv, TypeOK

\* The catalogue and the published proposals change under the tasks' feet.
LEMMA CatalogueKeeps ==
    ASSUME IInv, \/ \E s \in Sources : Remove(s) \/ \E v \in Versions : Upload(s, v)
                 \/ \E p \in Proposals : Publish(p)
    PROVE  IInv'
<1>1. UNCHANGED <<row, events, reviews, merges, claims, hold>>
    BY DEF Remove, Upload, Publish, ledger
<1>2. claims' \in [Ids -> Seq(ClaimRecords)] /\ NoRelease /\ HoldTypeOK'
    BY <1>1, ClaimsStand DEF IInv, TypeOK, HoldTypeOK
<1>3. catalogue \in [Sources -> [version : Versions \cup {1}, active : BOOLEAN, epoch : 0..MaxEpoch]]
      /\ published \subseteq Proposals /\ MaxEpoch \in Nat
    BY ReviewAssumption DEF IInv, TypeOK
<1>4. ASSUME NEW s \in Sources, Remove(s) PROVE IInv'
    <2>1. catalogue' \in [Sources -> [version : Versions \cup {1}, active : BOOLEAN, epoch : 0..MaxEpoch]]
          /\ published' = published
        BY <1>3, <1>4 DEF Remove
    <2> QED BY <1>1, <1>2, <1>3, <2>1, TasksStand
<1>5. ASSUME NEW s \in Sources, NEW v \in Versions, Upload(s, v) PROVE IInv'
    <2>1. catalogue' \in [Sources -> [version : Versions \cup {1}, active : BOOLEAN, epoch : 0..MaxEpoch]]
          /\ published' = published
        BY <1>3, <1>5 DEF Upload
    <2> QED BY <1>1, <1>2, <1>3, <2>1, TasksStand
<1>6. ASSUME NEW p \in Proposals, Publish(p) PROVE IInv'
    <2>1. catalogue' = catalogue /\ published' \subseteq Proposals
        BY <1>3, <1>6 DEF Publish
    <2> QED BY <1>1, <1>2, <1>3, <2>1, TasksStand
<1> QED BY <1>4, <1>5, <1>6

\* A preview is taken, or given up.
LEMMA HoldKeeps ==
    ASSUME IInv, \/ \E t \in Tasks, p \in Proposals, fields \in SUBSET Fields : PreviewMerge(t, p, fields)
                 \/ \E t \in Tasks : \E m \in DOMAIN merges[t] : PreviewUndo(t, m)
                 \/ Discard \/ UNCHANGED vars
    PROVE  IInv'
<1>1. UNCHANGED <<catalogue, published, row, events, reviews, merges, claims>>
    BY DEF PreviewMerge, PreviewUndo, Discard, ledger, vars
<1>2. claims' \in [Ids -> Seq(ClaimRecords)] /\ NoRelease
    BY <1>1, ClaimsStand DEF IInv
<1>3. ASSUME NEW t \in Tasks, NEW p \in Proposals, NEW fields \in SUBSET Fields, PreviewMerge(t, p, fields)
      PROVE  HoldTypeOK'
    BY <1>3 DEF PreviewMerge, MergePreview, HoldTypeOK
<1>4. ASSUME NEW t \in Tasks, NEW m \in DOMAIN merges[t], PreviewUndo(t, m)
      PROVE  HoldTypeOK'
    BY <1>4 DEF PreviewUndo, UndoPreview, HoldTypeOK
<1>5. ASSUME Discard \/ UNCHANGED vars
      PROVE  HoldTypeOK'
    BY <1>5 DEF Discard, vars, HoldTypeOK, Nothing, IInv, TypeOK
<1>6. HoldTypeOK'
    BY <1>3, <1>4, <1>5
<1> QED BY <1>1, <1>2, <1>6, TasksStand DEF IInv, TypeOK

-----------------------------------------------------------------------------
(* The stack of merges.                                                    *)

LEMMA ActiveIsInForce ==
    ASSUME TypeOK, NEW t \in Tasks, Recorded(t)
    PROVE  /\ Active(t) = InForce(merges[t], Len(merges[t]) + 1)
           /\ Active(t) \subseteq DOMAIN merges[t] /\ Active(t) \subseteq Nat \ {0}
           /\ \A k \in Active(t) : merges[t][k].op = "merge"
           /\ Top(t) = Highest(Active(t))
<1>1. merges[t] \in Seq(Operations) /\ Len(merges[t]) \in Nat
      /\ DOMAIN merges[t] = 1..Len(merges[t])
    BY DEF TypeOK
<1>2. 1..((Len(merges[t]) + 1) - 1) = DOMAIN merges[t]
    BY <1>1
<1>3. Active(t) = {m \in DOMAIN merges[t] :
                      merges[t][m].op = "merge" /\ \A u \in DOMAIN merges[t] : merges[t][u].target # m}
    BY DEF Active, Undone
<1> QED BY <1>1, <1>2, <1>3 DEF InForce, Top, Highest

\* A set of naturals bounded by one of its members has a highest one.
LEMMA HighestOf ==
    ASSUME NEW S, S \subseteq Nat, NEW m \in S, \A n \in S : n <= m
    PROVE  Highest(S) = m
<1>1. ASSUME NEW k \in S, \A n \in S : n <= k PROVE k = m
    <2>1. k <= m /\ m <= k /\ k \in Nat /\ m \in Nat
        BY <1>1
    <2> QED BY <2>1
<1> QED BY <1>1 DEF Highest

\* An operation is appended: what was in force before an earlier one still is.
LEMMA InForceStays ==
    ASSUME NEW ops \in Seq(Operations), NEW op \in Operations, NEW k \in 1..(Len(ops) + 1)
    PROVE  InForce(Append(ops, op), k) = InForce(ops, k)
<1>1. \A m \in 1..(k - 1) : m \in DOMAIN ops /\ Append(ops, op)[m] = ops[m]
    BY Appended
<1> QED BY <1>1 DEF InForce

LEMMA ActiveAfter ==
    ASSUME TypeOK, NEW t \in Tasks, Recorded(t), NEW op \in Operations,
           merges'[t] = Append(merges[t], op), op.target <= Len(merges[t])
    PROVE  /\ op.op = "merge" /\ op.target = 0 =>
                 Active(t)' = Active(t) \cup {Len(merges[t]) + 1}
           /\ op.op = "undo" => Active(t)' = Active(t) \ {op.target}
<1> DEFINE n == Len(merges[t]) + 1
           ops == merges'[t]
<1>1. merges[t] \in Seq(Operations) /\ Len(merges[t]) \in Nat
      /\ DOMAIN merges[t] = 1..Len(merges[t])
    BY DEF TypeOK
<1>2. /\ DOMAIN ops = DOMAIN merges[t] \cup {n} /\ ops[n] = op /\ n \notin DOMAIN merges[t]
      /\ \A m \in DOMAIN merges[t] : ops[m] = merges[t][m]
    BY <1>1, Appended
<1>3. \A m \in DOMAIN merges[t] : merges[t][m].target < n /\ merges[t][m].target # n
    BY <1>1 DEF Recorded
<1>4. op.target # n /\ 0 \notin DOMAIN ops
    BY <1>1, <1>2 DEF Operations
<1>5. Active(t)' = {m \in DOMAIN ops : ops[m].op = "merge" /\ \A u \in DOMAIN ops : ops[u].target # m}
    BY DEF Active, Undone
<1>6. Active(t) = {m \in DOMAIN merges[t] :
                      merges[t][m].op = "merge" /\ \A u \in DOMAIN merges[t] : merges[t][u].target # m}
    BY DEF Active, Undone
<1> HIDE DEF ops, n
<1>7. ASSUME op.op = "merge", op.target = 0, NEW m
      PROVE  m \in Active(t)' <=> m \in Active(t) \cup {n}
    <2>1. CASE m = n
        BY <1>2, <1>3, <1>4, <1>5, <1>7, <2>1
    <2>2. CASE m # n
        BY <1>2, <1>4, <1>5, <1>6, <1>7, <2>2
    <2> QED BY <2>1, <2>2
<1>8. ASSUME op.op = "undo", NEW m
      PROVE  m \in Active(t)' <=> m \in Active(t) \ {op.target}
    <2>1. CASE m = n
        BY <1>2, <1>5, <1>6, <1>8, <2>1
    <2>2. CASE m # n
        BY <1>2, <1>5, <1>6, <1>8, <2>2
    <2> QED BY <2>1, <2>2
<1> QED BY <1>7, <1>8 DEF n

\* A bounded set of naturals has a highest member.
LEMMA HighestIn ==
    ASSUME NEW n \in Nat, NEW S \in SUBSET (1..n), S # {}
    PROVE  Highest(S) \in S /\ \A k \in S : k <= Highest(S)
<1> DEFINE Above == {n - k : k \in S}
           R == {ss \in Nat \X Nat : ss[1] < ss[2]}
<1>1. \A k \in S : k \in Nat /\ n - k \in Nat
    OBVIOUS
<1>2. Above \subseteq Nat /\ Above # {}
    BY <1>1
<1>3. IsWellFoundedOn(R, Nat)
    BY NatLessThanWellFounded DEF OpToRel
<1>4. PICK x \in Above : \A y \in Above : ~(<<y, x>> \in R)
    <2> HIDE DEF Above, R
    <2> QED BY <1>2, <1>3, WFMin
<1>5. PICK m \in S : x = n - m
    OBVIOUS
<1>6. ASSUME NEW k \in S PROVE k <= m
    <2>1. n - k \in Above /\ n - k \in Nat /\ n - m \in Nat /\ k \in Nat /\ m \in Nat
        BY <1>1
    <2>2. ~(n - k < n - m)
        BY <1>4, <1>5, <2>1
    <2> QED BY <2>1, <2>2
<1> QED BY <1>1, <1>5, <1>6, HighestOf

\* What every operation before the new one was, it still is.
LEMMA StackedAfter ==
    ASSUME IInv, NEW t \in Tasks, NEW op \in Operations, merges'[t] = Append(merges[t], op),
           op.op = "merge" => op.parent = Top(t),
           op.op = "undo" => op.target = Top(t) /\ op.parent = merges[t][Top(t)].parent
                             /\ Top(t) \in DOMAIN merges[t],
           \A k \in Active(t)' : (StillClaimed(t, k) /\ ClaimedBy(IdOf(merges[t][k].fp.of), t))'
    PROVE  Stacked(t)'
<1> DEFINE n == Len(merges[t]) + 1
           ops == merges'[t]
<1>1. merges[t] \in Seq(Operations) /\ Len(merges[t]) \in Nat
      /\ DOMAIN merges[t] = 1..Len(merges[t]) /\ TypeOK /\ Recorded(t) /\ Stacked(t)
    BY DEF IInv, TypeOK, StackWellFormed
<1>2. /\ DOMAIN ops = DOMAIN merges[t] \cup {n} /\ ops[n] = op
      /\ \A m \in DOMAIN merges[t] : ops[m] = merges[t][m]
    BY <1>1, Appended
<1>3. \A k \in 1..n : InForce(ops, k) = InForce(merges[t], k)
    BY <1>1, InForceStays
<1>4. Top(t) = Highest(InForce(merges[t], n))
    BY <1>1, ActiveIsInForce
<1> HIDE DEF ops
<1>5. ASSUME NEW k \in DOMAIN ops
      PROVE  LET o == ops[k]
                 top == Highest(InForce(ops, k))
             IN /\ o.op = "merge" => o.parent = top
                /\ o.op = "undo" => o.target = top /\ o.parent = ops[top].parent
    <2>1. CASE k = n
        <3>1. ops[k] = op /\ Highest(InForce(ops, k)) = Top(t)
            BY <1>1, <1>2, <1>3, <1>4, <2>1
        <3> QED BY <1>2, <3>1
    <2>2. CASE k \in DOMAIN merges[t]
        <3>1. ops[k] = merges[t][k] /\ InForce(ops, k) = InForce(merges[t], k)
            BY <1>1, <1>2, <1>3, <2>2
        <3>2. LET o == merges[t][k]
                  top == Highest(InForce(merges[t], k))
              IN /\ o.op = "merge" => o.parent = top
                 /\ o.op = "undo" => o.target = top /\ o.parent = merges[t][top].parent
            BY <1>1, <2>2 DEF Stacked
        <3>3. ASSUME merges[t][k].op = "undo"
              PROVE  merges[t][k].target \in DOMAIN merges[t]
            <4>1. merges[t][k].target \in 0..(k - 1) /\ merges[t][k].target # 0
                BY <1>1, <2>2, <3>3 DEF Recorded
            <4> QED BY <1>1, <2>2, <4>1
        <3> QED BY <1>2, <3>1, <3>2, <3>3
    <2> QED BY <1>2, <2>1, <2>2
<1>6. \A k \in DOMAIN ops :
          k \in Active(t)' => (StillClaimed(t, k) /\ ClaimedBy(IdOf(merges[t][k].fp.of), t))'
    OBVIOUS
<1>7. ASSUME NEW k \in DOMAIN merges'[t]
      PROVE  (LET o == merges[t][k]
                  top == Highest(InForce(merges[t], k))
              IN /\ o.op = "merge" => o.parent = top
                 /\ o.op = "undo" => o.target = top /\ o.parent = merges[t][top].parent
                 /\ k \in Active(t) => StillClaimed(t, k) /\ ClaimedBy(IdOf(o.fp.of), t))'
    BY <1>5, <1>6 DEF ops
<1> QED BY <1>7 DEF Stacked

\* A transaction that records an operation of one task.
LEMMA OperationKeeps ==
    ASSUME IInv, NEW t \in Tasks, Created(t), NEW new, NEW audit, Posted(t, new, audit),
           reviews' = [reviews EXCEPT ![t] = Append(@, audit)] \/ Audits + 2 <= MaxReviews,
           claims' \in [Ids -> Seq(ClaimRecords)], OthersKeep(t), HoldTypeOK',
           \A fp \in Dependencies(audit, TRUE) : ClaimedBy(IdOf(fp.of), t)',
           NEW op \in Operations, merges' = [merges EXCEPT ![t] = Append(@, op)],
           op.was = Len(reviews[t]), op.before = row[t], op.target <= Len(merges[t]),
           op.op = "merge" => /\ op.target = 0 /\ op.parent = Top(t)
                              /\ \A c \in Columns \ op.fields : op.after[c] = op.before[c],
           op.op = "undo" => /\ op.target = Top(t) /\ op.parent = merges[t][Top(t)].parent
                             /\ Top(t) \in DOMAIN merges[t],
           \A k \in Active(t)' : (StillClaimed(t, k) /\ ClaimedBy(IdOf(merges[t][k].fp.of), t))',
           Reversible(t)'
    PROVE  IInv'
<1>1. /\ merges \in [Tasks -> Seq(Operations)] /\ merges[t] \in Seq(Operations) /\ TypeOK
      /\ DOMAIN merges[t] = 1..Len(merges[t]) /\ Len(merges[t]) \in Nat
    BY DEF IInv, TypeOK
<1>2. /\ Append(merges[t], op) \in Seq(Operations) /\ merges'[t] = Append(merges[t], op)
      /\ DOMAIN merges'[t] = DOMAIN merges[t] \cup {Len(merges[t]) + 1}
      /\ merges'[t][Len(merges[t]) + 1] = op
      /\ \A k \in DOMAIN merges[t] : merges'[t][k] = merges[t][k]
    BY <1>1, Appended
<1>3. merges' \in [Tasks -> Seq(Operations)] /\ \A u \in Tasks \ {t} : merges'[u] = merges[u]
    BY <1>1, <1>2
<1>4. TypeOK'
    <2>1. /\ Booked(t, new, audit) /\ Room(t) /\ Write(t, new) /\ UNCHANGED <<catalogue, published>>
          /\ \/ reviews' = [reviews EXCEPT ![t] = Append(@, audit)]
             \/ reviews' = [reviews EXCEPT ![t] = Append(Append(@, audit), Withdrawn(audit))]
                /\ Audits + 2 <= MaxReviews
        BY DEF Posted
    <2> QED BY <1>1, <1>3, <2>1, TypeBooked
<1>5. AuditedHistory' /\ AuditsTruthful' /\ BindingClaimed'
    BY <1>1, HistoryPosted, TruthfulPosted, BindingPosted DEF IInv
<1>6. ReviewsGrow
    BY <1>1, PostedFacts DEF ReviewsGrow
<1>7. ASSUME NEW u \in Tasks \ {t} PROVE Recorded(u)' /\ Reversible(u)' /\ Stacked(u)'
    BY <1>3, <1>6, TaskMergesStand DEF ReviewsGrow, OthersKeep
<1>8. Recorded(t)'
    <2>1. ASSUME NEW k \in DOMAIN merges'[t]
          PROVE  /\ merges'[t][k].was \in DOMAIN reviews'[t]
                 /\ reviews'[t][merges'[t][k].was].values = ValuesIn(merges'[t][k].before)
                 /\ merges'[t][k].target \in 0..(k - 1)
                 /\ merges'[t][k].op = "merge" <=> merges'[t][k].target = 0
                 /\ merges'[t][k].op = "merge" =>
                       \A c \in Columns \ merges'[t][k].fields :
                          merges'[t][k].after[c] = merges'[t][k].before[c]
        <3>1. CASE k \in DOMAIN merges[t]
            <4>1. /\ merges[t][k].was \in DOMAIN reviews[t]
                  /\ reviews[t][merges[t][k].was].values = ValuesIn(merges[t][k].before)
                  /\ merges[t][k].target \in 0..(k - 1)
                  /\ merges[t][k].op = "merge" <=> merges[t][k].target = 0
                  /\ merges[t][k].op = "merge" =>
                        \A c \in Columns \ merges[t][k].fields :
                           merges[t][k].after[c] = merges[t][k].before[c]
                BY <3>1 DEF IInv, Recorded
            <4> QED BY <1>2, <1>6, <3>1, <4>1 DEF ReviewsGrow
        <3>2. CASE k = Len(merges[t]) + 1
            <4>1. Len(reviews[t]) \in DOMAIN reviews[t]
                  /\ reviews[t][Len(reviews[t])].values = ValuesIn(row[t])
                BY <1>1, TaskFacts, LatestFacts
            <4>2. /\ op.was \in DOMAIN reviews'[t]
                  /\ reviews'[t][op.was].values = ValuesIn(op.before)
                BY <1>6, <4>1 DEF ReviewsGrow
            <4>3. op.target \in Nat /\ op.op \in {"merge", "undo"}
                BY DEF Operations
            <4>4. op.target \in 0..(k - 1)
                BY <1>1, <3>2, <4>3
            <4>5. op.op = "merge" <=> op.target = 0
                BY <1>1, <4>3
            <4> QED BY <1>2, <3>2, <4>2, <4>4, <4>5
        <3> QED BY <1>2, <3>1, <3>2
    <2> QED BY <2>1 DEF Recorded, ValuesIn
<1>9. Stacked(t)'
    <2>1. op.op = "merge" => op.parent = Top(t)
        OBVIOUS
    <2> QED BY <1>2, <2>1, StackedAfter
<1>10. \A u \in Tasks : Recorded(u)' /\ Reversible(u)' /\ Stacked(u)'
    BY <1>7, <1>8, <1>9
<1> QED BY <1>4, <1>5, <1>10 DEF IInv, StackWellFormed

LEMMA TopFacts ==
    ASSUME TypeOK, NEW t \in Tasks, Recorded(t)
    PROVE  /\ Top(t) \in Nat /\ \A k \in Active(t) : k <= Top(t)
           /\ Top(t) # 0 => Top(t) \in Active(t)
<1>1. /\ Top(t) = Highest(Active(t)) /\ Active(t) \subseteq DOMAIN merges[t]
      /\ Len(merges[t]) \in Nat /\ DOMAIN merges[t] = 1..Len(merges[t])
    BY ActiveIsInForce DEF TypeOK
<1>2. CASE Active(t) = {}
    BY <1>2 DEF Top
<1>3. CASE Active(t) # {}
    <2>1. Active(t) \in SUBSET (1..Len(merges[t]))
        BY <1>1
    <2>2. Highest(Active(t)) \in Active(t) /\ \A k \in Active(t) : k <= Highest(Active(t))
        BY <1>1, <1>3, <2>1, HighestIn
    <2> QED BY <1>1, <2>1, <2>2
<1> QED BY <1>2, <1>3

\* An active merge whose candidate nobody touches.
LEMMA ActiveStays ==
    ASSUME IInv, NEW t \in Tasks, NEW k \in Active(t), merges'[t][k] = merges[t][k],
           claims'[IdOf(merges[t][k].fp.of)] = claims[IdOf(merges[t][k].fp.of)]
    PROVE  (StillClaimed(t, k) /\ ClaimedBy(IdOf(merges[t][k].fp.of), t))'
<1>1. k \in DOMAIN merges[t] /\ IdOf(merges[t][k].fp.of) \in Ids
    BY OperationFields DEF IInv, Active
<1>2. StillClaimed(t, k) /\ ClaimedBy(IdOf(merges[t][k].fp.of), t)
    BY <1>1 DEF IInv, StackWellFormed, Stacked
<1> QED BY <1>1, <1>2 DEF StillClaimed, ClaimedBy, Tip, Last

\* What an active merge and the audit below it rest on.
LEMMA RestsOn ==
    ASSUME IInv, NEW t \in Tasks, NEW k \in Active(t)
    PROVE  /\ k \in DOMAIN merges[t] /\ k \in Nat /\ k <= Len(merges[t]) /\ Len(merges[t]) \in Nat
           /\ merges[t][k].was \in DOMAIN reviews[t]
           /\ reviews[t][merges[t][k].was] \in AuditRecords
           /\ IdOf(merges[t][k].fp.of) \in Ids /\ ClaimedBy(IdOf(merges[t][k].fp.of), t)
           /\ \A fp \in Dependencies(reviews[t][merges[t][k].was], TRUE) :
                 IdOf(fp.of) \in Ids /\ ClaimedBy(IdOf(fp.of), t)
<1>1. k \in DOMAIN merges[t]
    BY DEF Active
<1>2. merges[t][k].was \in DOMAIN reviews[t] /\ reviews[t][merges[t][k].was] \in AuditRecords
    BY <1>1 DEF IInv, Recorded, TypeOK
<1>3. IdOf(merges[t][k].fp.of) \in Ids /\ ClaimedBy(IdOf(merges[t][k].fp.of), t)
    BY <1>1, OperationFields DEF IInv, StackWellFormed, Stacked
<1>4. \A fp \in Dependencies(reviews[t][merges[t][k].was], TRUE) :
          IdOf(fp.of) \in Ids /\ ClaimedBy(IdOf(fp.of), t)
    BY <1>2, DependencyFields DEF IInv, Reversible
<1> QED BY <1>1, <1>2, <1>3, <1>4, OperationFields DEF IInv

LEMMA ApplyMergeKeeps ==
    ASSUME IInv, NEW t \in Tasks, NEW p \in Proposals, NEW fields \in SUBSET Fields,
           ApplyMerge(t, p, fields), HoldTypeOK'
    PROVE  IInv'
<1>0. PICK fp : fp = Fingerprint(p)
    OBVIOUS
<1> DEFINE new == [c \in Columns |-> IF c \in fields THEN Proposed[p].values[c] ELSE row[t][c]]
           sources == [f \in Fields |-> IF f \in fields THEN Source("source", fp)
                                                       ELSE Latest(t).sources[f]]
           audit == Audit("rebind", "approved", fp, new, sources, NewEvents(t, new))
           n == Len(merges[t]) + 1
           op == [op |-> "merge", target |-> 0, parent |-> Top(t), audit |-> Len(reviews[t]) + 1,
                  fp |-> fp, claim |-> Len(claims[IdOf(p)]) + 1, before |-> row[t], after |-> new,
                  was |-> Len(reviews[t]), fields |-> fields, tail |-> Len(events[t]),
                  events |-> audit.events]
<1>1. /\ Created(t) /\ p \in Listed /\ Free(IdOf(p)) /\ Room(t)
      /\ Audits + Len(SeenAgain(audit)) <= MaxReviews
      /\ Write(t, new) /\ Claim(fp, t, "merge")
      /\ reviews' = [reviews EXCEPT ![t] = @ \o SeenAgain(audit)]
      /\ merges' = [merges EXCEPT ![t] = Append(@, op)]
      /\ UNCHANGED <<catalogue, published>>
    BY <1>0 DEF ApplyMerge, MayMerge
<1>2. /\ TypeOK /\ fp \in Fingerprints /\ fp.of = p /\ row[t] \in TaskRows
      /\ Latest(t) \in AuditRecords /\ Len(events[t]) < MaxEvents
      /\ Len(reviews[t]) \in DOMAIN reviews[t] /\ Latest(t) = reviews[t][Len(reviews[t])]
    BY <1>0, <1>1, FingerprintType, TaskFacts DEF IInv, Room
<1>3. /\ merges \in [Tasks -> Seq(Operations)] /\ reviews[t] \in Seq(AuditRecords)
      /\ Recorded(t) /\ t \in 0..MaxTasks
    <2>1. merges \in [Tasks -> Seq(Operations)] /\ reviews[t] \in Seq(AuditRecords)
        BY <1>2 DEF TypeOK
    <2>2. t \in 0..MaxTasks
        BY ReviewAssumption DEF Tasks
    <2> QED BY <1>0, <2>1, <2>2 DEF IInv
<1>4. new \in TaskRows /\ \A c \in Columns \ fields : new[c] = row[t][c]
    <2>1. \A f \in Fields : Proposed[p].values[f] \in Values /\ row[t][f] \in Values /\ f \in Columns
        BY <1>2, ProposalFacts, RowFields DEF Columns
    <2>2. "status" \notin fields /\ row[t]["status"] \in Statuses /\ "status" \in Columns
        BY <1>2, RowFields, ReviewAssumption DEF Columns
    <2>3. \A c \in Columns : row[t][c] \in Values \cup Statuses
        BY <1>2, RowFields
    <2> QED BY <2>1, <2>2, <2>3 DEF TaskRows
<1>5. sources \in [Fields -> Origin] /\ Truthful(sources, new)
      /\ \A f \in Fields : sources[f].fp = fp \/ sources[f] = Latest(t).sources[f]
    <2>1. /\ Source("source", fp) \in Origin /\ Source("source", fp).fp = fp
          /\ \A f \in Fields : Latest(t).sources[f] \in Origin
        BY <1>2, AuditFields DEF Source, Origin
    <2>2. \A f \in Fields : f \in Columns
        BY DEF Columns
    <2>3. Truthful(Latest(t).sources, row[t])
        BY <1>1, LatestFacts
    <2> QED BY <1>2, <2>1, <2>2, <2>3 DEF Truthful
<1> HIDE DEF new, sources
<1>6. /\ Booked(t, new, audit) /\ audit \in AuditRecords /\ audit.fp = fp
      /\ audit.sources = sources
    <2>1. audit = Audit("rebind", "approved", fp, new, sources, NewEvents(t, new))
          /\ Decides("rebind", "approved")
        BY DEF Decides
    <2> HIDE DEF audit
    <2> QED BY <1>2, <1>4, <1>5, <2>1, AuditBooked
<1> HIDE DEF audit
<1>7. \/ reviews' = [reviews EXCEPT ![t] = Append(@, audit)]
      \/ reviews' = [reviews EXCEPT ![t] = Append(Append(@, audit), Withdrawn(audit))]
         /\ Audits + 2 <= MaxReviews
    <2>1. Withdrawn(audit) \in AuditRecords
        BY <1>6, WithdrawnFields
    <2>2. /\ reviews[t] \o <<audit>> = Append(reviews[t], audit)
          /\ reviews[t] \o <<audit, Withdrawn(audit)>> = Append(Append(reviews[t], audit), Withdrawn(audit))
        BY <1>3, <1>6, <2>1, TwoAppended
    <2>3. Len(<<audit, Withdrawn(audit)>>) = 2
        OBVIOUS
    <2>4. CASE Valid(audit, TRUE)
        BY <1>1, <2>2, <2>4 DEF SeenAgain
    <2>5. CASE ~Valid(audit, TRUE)
        BY <1>1, <2>2, <2>3, <2>5 DEF SeenAgain
    <2> QED BY <2>4, <2>5
<1>8. Posted(t, new, audit)
    BY <1>1, <1>6, <1>7 DEF Posted
<1>9. /\ claims' \in [Ids -> Seq(ClaimRecords)] /\ NoRelease /\ ClaimedBy(IdOf(p), t)'
      /\ IdOf(p) \in Ids
      /\ Len(claims'[IdOf(p)]) = Len(claims[IdOf(p)]) + 1 /\ ~ClaimedBy(IdOf(p), t)
    <2>1. Free(IdOf(fp.of)) /\ "merge" \in {"create", "merge", "reject"}
        BY <1>1, <1>2
    <2> QED BY <1>1, <1>2, <1>3, <2>1, ClaimFacts
<1>10. OthersKeep(t)
    BY <1>9 DEF NoRelease, OthersKeep
<1>11. \A dep \in Dependencies(audit, TRUE) : ClaimedBy(IdOf(dep.of), t)'
    <2>1. ASSUME NEW dep \in Dependencies(audit, TRUE) PROVE ClaimedBy(IdOf(dep.of), t)'
        <3>1. dep = fp \/ \E f \in Fields : dep = Latest(t).sources[f].fp
            BY <1>5, <1>6, <2>1 DEF Dependencies
        <3>2. CASE dep = fp
            BY <1>2, <1>9, <3>2
        <3>3. CASE dep # fp
            <4>1. dep \in Dependencies(Latest(t), TRUE)
                BY <3>1, <3>3 DEF Dependencies
            <4>2. ClaimedBy(IdOf(dep.of), t) /\ IdOf(dep.of) \in Ids
                BY <1>1, <1>2, <4>1, LatestFacts, DependencyFields
            <4> QED BY <1>9, <4>2, ClaimedStays DEF NoRelease
        <3> QED BY <3>2, <3>3
    <2> QED BY <2>1
<1>12. /\ op \in Operations /\ op.op = "merge" /\ op.target = 0 /\ op.parent = Top(t)
       /\ op.was = Len(reviews[t]) /\ op.before = row[t] /\ op.after = new /\ op.fields = fields
       /\ op.fp = fp /\ op.claim = Len(claims[IdOf(p)]) + 1
    <2>1. Top(t) \in Nat
        BY <1>2, <1>3, TopFacts
    <2>2. /\ Len(reviews[t]) + 1 \in Nat /\ Len(reviews[t]) \in Nat /\ Len(events[t]) \in Nat
          /\ Len(claims[IdOf(p)]) + 1 \in Nat /\ audit.events \in SUBSET (1..MaxEvents)
        BY <1>2, <1>6, <1>9, AuditFields DEF TypeOK
    <2> QED BY <1>2, <1>4, <2>1, <2>2 DEF Operations
<1> HIDE DEF op
<1>13. /\ merges'[t] = Append(merges[t], op) /\ merges'[t][n] = op /\ Len(merges[t]) \in Nat
       /\ \A k \in DOMAIN merges[t] : merges'[t][k] = merges[t][k]
    BY <1>1, <1>3, <1>12, Appended
<1>14. Active(t)' = Active(t) \cup {n}
    BY <1>2, <1>3, <1>12, <1>13, ActiveAfter
<1>15. ASSUME NEW k \in Active(t)'
       PROVE  (StillClaimed(t, k) /\ ClaimedBy(IdOf(merges[t][k].fp.of), t))'
    <2>1. CASE k \in Active(t)
        BY <1>9, <1>13, <2>1, RestsOn, ActiveStays DEF NoRelease
    <2>2. CASE k = n
        <3>1. merges'[t][k].fp.of = p /\ merges'[t][k].claim = Len(claims'[IdOf(p)])
            BY <1>2, <1>9, <1>12, <1>13, <2>2
        <3>2. Last(claims'[IdOf(p)]).op = "claim"
            BY <1>9 DEF ClaimedBy, Tip, Last
        <3>3. StillClaimed(t, k)'
            BY <3>1, <3>2 DEF StillClaimed, Last
        <3>4. ClaimedBy(IdOf(merges[t][k].fp.of), t)'
            BY <1>9, <3>1 DEF ClaimedBy, Tip, Last
        <3> QED BY <3>3, <3>4
    <2> QED BY <1>14, <2>1, <2>2
<1>16. Reversible(t)'
    <2>1. ASSUME NEW k \in Active(t)'
          PROVE  /\ merges'[t][k].was \in DOMAIN reviews[t]
                 /\ reviews'[t][merges'[t][k].was] = reviews[t][merges'[t][k].was]
                 /\ \A dep \in Dependencies(reviews[t][merges'[t][k].was], TRUE) :
                       IdOf(dep.of) \in Ids /\ ClaimedBy(IdOf(dep.of), t)
        <3>1. merges'[t][k].was \in DOMAIN reviews[t]
            BY <1>2, <1>12, <1>13, <1>14, RestsOn
        <3>2. reviews'[t][merges'[t][k].was] = reviews[t][merges'[t][k].was]
            BY <1>2, <1>8, <3>1, PostedFacts
        <3>3. CASE k \in Active(t)
            BY <1>13, <3>1, <3>2, <3>3, RestsOn
        <3>4. CASE k = n
            <4>1. reviews[t][merges'[t][k].was] = Latest(t)
                BY <1>2, <1>12, <1>13, <3>4
            <4> QED BY <1>1, <1>2, <3>1, <3>2, <4>1, LatestFacts, DependencyFields
        <3> QED BY <1>14, <3>3, <3>4
    <2>2. ASSUME NEW k \in Active(t)', NEW j \in Active(t)', j # k
          PROVE  IdOf(merges'[t][j].fp.of) # IdOf(merges'[t][k].fp.of)
        <3>1. \A i \in Active(t) : merges'[t][i] = merges[t][i]
                                   /\ ClaimedBy(IdOf(merges[t][i].fp.of), t)
            BY <1>13, RestsOn
        <3>2. IdOf(merges'[t][n].fp.of) = IdOf(p)
            BY <1>2, <1>12, <1>13
        <3>3. CASE k \in Active(t) /\ j \in Active(t)
            <4>1. IdOf(merges[t][j].fp.of) # IdOf(merges[t][k].fp.of)
                BY <2>2, <3>3 DEF IInv, Reversible
            <4> QED BY <3>1, <3>3, <4>1
        <3>4. CASE k = n /\ j \in Active(t)
            BY <1>9, <3>1, <3>2, <3>4
        <3>5. CASE j = n /\ k \in Active(t)
            BY <1>9, <3>1, <3>2, <3>5
        <3> QED BY <1>14, <2>2, <3>3, <3>4, <3>5
    <2>3. ASSUME NEW k \in Active(t)', NEW dep \in Dependencies(reviews[t][merges'[t][k].was], TRUE),
                 NEW j \in Active(t)', j >= k
          PROVE  IdOf(merges'[t][j].fp.of) # IdOf(dep.of)
        <3>1. CASE j = n
            BY <1>2, <1>9, <1>12, <1>13, <2>1, <3>1
        <3>2. CASE j \in Active(t)
            <4>1. k \in Active(t)
                <5>1. j \in Nat /\ j <= Len(merges[t])
                    BY <3>2, RestsOn
                <5>2. ~(n <= j)
                    BY <1>13, <5>1
                <5> QED BY <1>14, <2>3, <5>2
            <4>2. merges'[t][k] = merges[t][k] /\ merges'[t][j] = merges[t][j]
                BY <1>13, <3>2, <4>1, RestsOn
            <4> QED BY <2>3, <3>2, <4>1, <4>2 DEF IInv, Reversible
        <3> QED BY <1>14, <3>1, <3>2
    <2>4. ASSUME NEW k \in Active(t)', NEW dep \in Dependencies(reviews[t][merges'[t][k].was], TRUE)
          PROVE  ClaimedBy(IdOf(dep.of), t)'
        BY <1>9, <2>1, <2>4, ClaimedStays DEF NoRelease
    <2>5. ASSUME NEW k \in Active(t)'
          PROVE  /\ \A j \in Active(t)' \ {k} :
                       IdOf(merges'[t][j].fp.of) # IdOf(merges'[t][k].fp.of)
                 /\ \A dep \in Dependencies(reviews'[t][merges'[t][k].was], TRUE) :
                       /\ ClaimedBy(IdOf(dep.of), t)'
                       /\ \A j \in Active(t)' : j >= k => IdOf(merges'[t][j].fp.of) # IdOf(dep.of)
        BY <2>1, <2>2, <2>3, <2>4
    <2> QED BY <2>5 DEF Reversible, Dependencies
<1>17. op.target <= Len(merges[t]) /\ op.op # "undo"
    BY <1>12, <1>13
<1> QED BY <1>1, <1>4, <1>7, <1>8, <1>9, <1>10, <1>11, <1>12, <1>15, <1>16, <1>17, OperationKeeps

LEMMA ApplyUndoKeeps ==
    ASSUME IInv, NEW t \in Tasks, NEW m, ApplyUndo(t, m), HoldTypeOK'
    PROVE  IInv'
<1> DEFINE target == merges[t][m]
           id == IdOf(target.fp.of)
           old == reviews[t][target.was]
           before == target.before
           audit == RestoredAudit(t, m)
           released == [op |-> "release", task |-> t, action |-> Tip(id).action, fp |-> Tip(id).fp]
           op == [target EXCEPT !.op = "undo", !.target = m, !.audit = Len(reviews[t]) + 1,
                                !.claim = Len(claims[id]) + 1, !.before = row[t],
                                !.after = before, !.was = Len(reviews[t]),
                                !.tail = Len(events[t]), !.events = audit.events]
<1>1. /\ MayUndo(t, m) /\ Room(t) /\ Write(t, before) /\ Record(t, audit)
      /\ claims' = [claims EXCEPT ![id] = Append(@, released)]
      /\ merges' = [merges EXCEPT ![t] = Append(@, op)]
      /\ UNCHANGED <<catalogue, published>>
    BY DEF ApplyUndo
<1>2. /\ TypeOK /\ Recorded(t) /\ Reversible(t) /\ Created(t) /\ m # 0 /\ m = Top(t)
      /\ Len(events[t]) < MaxEvents /\ t \in 0..MaxTasks
    BY <1>1, ReviewAssumption DEF IInv, MayUndo, Room, Tasks
<1>3. m \in Active(t) /\ \A k \in Active(t) : k <= m
    BY <1>2, TopFacts
<1>4. /\ m \in DOMAIN merges[t] /\ m \in Nat /\ m <= Len(merges[t]) /\ Len(merges[t]) \in Nat
      /\ target.was \in DOMAIN reviews[t] /\ old \in AuditRecords
      /\ id \in Ids /\ ClaimedBy(id, t)
      /\ \A fp \in Dependencies(old, TRUE) : IdOf(fp.of) \in Ids /\ ClaimedBy(IdOf(fp.of), t)
    BY <1>3, RestsOn
<1>5. target \in Operations /\ before \in TaskRows /\ merges[t] \in Seq(Operations)
      /\ merges \in [Tasks -> Seq(Operations)] /\ target.fp \in Fingerprints
    BY <1>2, <1>4, OperationFields DEF TypeOK
<1>6. row[t] \in TaskRows /\ Len(reviews[t]) \in Nat /\ Len(events[t]) \in Nat
    BY <1>2, TaskFacts DEF TypeOK
<1>7. old.fp \in Fingerprints /\ old.sources \in [Fields -> Origin] /\ Truthful(old.sources, before)
    <2>1. old.fp \in Fingerprints /\ old.sources \in [Fields -> Origin]
        BY <1>4, AuditFields
    <2>2. Truthful(old.sources, old.values) /\ old.values = ValuesIn(before)
        BY <1>2, <1>4 DEF IInv, AuditsTruthful, Recorded
    <2> HIDE DEF old, before
    <2> QED BY <2>1, <2>2 DEF Truthful, ValuesIn
<1>8. /\ Booked(t, before, audit) /\ audit \in AuditRecords /\ audit.fp = old.fp
      /\ audit.sources = old.sources
    <2>1. PICK status : status = RestoredStatus(t, m)
        OBVIOUS
    <2>2. PICK action : action = IF status = "approved" THEN "reconfirm" ELSE "needs_review"
        OBVIOUS
    <2>3. Decides(action, status)
        BY <2>1, <2>2 DEF RestoredStatus, Decides
    <2>4. audit = Audit(action, status, old.fp, before, old.sources, NewEvents(t, before))
        BY <2>1, <2>2 DEF RestoredAudit
    <2> HIDE DEF audit, old, before
    <2> QED BY <1>2, <1>5, <1>7, <2>3, <2>4, AuditBooked
<1> HIDE DEF audit
<1>9. reviews' = [reviews EXCEPT ![t] = Append(@, audit)]
    BY <1>1 DEF Record
<1>10. Posted(t, before, audit)
    BY <1>1, <1>8, <1>9 DEF Posted
<1>11. claims' \in [Ids -> Seq(ClaimRecords)] /\ \A i \in Ids \ {id} : claims'[i] = claims[i]
    <2>1. claims \in [Ids -> Seq(ClaimRecords)] /\ claims[id] # <<>>
        BY <1>2, <1>4 DEF TypeOK, ClaimedBy
    <2>2. Tip(id).action \in {"create", "merge", "reject"} /\ Tip(id).fp \in Fingerprints
        BY <1>2, <1>4, <2>1, TipFacts
    <2>3. released \in ClaimRecords
        BY <1>2, <2>2 DEF ClaimRecords
    <2> HIDE DEF released, id
    <2>4. Append(claims[id], released) \in Seq(ClaimRecords)
        BY <1>4, <2>1, <2>3, Appended
    <2> QED BY <1>1, <1>4, <2>1, <2>4
<1>12. OthersKeep(t)
    <2>1. ASSUME NEW i \in Ids, NEW u \in Tasks \ {t}, ClaimedBy(i, u) PROVE claims'[i] = claims[i]
        BY <1>4, <1>11, <2>1 DEF ClaimedBy
    <2> QED BY <2>1 DEF OthersKeep
<1>13. ASSUME NEW k \in Active(t), NEW fp \in Dependencies(reviews[t][merges[t][k].was], TRUE)
       PROVE  IdOf(fp.of) # id /\ ClaimedBy(IdOf(fp.of), t)'
    <2>1. IdOf(fp.of) # id
        BY <1>2, <1>3 DEF Reversible
    <2>2. IdOf(fp.of) \in Ids /\ ClaimedBy(IdOf(fp.of), t)
        BY RestsOn
    <2> QED BY <1>11, <2>1, <2>2, ClaimedStays
<1>14. \A fp \in Dependencies(audit, TRUE) : ClaimedBy(IdOf(fp.of), t)'
    <2>1. Dependencies(audit, TRUE) = Dependencies(reviews[t][merges[t][m].was], TRUE)
        BY <1>8 DEF Dependencies
    <2> QED BY <1>3, <1>13, <2>1
<1>15. /\ op \in Operations /\ op.op = "undo" /\ op.target = m /\ op.parent = merges[t][m].parent
       /\ op.was = Len(reviews[t]) /\ op.before = row[t]
    <2>1. /\ Len(reviews[t]) + 1 \in Nat /\ Len(claims[id]) + 1 \in Nat
          /\ audit.events \in SUBSET (1..MaxEvents)
        BY <1>2, <1>4, <1>6, <1>8, AuditFields DEF TypeOK
    <2> HIDE DEF target, id
    <2>2. op \in Operations
        BY <1>4, <1>5, <1>6, <2>1 DEF Operations
    <2>3. /\ op.op = "undo" /\ op.target = m /\ op.parent = target.parent
          /\ op.was = Len(reviews[t]) /\ op.before = row[t]
        BY <1>5 DEF Operations
    <2> QED BY <2>2, <2>3 DEF target
<1> HIDE DEF op
<1>16. /\ merges'[t] = Append(merges[t], op)
       /\ \A k \in DOMAIN merges[t] : merges'[t][k] = merges[t][k]
    BY <1>1, <1>5, <1>15, Appended
<1>17. Active(t)' = Active(t) \ {m}
    BY <1>2, <1>4, <1>15, <1>16, ActiveAfter
<1>18. ASSUME NEW k \in Active(t)'
       PROVE  /\ k \in Active(t) /\ k # m /\ merges'[t][k] = merges[t][k]
              /\ reviews'[t][merges'[t][k].was] = reviews[t][merges[t][k].was]
              /\ IdOf(merges[t][k].fp.of) # id
    <2>1. k \in Active(t) /\ k # m
        BY <1>17, <1>18
    <2>2. merges'[t][k] = merges[t][k] /\ merges[t][k].was \in DOMAIN reviews[t]
        BY <1>16, <2>1, RestsOn
    <2>3. reviews'[t][merges[t][k].was] = reviews[t][merges[t][k].was]
        BY <1>2, <1>10, <2>2, PostedFacts
    <2>4. IdOf(merges[t][k].fp.of) # IdOf(merges[t][m].fp.of)
        BY <1>2, <1>3, <2>1 DEF Reversible
    <2> QED BY <2>1, <2>2, <2>3, <2>4
<1>19. \A k \in Active(t)' : (StillClaimed(t, k) /\ ClaimedBy(IdOf(merges[t][k].fp.of), t))'
    <2>1. ASSUME NEW k \in Active(t)'
          PROVE  (StillClaimed(t, k) /\ ClaimedBy(IdOf(merges[t][k].fp.of), t))'
        <3>1. claims'[IdOf(merges[t][k].fp.of)] = claims[IdOf(merges[t][k].fp.of)]
            BY <1>11, <1>18, RestsOn
        <3> QED BY <1>18, <3>1, ActiveStays
    <2> QED BY <2>1
<1>20. Reversible(t)'
    <2>1. ASSUME NEW k \in Active(t)'
          PROVE  /\ \A j \in Active(t)' \ {k} :
                       IdOf(merges'[t][j].fp.of) # IdOf(merges'[t][k].fp.of)
                 /\ \A dep \in Dependencies(reviews'[t][merges'[t][k].was], TRUE) :
                       /\ ClaimedBy(IdOf(dep.of), t)'
                       /\ \A j \in Active(t)' : j >= k => IdOf(merges'[t][j].fp.of) # IdOf(dep.of)
        <3>1. \A j \in Active(t)' : merges'[t][j] = merges[t][j] /\ j \in Active(t)
            BY <1>18
        <3>2. /\ k \in Active(t)
              /\ \A j \in Active(t) \ {k} : IdOf(merges[t][j].fp.of) # IdOf(merges[t][k].fp.of)
            BY <1>2, <1>18 DEF Reversible
        <3>3. ASSUME NEW dep \in Dependencies(reviews[t][merges[t][k].was], TRUE)
              PROVE  /\ ClaimedBy(IdOf(dep.of), t)'
                     /\ \A j \in Active(t) : j >= k => IdOf(merges[t][j].fp.of) # IdOf(dep.of)
            BY <1>2, <1>13, <3>2 DEF Reversible
        <3> QED BY <1>18, <3>1, <3>2, <3>3
    <2> QED BY <2>1 DEF Reversible, Dependencies
<1>21. op.op = "undo" /\ op.op # "merge" /\ op.target = Top(t)
       /\ op.parent = merges[t][Top(t)].parent /\ Top(t) \in DOMAIN merges[t]
       /\ op.target <= Len(merges[t])
    BY <1>2, <1>4, <1>15
<1> QED BY <1>1, <1>2, <1>9, <1>10, <1>11, <1>12, <1>14, <1>15, <1>19, <1>20, <1>21, OperationKeeps

\* A merge or an undo: submitted at once, or after a preview.
LEMMA MergesKeep ==
    ASSUME IInv,
           \/ \E t \in Tasks, p \in Proposals, fields \in SUBSET Fields : Merge(t, p, fields)
           \/ \E t \in Tasks : \E m \in DOMAIN merges[t] : Undo(t, m)
           \/ SubmitMerge \/ SubmitUndo
    PROVE  IInv'
<1>1. HoldTypeOK
    BY DEF IInv, TypeOK
<1>2. ASSUME NEW t \in Tasks, NEW p \in Proposals, NEW fields \in SUBSET Fields, Merge(t, p, fields)
      PROVE  IInv'
    <2>1. ApplyMerge(t, p, fields) /\ HoldTypeOK'
        BY <1>1, <1>2 DEF Merge, HoldTypeOK
    <2> QED BY <2>1, ApplyMergeKeeps
<1>3. ASSUME NEW t \in Tasks, NEW m \in DOMAIN merges[t], Undo(t, m)
      PROVE  IInv'
    <2>1. ApplyUndo(t, m) /\ HoldTypeOK'
        BY <1>1, <1>3 DEF Undo, HoldTypeOK
    <2> QED BY <2>1, ApplyUndoKeeps
<1>4. hold' = Nothing => HoldTypeOK'
    BY DEF HoldTypeOK, Nothing
<1>5. ASSUME SubmitMerge PROVE IInv'
    <2>1. PICK t, p, fields : t = hold.task /\ p = hold.candidate /\ fields = hold.fields
        OBVIOUS
    <2>2. t \in Tasks /\ fields \in SUBSET Fields /\ p \in Listed /\ ApplyMerge(t, p, fields)
          /\ hold' = Nothing
        BY <1>1, <1>5, <2>1 DEF SubmitMerge, HoldTypeOK, MergeFresh, MayMerge
    <2>3. p \in Proposals
        BY <2>2, FingerprintType DEF IInv
    <2> QED BY <1>4, <2>2, <2>3, ApplyMergeKeeps
<1>6. ASSUME SubmitUndo PROVE IInv'
    <2>1. PICK t, m : t = hold.task /\ m = hold.merge
        OBVIOUS
    <2>2. t \in Tasks /\ ApplyUndo(t, m) /\ hold' = Nothing
        BY <1>1, <1>6, <2>1 DEF SubmitUndo, HoldTypeOK
    <2> QED BY <1>4, <2>2, ApplyUndoKeeps
<1> QED BY <1>2, <1>3, <1>5, <1>6

-----------------------------------------------------------------------------
(* The inductive invariant.                                                *)

LEMMA InitHolds == Init => IInv
<1> SUFFICES ASSUME Init PROVE IInv
    OBVIOUS
<1>1. /\ \A t \in Tasks : /\ row[t] = NoTask /\ events[t] = <<>> /\ reviews[t] = <<>>
                          /\ merges[t] = <<>> /\ ~Created(t)
      /\ hold = Nothing
    BY DEF Init, Created
<1>2. TypeOK
    <2>1. catalogue \in [Sources -> [version : Versions \cup {1}, active : BOOLEAN, epoch : 0..MaxEpoch]]
        <3>1. 0 \in 0..MaxEpoch
            BY ReviewAssumption
        <3>2. catalogue = [s \in Sources |-> [version |-> 1, active |-> TRUE, epoch |-> 0]]
            BY DEF Init
        <3> QED BY <3>1, <3>2
    <2>2. NoTask \in Rows
        BY DEF NoTask, Rows
    <2>3. /\ published \subseteq Proposals /\ row \in [Tasks -> Rows]
          /\ events \in [Tasks -> Seq(Entries)] /\ reviews \in [Tasks -> Seq(AuditRecords)]
          /\ claims \in [Ids -> Seq(ClaimRecords)] /\ merges \in [Tasks -> Seq(Operations)]
        BY <2>2 DEF Init
    <2>4. Audits <= MaxReviews
        <3>1. UNION {{t} \X DOMAIN reviews[t] : t \in Tasks} = {}
            BY <1>1
        <3>2. Audits = 0
            BY <3>1, FS_EmptySet DEF Audits
        <3>3. MaxReviews \in Nat
            BY ReviewAssumption
        <3> QED BY <3>2, <3>3
    <2>5. HoldTypeOK
        BY <1>1 DEF HoldTypeOK, Nothing
    <2>6. \A t \in Tasks : Len(events[t]) <= MaxEvents
        BY <1>1, ReviewAssumption
    <2> QED BY <1>1, <2>1, <2>3, <2>4, <2>5, <2>6 DEF TypeOK
<1>3. \A t \in Tasks : DOMAIN merges[t] = {} /\ DOMAIN reviews[t] = {} /\ Active(t) = {}
    BY <1>1 DEF Active
<1> QED BY <1>1, <1>2, <1>3 DEF IInv, AuditedHistory, AuditsTruthful, BindingClaimed,
           StackWellFormed, Stacked, Recorded, Reversible

LEMMA NextKeeps == IInv /\ [Next]_vars => IInv'
<1> SUFFICES ASSUME IInv, [Next]_vars PROVE IInv'
    OBVIOUS
<1>1. CASE \E s \in Sources : Remove(s) \/ \E v \in Versions : Upload(s, v)
    BY <1>1, CatalogueKeeps
<1>2. CASE \E p \in Proposals : Publish(p) \/ Reject(p)
    BY <1>2, CatalogueKeeps, RejectKeeps
<1>3. CASE \E t \in Tasks, p \in Proposals, patch \in Patches :
              Confirm(t, p, patch) \/ Reconfirm(t, p, patch)
    BY <1>3, ConfirmKeeps, ReconfirmKeeps
<1>4. CASE \E t \in Tasks, patch \in Patches : EditFields(t, patch)
    BY <1>4, EditKeeps
<1>5. CASE \E t \in Tasks, status \in Statuses : SetStatus(t, status)
    BY <1>5, SetStatusKeeps
<1>6. CASE \E t \in Tasks, p \in Proposals, choices \in Choices : Rebind(t, p, choices)
    BY <1>6, RebindKeeps
<1>7. CASE \E t \in Tasks : Observe(t) \/ Invalidate(t) \/ UndoInvalidation(t)
    BY <1>7, ObserveKeeps, InvalidateKeeps, UndoInvalidationKeeps
<1>8. CASE \E t \in Tasks, p \in Proposals, fields \in SUBSET Fields :
              Merge(t, p, fields) \/ PreviewMerge(t, p, fields)
    BY <1>8, MergesKeep, HoldKeeps
<1>9. CASE \E t \in Tasks : \E m \in DOMAIN merges[t] : Undo(t, m) \/ PreviewUndo(t, m)
    BY <1>9, MergesKeep, HoldKeeps
<1>10. CASE SubmitMerge \/ SubmitUndo \/ Discard \/ UNCHANGED vars
    BY <1>10, MergesKeep, HoldKeeps
<1> QED BY <1>1, <1>2, <1>3, <1>4, <1>5, <1>6, <1>7, <1>8, <1>9, <1>10 DEF Next

\* Whatever is reviewed, merged and undone in whatever order, with whatever
\* the catalogue does meanwhile: the tables fit together (TaskReviewService and
\* TaskMergeService on one database).
THEOREM InvariantHolds == Spec => []IInv
<1>1. Init => IInv
    BY InitHolds
<1>2. IInv /\ [Next]_vars => IInv'
    BY NextKeeps
<1> QED BY <1>1, <1>2, PTL DEF Spec

\* The audits of a task explain its events and its row: nothing changes a field
\* but an audited review, and no audit says a value that was not written.
THEOREM HistoryIsExplained == Spec => []AuditedHistory
<1>1. IInv => AuditedHistory
    BY DEF IInv
<1> QED BY <1>1, InvariantHolds, PTL

\* A field attributed to a source has the value which that very proposal gave.
THEOREM FieldsAreTruthful == Spec => []Provenance
<1>1. IInv => Provenance
    BY LatestFacts DEF Provenance
<1> QED BY <1>1, InvariantHolds, PTL

\* No candidate supports two tasks, nor one after it was released or rejected.
THEOREM BindingsAreClaimed == Spec => []BindingClaimed
<1>1. IInv => BindingClaimed
    BY DEF IInv
<1> QED BY <1>1, InvariantHolds, PTL

\* The active merges of a task form a stack: _active_stack never raises.
THEOREM MergesFormAStack == Spec => []StackWellFormed
<1>1. IInv => StackWellFormed
    BY DEF IInv
<1> QED BY <1>1, InvariantHolds, PTL

-----------------------------------------------------------------------------
(* What a step may never do.                                               *)

LEMMA LastAppended ==
    ASSUME NEW S, NEW s \in Seq(S), NEW x
    PROVE  Last(Append(s, x)) = x /\ Append(s, x) # s
<1>1. Len(Append(s, x)) = Len(s) + 1 /\ Len(s) \in Nat /\ Append(s, x)[Len(s) + 1] = x
    OBVIOUS
<1> QED BY <1>1 DEF Last

LEMMA RecordFacts ==
    ASSUME TypeOK, NEW t \in Tasks, NEW audit, Record(t, audit)
    PROVE  Last(reviews'[t]) = audit /\ \A u \in Tasks \ {t} : reviews'[u] = reviews[u]
<1>1. /\ reviews \in [Tasks -> Seq(AuditRecords)]
      /\ reviews' = [reviews EXCEPT ![t] = Append(@, audit)]
    BY DEF TypeOK, Record
<1>2. /\ reviews[t] \in Seq(AuditRecords) /\ reviews'[t] = Append(reviews[t], audit)
      /\ \A u \in Tasks \ {t} : reviews'[u] = reviews[u]
    BY <1>1
<1> QED BY <1>2, LastAppended

\* What a merge writes, whatever else it does.
LEMMA MergeEffect ==
    ASSUME IInv, NEW t \in Tasks, NEW p \in Proposals, NEW fields \in SUBSET Fields,
           ApplyMerge(t, p, fields)
    PROVE  /\ \A u \in Tasks \ {t} : merges'[u] = merges[u] /\ reviews'[u] = reviews[u]
           /\ merges'[t] # merges[t] /\ Merged(t)' /\ Last(merges'[t]).op = "merge"
           /\ Last(merges'[t]).fp = Fingerprint(p) /\ Last(merges'[t]).parent = Top(t)
           /\ Last(merges'[t]).before = row[t]
           /\ Last(reviews'[t]).status = "approved" => Valid(Last(reviews'[t]), TRUE)
<1>0. PICK fp : fp = Fingerprint(p)
    OBVIOUS
<1> DEFINE new == [c \in Columns |-> IF c \in fields THEN Proposed[p].values[c] ELSE row[t][c]]
           sources == [f \in Fields |-> IF f \in fields THEN Source("source", fp)
                                                       ELSE Latest(t).sources[f]]
           audit == Audit("rebind", "approved", fp, new, sources, NewEvents(t, new))
           op == [op |-> "merge", target |-> 0, parent |-> Top(t), audit |-> Len(reviews[t]) + 1,
                  fp |-> fp, claim |-> Len(claims[IdOf(p)]) + 1, before |-> row[t], after |-> new,
                  was |-> Len(reviews[t]), fields |-> fields, tail |-> Len(events[t]),
                  events |-> audit.events]
<1>1. /\ reviews' = [reviews EXCEPT ![t] = @ \o SeenAgain(audit)]
      /\ merges' = [merges EXCEPT ![t] = Append(@, op)]
    BY <1>0 DEF ApplyMerge
<1>2. reviews \in [Tasks -> Seq(AuditRecords)] /\ merges \in [Tasks -> Seq(Operations)]
    BY DEF IInv, TypeOK
<1>3. /\ op.op = "merge" /\ op.fp = Fingerprint(p) /\ op.parent = Top(t) /\ op.before = row[t]
    BY <1>0
<1> HIDE DEF op
<1>4. /\ merges[t] \in Seq(Operations) /\ merges'[t] = Append(merges[t], op)
      /\ \A u \in Tasks \ {t} : merges'[u] = merges[u]
    BY <1>1, <1>2
<1>5. Last(merges'[t]) = op /\ merges'[t] # merges[t] /\ Merged(t)'
    <2>1. Append(merges[t], op) # <<>>
        BY <1>4
    <2> QED BY <1>4, <2>1, LastAppended DEF Merged
<1> HIDE DEF audit
<1>6. /\ \A u \in Tasks \ {t} : reviews'[u] = reviews[u]
      /\ reviews[t] \in Seq(AuditRecords) /\ reviews'[t] = reviews[t] \o SeenAgain(audit)
    BY <1>1, <1>2
<1>7. ASSUME Last(reviews'[t]).status = "approved" PROVE Valid(Last(reviews'[t]), TRUE)
    <2>1. CASE Valid(audit, TRUE)
        <3>1. reviews'[t] = reviews[t] \o <<audit>>
            BY <1>6, <2>1 DEF SeenAgain
        <3>2. Last(reviews'[t]) = audit
            BY <1>6, <3>1 DEF Last
        <3> QED BY <2>1, <3>2
    <2>2. CASE ~Valid(audit, TRUE)
        <3>1. reviews'[t] = reviews[t] \o <<audit, Withdrawn(audit)>>
            BY <1>6, <2>2 DEF SeenAgain
        <3>2. Last(reviews'[t]) = Withdrawn(audit)
            BY <1>6, <3>1 DEF Last
        <3>3. Withdrawn(audit).status = "needs_review"
            BY DEF Withdrawn, audit, Audit
        <3> QED BY <1>7, <3>2, <3>3
    <2> QED BY <2>1, <2>2
<1> QED BY <1>3, <1>4, <1>5, <1>6, <1>7

\* What an undo writes.
LEMMA UndoEffect ==
    ASSUME IInv, NEW t \in Tasks, NEW m, ApplyUndo(t, m)
    PROVE  /\ \A u \in Tasks \ {t} : merges'[u] = merges[u] /\ reviews'[u] = reviews[u]
           /\ merges'[t] # merges[t] /\ Merged(t)' /\ Last(merges'[t]).op = "undo"
           /\ Last(merges'[t]).target = m /\ Last(merges'[t]).before = row[t]
           /\ row'[t] = merges[t][m].before
           /\ \A c \in Columns \ merges[t][m].fields : row'[t][c] = row[t][c]
           /\ Last(reviews'[t]) = RestoredAudit(t, m)
           /\ Last(claims'[IdOf(merges[t][m].fp.of)]).op = "release"
<1> DEFINE target == merges[t][m]
           id == IdOf(target.fp.of)
           audit == RestoredAudit(t, m)
           released == [op |-> "release", task |-> t, action |-> Tip(id).action, fp |-> Tip(id).fp]
           op == [target EXCEPT !.op = "undo", !.target = m, !.audit = Len(reviews[t]) + 1,
                                !.claim = Len(claims[id]) + 1, !.before = row[t],
                                !.after = target.before, !.was = Len(reviews[t]),
                                !.tail = Len(events[t]), !.events = audit.events]
<1>1. /\ MayUndo(t, m) /\ Write(t, target.before) /\ Record(t, audit)
      /\ claims' = [claims EXCEPT ![id] = Append(@, released)]
      /\ merges' = [merges EXCEPT ![t] = Append(@, op)]
    BY DEF ApplyUndo
<1>2. TypeOK /\ Recorded(t) /\ m \in Active(t) /\ row[t] = target.after
    BY <1>1, TopFacts DEF IInv, MayUndo, StateAsMerged
<1>3. m \in DOMAIN merges[t] /\ id \in Ids /\ target \in Operations /\ target.op = "merge"
    BY <1>2, RestsOn, OperationFields DEF Active
<1>4. /\ row \in [Tasks -> Rows] /\ claims \in [Ids -> Seq(ClaimRecords)]
      /\ merges \in [Tasks -> Seq(Operations)]
    BY <1>2 DEF TypeOK
<1>5. row'[t] = target.before
    BY <1>1, <1>4 DEF Write
<1>6. \A c \in Columns \ target.fields : row'[t][c] = row[t][c]
    BY <1>2, <1>3, <1>5 DEF Recorded
<1>7. Last(reviews'[t]) = audit /\ \A u \in Tasks \ {t} : reviews'[u] = reviews[u]
    BY <1>1, <1>2, RecordFacts
<1>8. Last(claims'[id]).op = "release"
    <2>1. released.op = "release"
        OBVIOUS
    <2> HIDE DEF released, id
    <2>2. claims[id] \in Seq(ClaimRecords) /\ claims'[id] = Append(claims[id], released)
        BY <1>1, <1>3, <1>4
    <2> QED BY <2>1, <2>2, LastAppended
<1>9. op.op = "undo" /\ op.target = m /\ op.before = row[t]
    <2> HIDE DEF target, id, audit
    <2> QED BY <1>3 DEF Operations
<1> HIDE DEF op
<1>10. /\ merges[t] \in Seq(Operations) /\ merges'[t] = Append(merges[t], op)
       /\ \A u \in Tasks \ {t} : merges'[u] = merges[u]
    BY <1>1, <1>4
<1>11. Last(merges'[t]) = op /\ merges'[t] # merges[t] /\ Merged(t)'
    <2>1. Append(merges[t], op) # <<>>
        BY <1>10
    <2> QED BY <1>10, <2>1, LastAppended DEF Merged
<1> QED BY <1>5, <1>6, <1>7, <1>8, <1>9, <1>10, <1>11

\* Only a merge or an undo records an operation; either was sent at once, or is
\* what the reviewer had previewed.
LEMMA WhoMerges ==
    ASSUME IInv, [Next]_vars, merges' # merges
    PROVE  \/ \E t \in Tasks, p \in Proposals, fields \in SUBSET Fields :
                 /\ ApplyMerge(t, p, fields)
                 /\ hold' = hold \/ hold = MergePreview(t, p, fields)
           \/ \E t \in Tasks : \E m :
                 ApplyUndo(t, m) /\ (hold' = hold \/ hold = UndoPreview(t, m))
<1>1. \/ \E t \in Tasks, p \in Proposals, fields \in SUBSET Fields : Merge(t, p, fields)
      \/ \E t \in Tasks : \E m \in DOMAIN merges[t] : Undo(t, m)
      \/ SubmitMerge \/ SubmitUndo
    <2>1. ASSUME NEW s \in Sources PROVE ~Remove(s) /\ \A v \in Versions : ~Upload(s, v)
        BY DEF Remove, Upload, ledger
    <2>2. ASSUME NEW q \in Proposals PROVE ~Publish(q) /\ ~Reject(q)
        BY DEF Publish, Reject, ledger
    <2>3. ASSUME NEW t \in Tasks
          PROVE  /\ ~Observe(t) /\ ~Invalidate(t) /\ ~UndoInvalidation(t)
                 /\ \A status \in Statuses : ~SetStatus(t, status)
        BY DEF Observe, Invalidate, UndoInvalidation, SetStatus
    <2>4. ASSUME NEW t \in Tasks, NEW patch \in Patches
          PROVE  ~EditFields(t, patch) /\ \A q \in Proposals : ~Confirm(t, q, patch) /\ ~Reconfirm(t, q, patch)
        BY DEF EditFields, Confirm, Reconfirm
    <2>5. ASSUME NEW t \in Tasks, NEW q \in Proposals
          PROVE  \A choices \in Choices : ~Rebind(t, q, choices)
        BY DEF Rebind
    <2>6. ASSUME NEW t \in Tasks
          PROVE  /\ \A q \in Proposals, fields \in SUBSET Fields : ~PreviewMerge(t, q, fields)
                 /\ \A m \in DOMAIN merges[t] : ~PreviewUndo(t, m)
        BY DEF PreviewMerge, PreviewUndo, ledger
    <2>7. ~Discard /\ ~UNCHANGED vars
        BY DEF Discard, vars, ledger
    <2>8. Next
        BY <2>7
    <2> QED BY <2>1, <2>2, <2>3, <2>4, <2>5, <2>6, <2>7, <2>8 DEF Next
<1>2. ASSUME SubmitMerge
      PROVE  \E t \in Tasks, p \in Proposals, fields \in SUBSET Fields :
                ApplyMerge(t, p, fields) /\ hold = MergePreview(t, p, fields)
    <2>1. PICK t, p, fields : t = hold.task /\ p = hold.candidate /\ fields = hold.fields
        OBVIOUS
    <2>2. t \in Tasks /\ fields \in SUBSET Fields /\ p \in Listed /\ ApplyMerge(t, p, fields)
          /\ hold = MergePreview(t, p, fields)
        BY <1>2, <2>1 DEF IInv, TypeOK, SubmitMerge, HoldTypeOK, MergeFresh, MayMerge
    <2>3. p \in Proposals
        BY <2>2, FingerprintType DEF IInv
    <2> QED BY <2>2, <2>3
<1>3. ASSUME SubmitUndo
      PROVE  \E t \in Tasks : \E m : ApplyUndo(t, m) /\ hold = UndoPreview(t, m)
    <2>1. PICK t, m : t = hold.task /\ m = hold.merge
        OBVIOUS
    <2>2. t \in Tasks /\ ApplyUndo(t, m) /\ hold = UndoPreview(t, m)
        BY <1>3, <2>1 DEF IInv, TypeOK, SubmitUndo, HoldTypeOK, UndoFresh
    <2> QED BY <2>2
<1>4. ASSUME NEW t \in Tasks, NEW p \in Proposals, NEW fields \in SUBSET Fields, Merge(t, p, fields)
      PROVE  ApplyMerge(t, p, fields) /\ hold' = hold
    BY <1>4 DEF Merge
<1>5. ASSUME NEW t \in Tasks, NEW m \in DOMAIN merges[t], Undo(t, m)
      PROVE  ApplyUndo(t, m) /\ hold' = hold
    BY <1>5 DEF Undo
<1> QED BY <1>1, <1>2, <1>3, <1>4, <1>5

\* Undoing a merge puts back what the merge changed and touches nothing else.
THEOREM UndoGoesBack == Spec => UndoRestores
<1> DEFINE Restored(t) ==
        (merges'[t] # merges[t] /\ Last(merges'[t]).op = "undo") =>
            LET target == merges[t][Last(merges'[t]).target] IN
            /\ \A c \in Columns : row'[t][c] = IF c \in target.fields THEN target.before[c]
                                                                     ELSE row[t][c]
            /\ Last(reviews'[t]).sources = reviews[t][target.was].sources
            /\ Last(claims'[IdOf(target.fp.of)]).op = "release"
<1>1. ASSUME IInv, [Next]_vars, NEW t \in Tasks PROVE Restored(t)
    <2> SUFFICES ASSUME merges'[t] # merges[t], Last(merges'[t]).op = "undo"
                 PROVE  LET target == merges[t][Last(merges'[t]).target] IN
                        /\ \A c \in Columns : row'[t][c] = IF c \in target.fields THEN target.before[c]
                                                                                 ELSE row[t][c]
                        /\ Last(reviews'[t]).sources = reviews[t][target.was].sources
                        /\ Last(claims'[IdOf(target.fp.of)]).op = "release"
        OBVIOUS
    <2>1. ASSUME NEW u \in Tasks, NEW p \in Proposals, NEW fields \in SUBSET Fields,
                 ApplyMerge(u, p, fields)
          PROVE  FALSE
        <3>1. (u # t => merges'[t] = merges[t]) /\ Last(merges'[u]).op = "merge"
            BY <1>1, <2>1, MergeEffect
        <3> QED BY <3>1
    <2>2. PICK u \in Tasks : \E m : ApplyUndo(u, m)
        BY <1>1, <2>1, WhoMerges
    <2>3. PICK m : ApplyUndo(u, m)
        BY <2>2
    <2>4. u = t
        BY <1>1, <2>3, UndoEffect
    <2>5. /\ Last(merges'[t]).target = m /\ row'[t] = merges[t][m].before
          /\ \A c \in Columns \ merges[t][m].fields : row'[t][c] = row[t][c]
          /\ Last(reviews'[t]) = RestoredAudit(t, m)
          /\ Last(claims'[IdOf(merges[t][m].fp.of)]).op = "release"
        BY <1>1, <2>3, <2>4, UndoEffect
    <2>6. RestoredAudit(t, m).sources = reviews[t][merges[t][m].was].sources
        BY DEF RestoredAudit, Audit
    <2> QED BY <2>5, <2>6
<1>2. IInv /\ [Next]_vars => [\A t \in Tasks : Restored(t)]_vars
    BY <1>1
<1> QED BY <1>2, InvariantHolds, PTL DEF Spec, UndoRestores

\* What a reviewer previewed is written as it was shown, or refused.
THEOREM PreviewsAreBinding == Spec => WrittenAsPreviewed
<1> DEFINE AsPreviewed ==
        (hold # Nothing /\ hold' = Nothing /\ merges' # merges) =>
            LET t == hold.task
                op == Last(merges'[t])
            IN
            /\ merges'[t] # merges[t]
            /\ op.before = hold.row
            /\ hold.kind = "merge" =>
                  /\ op.op = "merge" /\ op.fp = hold.fp /\ op.parent = hold.parent
                  /\ \A c \in Columns : row'[t][c] = IF c \in hold.fields
                                                     THEN Proposed[hold.candidate].values[c]
                                                     ELSE hold.row[c]
            /\ hold.kind = "undo" =>
                  /\ op.op = "undo" /\ op.target = hold.merge
                  /\ row'[t] = merges[t][hold.merge].before
                  /\ Last(reviews'[t]).status = hold.restored
<1>1. ASSUME IInv, [Next]_vars, hold # Nothing, hold' = Nothing, merges' # merges
      PROVE  AsPreviewed
    <2>1. ASSUME NEW t \in Tasks, NEW p \in Proposals, NEW fields \in SUBSET Fields,
                 ApplyMerge(t, p, fields), hold = MergePreview(t, p, fields)
          PROVE  AsPreviewed
        <3>1. /\ hold.kind = "merge" /\ hold.task = t /\ hold.candidate = p /\ hold.fields = fields
              /\ hold.fp = Fingerprint(p) /\ hold.row = row[t] /\ hold.parent = Top(t)
            BY <2>1 DEF MergePreview
        <3>2. /\ merges'[t] # merges[t] /\ Last(merges'[t]).op = "merge"
              /\ Last(merges'[t]).fp = Fingerprint(p) /\ Last(merges'[t]).parent = Top(t)
              /\ Last(merges'[t]).before = row[t]
            BY <1>1, <2>1, MergeEffect
        <3>3. \A c \in Columns : row'[t][c] = IF c \in fields THEN Proposed[p].values[c]
                                                            ELSE row[t][c]
            <4>1. row \in [Tasks -> Rows]
                BY <1>1 DEF IInv, TypeOK
            <4> QED BY <2>1, <4>1 DEF ApplyMerge, Write
        <3> QED BY <3>1, <3>2, <3>3
    <2>2. ASSUME NEW t \in Tasks, NEW m, ApplyUndo(t, m), hold = UndoPreview(t, m)
          PROVE  AsPreviewed
        <3>1. /\ hold.kind = "undo" /\ hold.task = t /\ hold.merge = m /\ hold.row = row[t]
              /\ hold.restored = RestoredStatus(t, m)
            BY <2>2 DEF UndoPreview
        <3>2. /\ merges'[t] # merges[t] /\ Last(merges'[t]).op = "undo"
              /\ Last(merges'[t]).target = m /\ Last(merges'[t]).before = row[t]
              /\ row'[t] = merges[t][m].before /\ Last(reviews'[t]) = RestoredAudit(t, m)
            BY <1>1, <2>2, UndoEffect
        <3>3. RestoredAudit(t, m).status = RestoredStatus(t, m)
            BY DEF RestoredAudit, Audit
        <3> QED BY <3>1, <3>2, <3>3
    <2> HIDE DEF AsPreviewed
    <2> QED BY <1>1, <2>1, <2>2, WhoMerges
<1>2. IInv /\ [Next]_vars => [AsPreviewed]_vars
    BY <1>1
<1> QED BY <1>2, InvariantHolds, PTL DEF Spec, WrittenAsPreviewed

\* One audit is recorded, and if it approves, what it depends on is current.
ApprovedNow(t) ==
    (reviews'[t] # reviews[t] /\ Last(reviews'[t]).status = "approved") =>
        Valid(Last(reviews'[t]), Merged(t)')

LEMMA ApprovedByRecord ==
    ASSUME TypeOK, NEW t \in Tasks, NEW audit, Record(t, audit),
           audit.status = "approved" => Valid(audit, Merged(t)')
    PROVE  \A u \in Tasks : ApprovedNow(u)
<1>1. Last(reviews'[t]) = audit /\ \A u \in Tasks \ {t} : reviews'[u] = reviews[u]
    BY RecordFacts
<1> QED BY <1>1 DEF ApprovedNow

\* An approval of a candidate that is listed, when what a merged task depends
\* on is checked.
LEMMA CurrentIsValid ==
    ASSUME TypeOK, NEW p \in Listed, NEW audit, audit.fp = Fingerprint(p), NEW merged \in BOOLEAN,
           merged => Valid(audit, TRUE)
    PROVE  Valid(audit, merged)
<1>1. Current(audit.fp)
    BY FingerprintType
<1>2. CASE merged
    BY <1>2
<1>3. CASE ~merged
    BY <1>1, <1>3 DEF Valid, Dependencies
<1> QED BY <1>2, <1>3

LEMMA ReviewApproves ==
    ASSUME IInv, NEW t \in Tasks, NEW p \in Proposals,
           \/ \E patch \in Patches : Confirm(t, p, patch) \/ Reconfirm(t, p, patch)
           \/ \E choices \in Choices : Rebind(t, p, choices)
    PROVE  \A u \in Tasks : ApprovedNow(u)
<1>1. TypeOK /\ Merged(t) \in BOOLEAN
    BY DEF IInv, Merged
<1>2. ASSUME NEW audit, Record(t, audit), audit.fp = Fingerprint(p), p \in Listed,
             merges' = merges, Merged(t) => Valid(audit, TRUE)
      PROVE  \A u \in Tasks : ApprovedNow(u)
    <2>1. Valid(audit, Merged(t))
        BY <1>1, <1>2, CurrentIsValid
    <2>2. Valid(audit, Merged(t)')
        BY <1>2, <2>1 DEF Merged
    <2> QED BY <1>1, <1>2, <2>2, ApprovedByRecord
<1>3. ASSUME NEW patch \in Patches, Confirm(t, p, patch) PROVE \A u \in Tasks : ApprovedNow(u)
    <2>1. ~Merged(t)
        BY <1>3 DEF Confirm, Merged, IInv, TypeOK
    <2>2. PICK audit : /\ Record(t, audit) /\ audit.fp = Fingerprint(p)
        BY <1>3 DEF Confirm, Audit
    <2>3. p \in Listed /\ merges' = merges
        BY <1>3 DEF Confirm
    <2> QED BY <1>2, <2>1, <2>2, <2>3
<1>4. ASSUME NEW patch \in Patches, Reconfirm(t, p, patch) PROVE \A u \in Tasks : ApprovedNow(u)
    <2>1. PICK audit : audit = Audit("reconfirm", "approved", Fingerprint(p), Patched(row[t], patch),
                                     Origins(Latest(t).sources, patch, Fingerprint(p)),
                                     NewEvents(t, Patched(row[t], patch)))
        OBVIOUS
    <2>2. /\ Record(t, audit) /\ p \in Listed /\ merges' = merges
          /\ Merged(t) => Valid(audit, TRUE)
        BY <1>4, <2>1 DEF Reconfirm
    <2>3. audit.fp = Fingerprint(p)
        BY <2>1 DEF Audit
    <2> QED BY <1>2, <2>2, <2>3
<1>5. ASSUME NEW choices \in Choices, Rebind(t, p, choices) PROVE \A u \in Tasks : ApprovedNow(u)
    <2>1. PICK audit : /\ Record(t, audit) /\ audit.fp = Fingerprint(p)
                       /\ Merged(t) => Valid(audit, TRUE)
        BY <1>5 DEF Rebind, Audit
    <2>2. p \in Listed /\ merges' = merges
        BY <1>5 DEF Rebind
    <2> QED BY <1>2, <2>1, <2>2
<1> QED BY <1>3, <1>4, <1>5

LEMMA EditApproves ==
    ASSUME IInv, NEW t \in Tasks, NEW patch \in Patches, EditFields(t, patch)
    PROVE  \A u \in Tasks : ApprovedNow(u)
<1> DEFINE sources == Origins(Latest(t).sources, patch, Latest(t).fp)
<1>1. PICK audit : audit = Audit("edit", "approved", Latest(t).fp, Patched(row[t], patch), sources,
                                 NewEvents(t, Patched(row[t], patch)))
    OBVIOUS
<1>2. /\ Record(t, audit) /\ merges' = merges /\ Valid(Latest(t), Merged(t))
    BY <1>1 DEF EditFields, Lapsed
<1>3. audit.fp = Latest(t).fp /\ audit.sources = sources
    BY <1>1 DEF Audit
<1>4. \A f \in Fields : sources[f].fp \in {Latest(t).fp, Latest(t).sources[f].fp}
    BY DEF Origins, Source
<1> HIDE DEF sources
<1>5. \A merged : Dependencies(audit, merged) \subseteq Dependencies(Latest(t), merged)
    BY <1>3, <1>4 DEF Dependencies
<1>6. Valid(audit, Merged(t)')
    BY <1>2, <1>5 DEF Valid, Merged
<1> QED BY <1>2, <1>6, ApprovedByRecord DEF IInv

LEMMA UndoApproves ==
    ASSUME IInv, NEW t \in Tasks, NEW m, ApplyUndo(t, m)
    PROVE  \A u \in Tasks : ApprovedNow(u)
<1> DEFINE old == reviews[t][merges[t][m].was]
<1>1. PICK audit : audit = RestoredAudit(t, m)
    OBVIOUS
<1>2. /\ Last(reviews'[t]) = audit /\ Merged(t)' /\ \A u \in Tasks \ {t} : reviews'[u] = reviews[u]
    BY <1>1, UndoEffect
<1>3. audit.status = RestoredStatus(t, m) /\ audit.fp = old.fp /\ audit.sources = old.sources
    BY <1>1 DEF RestoredAudit, Audit
<1>4. audit.status = "approved" => Valid(old, TRUE)
    BY <1>3 DEF RestoredStatus
<1> HIDE DEF old
<1>5. audit.status = "approved" => Valid(audit, TRUE)
    BY <1>3, <1>4 DEF Valid, Dependencies
<1> QED BY <1>2, <1>5 DEF ApprovedNow

\* No step approves a task on sources that have changed meanwhile.
THEOREM ApprovalsAreCurrent == Spec => ApprovedOnCurrentSources
<1> DEFINE Approves == \A t \in Tasks : ApprovedNow(t)
<1>1. ASSUME IInv, [Next]_vars PROVE Approves
    <2>1. CASE UNCHANGED reviews
        BY <2>1 DEF ApprovedNow
    <2>2. CASE UNCHANGED <<catalogue, published, ledger>>
        BY <2>2, <2>1 DEF ledger
    <2>3. ASSUME NEW s \in Sources PROVE /\ Remove(s) => UNCHANGED reviews
                                         /\ \A v \in Versions : Upload(s, v) => UNCHANGED reviews
        BY DEF Remove, Upload, ledger
    <2>4. ASSUME NEW p \in Proposals PROVE Publish(p) \/ Reject(p) => UNCHANGED reviews
        BY DEF Publish, Reject, ledger
    <2>5. ASSUME NEW t \in Tasks, NEW status \in Statuses PROVE SetStatus(t, status) => UNCHANGED reviews
        BY DEF SetStatus
    <2>6. ASSUME NEW t \in Tasks PROVE Observe(t) \/ Invalidate(t) \/ UndoInvalidation(t) => Approves
        <3>1. ASSUME NEW audit, Record(t, audit), audit.status # "approved" PROVE Approves
            BY <1>1, <3>1, ApprovedByRecord DEF IInv
        <3>2. Withdrawn(Latest(t)).status # "approved" \/ ~Observe(t)
            BY <1>1, TaskFacts, WithdrawnFields DEF Observe, IInv
        <3>3. \A action, fp, r, sources, evs :
                  /\ Audit(action, "invalidated", fp, r, sources, evs).status # "approved"
                  /\ Audit(action, "needs_review", fp, r, sources, evs).status # "approved"
            BY DEF Audit
        <3>4. Observe(t) => Approves
            BY <3>1, <3>2 DEF Observe
        <3>5. Invalidate(t) => Approves
            BY <3>1, <3>3 DEF Invalidate
        <3>6. UndoInvalidation(t) => Approves
            BY <3>1, <3>3 DEF UndoInvalidation
        <3> QED BY <3>4, <3>5, <3>6
    <2>7. ASSUME NEW t \in Tasks, NEW p \in Proposals
          PROVE  /\ \A patch \in Patches : Confirm(t, p, patch) \/ Reconfirm(t, p, patch) => Approves
                 /\ \A choices \in Choices : Rebind(t, p, choices) => Approves
        BY <1>1, ReviewApproves
    <2>8. ASSUME NEW t \in Tasks, NEW patch \in Patches PROVE EditFields(t, patch) => Approves
        BY <1>1, EditApproves
    <2>9. ASSUME NEW t \in Tasks, NEW p \in Proposals, NEW fields \in SUBSET Fields,
                 ApplyMerge(t, p, fields)
          PROVE  Approves
        <3>1. /\ \A u \in Tasks \ {t} : reviews'[u] = reviews[u]
              /\ Merged(t)' /\ (Last(reviews'[t]).status = "approved" => Valid(Last(reviews'[t]), TRUE))
            BY <1>1, <2>9, MergeEffect
        <3> QED BY <3>1 DEF ApprovedNow
    <2>10. ASSUME NEW t \in Tasks, NEW m, ApplyUndo(t, m) PROVE Approves
        BY <1>1, <2>10, UndoApproves
    <2>11. CASE merges' # merges
        <3> HIDE DEF Approves
        <3> QED BY <1>1, <2>9, <2>10, <2>11, WhoMerges
    <2>12. CASE merges' = merges
        <3>1. ASSUME NEW t \in Tasks, NEW p \in Proposals, NEW fields \in SUBSET Fields
              PROVE  ~Merge(t, p, fields) /\ (PreviewMerge(t, p, fields) => UNCHANGED reviews)
            BY <1>1, <2>12, MergeEffect DEF Merge, PreviewMerge, ledger
        <3>2. ASSUME NEW t \in Tasks, NEW m \in DOMAIN merges[t]
              PROVE  ~Undo(t, m) /\ (PreviewUndo(t, m) => UNCHANGED reviews)
            BY <1>1, <2>12, UndoEffect DEF Undo, PreviewUndo, ledger
        <3>3. SubmitMerge \/ SubmitUndo => Approves
            <4>1. ASSUME SubmitMerge PROVE Approves
                <5>1. PICK t, p, fields : t = hold.task /\ p = hold.candidate /\ fields = hold.fields
                    OBVIOUS
                <5>2. t \in Tasks /\ fields \in SUBSET Fields /\ p \in Listed /\ ApplyMerge(t, p, fields)
                    BY <1>1, <4>1, <5>1 DEF IInv, TypeOK, SubmitMerge, HoldTypeOK, MergeFresh, MayMerge
                <5>3. p \in Proposals
                    BY <1>1, <5>2, FingerprintType DEF IInv
                <5> QED BY <2>9, <5>2, <5>3
            <4>2. ASSUME SubmitUndo PROVE Approves
                <5>1. PICK t, m : t = hold.task /\ m = hold.merge
                    OBVIOUS
                <5>2. t \in Tasks /\ ApplyUndo(t, m)
                    BY <1>1, <4>2, <5>1 DEF IInv, TypeOK, SubmitUndo, HoldTypeOK
                <5> QED BY <2>10, <5>2
            <4> QED BY <4>1, <4>2
        <3>4. Discard \/ UNCHANGED vars => UNCHANGED reviews
            BY DEF Discard, vars, ledger
        <3> HIDE DEF Approves
        <3> QED BY <1>1, <2>1, <2>3, <2>4, <2>5, <2>6, <2>7, <2>8, <3>1, <3>2, <3>3, <3>4 DEF Next
    <2> QED BY <2>11, <2>12
<1>2. IInv /\ [Next]_vars => [\A t \in Tasks :
          (reviews'[t] # reviews[t] /\ Last(reviews'[t]).status = "approved") =>
              Valid(Last(reviews'[t]), Merged(t)')]_vars
    BY <1>1 DEF ApprovedNow
<1> QED BY <1>2, InvariantHolds, PTL DEF Spec, ApprovedOnCurrentSources
===============================================================================
