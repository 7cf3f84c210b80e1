---------------------------- MODULE GraphRunProofs ----------------------------
(***************************************************************************)
(* Proofs about GraphRun, for every set of budgets, every bound and every   *)
(* set of workspaces.  Types and the step budget hold for any number of     *)
(* clients; what a run publishes is proved for one command at a time, as    *)
(* the UI calls the engine: two commands that read the same newest row do   *)
(* break it.                                                                *)
(***************************************************************************)
EXTENDS GraphRun, FiniteSetTheorems, SequenceTheorems, NaturalsInduction,
        WellFoundedInduction, TLAPS

-----------------------------------------------------------------------------
(* The least and the greatest.                                             *)

LEMMA LeastNatural ==
    ASSUME NEW T, T \subseteq Nat, T # {}
    PROVE  \E x \in T : \A y \in T : x <= y
<1> DEFINE R == {ss \in Nat \X Nat : ss[1] < ss[2]}
<1>1. IsWellFoundedOn(R, Nat)
    BY NatLessThanWellFounded DEF OpToRel
<1>2. PICK x \in T : \A y \in T : ~(<<y, x>> \in R)
    <2> HIDE DEF R
    <2> QED BY <1>1, WFMin
<1>3. ASSUME NEW y \in T PROVE x <= y
    <2>1. x \in Nat /\ y \in Nat
        BY <1>2
    <2>2. <<y, x>> \in Nat \X Nat
        BY <2>1
    <2>3. ~(y < x)
        BY <1>2, <2>2
    <2> QED BY <2>1, <2>3
<1> QED BY <1>2, <1>3

LEMMA GreatestOf ==
    ASSUME NEW n \in Nat, NEW S \in SUBSET (1..n), S # {}
    PROVE  Max(S) \in S /\ \A k \in S : k <= Max(S)
<1> DEFINE Above == {n - k : k \in S}
<1>1. \A k \in S : k \in Nat /\ n - k \in Nat
    OBVIOUS
<1>2. Above \subseteq Nat /\ Above # {}
    BY <1>1
<1>3. PICK x \in Above : \A y \in Above : x <= y
    <2> HIDE DEF Above
    <2> QED BY <1>2, LeastNatural
<1>4. PICK m \in S : x = n - m
    OBVIOUS
<1>5. \A k \in S : m >= k
    <2> TAKE k \in S
    <2>1. n - k \in Above /\ k \in Nat /\ m \in Nat
        BY <1>1
    <2>2. n - m <= n - k
        BY <1>3, <1>4, <2>1
    <2> QED BY <2>1, <2>2
<1>6. Max(S) \in S /\ \A k \in S : Max(S) >= k
    <2>1. \E g \in S : \A k \in S : g >= k
        BY <1>5
    <2> QED BY <2>1 DEF Max
<1> QED BY <1>1, <1>6

\* The order of ORDER BY step_seq, rowid.
Before(j, i) == rows[j].seq < rows[i].seq \/ (rows[j].seq = rows[i].seq /\ j <= i)

\* get_latest finds a row: every prefix of the checkpoints has a newest one.
LEMMA SomeRowIsNewest ==
    ASSUME TypeOK, Saved
    PROVE  \E i \in DOMAIN rows : \A j \in DOMAIN rows : Before(j, i)
<1>1. /\ rows \in Seq(States) /\ Len(rows) \in Nat /\ Len(rows) >= 1
      /\ DOMAIN rows = 1..Len(rows)
      /\ \A i \in DOMAIN rows : rows[i] \in States
    BY DEF TypeOK, Saved
<1>2. \A i \in DOMAIN rows : rows[i].seq \in Nat
    BY <1>1 DEF States
<1> DEFINE First(k) == \E i \in 1..k : \A j \in 1..k : Before(j, i)
           Without == {k \in 1..Len(rows) : ~First(k)}
<1>3. ASSUME Without # {} PROVE FALSE
    <2>1. Without \subseteq Nat
        OBVIOUS
    <2>2. PICK k \in Without : \A l \in Without : k <= l
        <3> HIDE DEF Without
        <3> QED BY <1>3, <2>1, LeastNatural
    <2>3. k \in 1..Len(rows) /\ ~First(k)
        OBVIOUS
    <2>4. k # 1
        <3>1. \A j \in 1..1 : j = 1
            OBVIOUS
        <3>2. Before(1, 1)
            BY <1>1, <1>2 DEF Before
        <3>3. First(1)
            BY <3>1, <3>2
        <3> QED BY <2>3, <3>3
    <2>5. k - 1 \in 1..Len(rows) /\ k - 1 < k /\ k \in Nat
        BY <1>1, <2>3, <2>4
    <2>6. First(k - 1)
        <3>1. k - 1 \notin Without
            <4> HIDE DEF Without
            <4> QED BY <2>2, <2>5
        <3> QED BY <2>5, <3>1
    <2>7. PICK i \in 1..(k - 1) : \A j \in 1..(k - 1) : Before(j, i)
        BY <2>6
    <2>8. /\ i \in DOMAIN rows /\ k \in DOMAIN rows /\ i < k /\ i \in Nat
          /\ rows[i].seq \in Nat /\ rows[k].seq \in Nat
        <3>1. i \in 1..Len(rows) /\ i < k /\ i \in Nat /\ k \in 1..Len(rows)
            BY <1>1, <2>3, <2>5, <2>7
        <3> QED BY <1>1, <1>2, <3>1
    <2>9. \A j \in 1..k : j = k \/ j \in 1..(k - 1)
        BY <2>5
    <2>10. CASE rows[k].seq < rows[i].seq
        <3>1. Before(k, i)
            BY <2>10 DEF Before
        <3>2. \A j \in 1..k : Before(j, i)
            BY <2>7, <2>9, <3>1
        <3> QED BY <2>3, <2>5, <3>2
    <2>11. CASE rows[i].seq <= rows[k].seq
        <3>1. ASSUME NEW j \in 1..k PROVE Before(j, k)
            <4>1. CASE j = k
                BY <4>1, <2>8 DEF Before
            <4>2. CASE j \in 1..(k - 1)
                <5>0. j \in 1..Len(rows) /\ j \in Nat /\ j <= k
                    BY <4>2, <2>5, <1>1, <2>3
                <5>1. Before(j, i) /\ rows[j].seq \in Nat
                    BY <4>2, <2>7, <5>0, <1>1, <1>2
                <5>2. rows[j].seq < rows[i].seq \/ rows[j].seq = rows[i].seq
                    BY <5>1 DEF Before
                <5> DEFINE x == rows[j].seq
                           y == rows[k].seq
                           z == rows[i].seq
                <5>3. x \in Nat /\ y \in Nat /\ z \in Nat /\ (x < z \/ x = z) /\ z <= y
                    BY <5>1, <5>2, <2>8, <2>11
                <5>4. x < y \/ x = y
                    <6> HIDE DEF x, y, z, First, Without
                    <6> QED BY <5>3
                <5> QED BY <5>0, <5>4 DEF Before
            <4> QED BY <4>1, <4>2, <2>9
        <3>2. k \in 1..k
            BY <2>5, <2>3
        <3> QED BY <2>3, <3>1, <3>2
    <2> QED BY <2>8, <2>10, <2>11
<1>4. First(Len(rows))
    <2>1. Len(rows) \in 1..Len(rows)
        BY <1>1
    <2> QED BY <1>3, <2>1
<1> QED BY <1>1, <1>4

LEMMA NewestIsRow ==
    ASSUME TypeOK, Saved
    PROVE  \E i \in DOMAIN rows : Newest = rows[i] /\ \A j \in DOMAIN rows : Before(j, i)
BY SomeRowIsNewest DEF Newest, Before

-----------------------------------------------------------------------------
(* States.                                                                 *)

Statuses == Settled \cup {"running"}

LEMMA StateFacts ==
    ASSUME NEW s \in States
    PROVE  /\ s.run \in Runs /\ s.parent \in 0..MaxRuns /\ s.status \in Statuses
           /\ s.step \in Nodes \cup {"none"} /\ s.seq \in Nat /\ s.max \in Budgets
           /\ s.max \in Nat /\ s.max > 0
           /\ s.src \in Workspaces /\ s.attempts \in Seq(Attempts) /\ s.waiting \in Nat
           /\ s.step = "none" => s.status = "completed"
<1>1. /\ s.run \in Runs /\ s.parent \in 0..MaxRuns /\ s.status \in Statuses
      /\ s.step \in Nodes \cup {"none"} /\ s.seq \in Nat /\ s.max \in Budgets
      /\ s.src \in Workspaces /\ s.attempts \in Seq(Attempts) /\ s.waiting \in Nat
      /\ s.step = "none" => s.status = "completed"
    BY DEF States, Statuses
<1>2. s.max \in Nat \ {0}
    BY <1>1, GraphRunAssumption
<1> QED BY <1>1, <1>2

LEMMA StepFacts ==
    ASSUME NEW s \in States, NEW status \in Statuses, NEW step \in Nodes \cup {"none"},
           step = "none" => status = "completed"
    PROVE  LET t == Step(s, status, step) IN
           /\ t \in States
           /\ t.run = s.run /\ t.status = status /\ t.step = step /\ t.seq = s.seq + 1
           /\ t.src = s.src /\ t.attempts = s.attempts /\ t.max = s.max
<1>1. s.seq + 1 \in Nat
    BY StateFacts
<1> QED BY <1>1, StateFacts DEF Step, States, Statuses

LEMMA FailsFacts ==
    ASSUME NEW s \in States, NEW status \in Statuses, s.status # "completed"
    PROVE  LET t == Fails(s, status) IN
           /\ t \in States
           /\ t.run = s.run /\ t.status = status /\ t.step = s.step /\ t.seq = s.seq + 1
           /\ t.src = s.src /\ t.attempts = s.attempts /\ t.max = s.max
    BY StepFacts, StateFacts DEF Fails

LEMMA AttemptedFacts ==
    ASSUME NEW s \in States, NEW node \in Nodes, NEW error \in {"none", "failed", "budget"}
    PROVE  LET t == Attempted(s, node, error) IN
           /\ t \in States
           /\ t.run = s.run /\ t.status = s.status /\ t.step = s.step /\ t.seq = s.seq
           /\ t.src = s.src /\ t.max = s.max
           /\ t.attempts = Append(s.attempts, [run |-> s.run, node |-> node, error |-> error])
<1> DEFINE a == [run |-> s.run, node |-> node, error |-> error]
           l == Append(s.attempts, a)
<1>1. a \in Attempts
    BY StateFacts DEF Attempts
<1>2. l \in Seq(Attempts)
    BY <1>1, StateFacts
<1>3. Attempted(s, node, error) = [s EXCEPT !.attempts = l]
    BY DEF Attempted, States
<1> HIDE DEF l
<1>4. [s EXCEPT !.attempts = l] \in States
    BY <1>2 DEF States
<1>5. /\ [s EXCEPT !.attempts = l].run = s.run /\ [s EXCEPT !.attempts = l].status = s.status
      /\ [s EXCEPT !.attempts = l].step = s.step /\ [s EXCEPT !.attempts = l].seq = s.seq
      /\ [s EXCEPT !.attempts = l].src = s.src /\ [s EXCEPT !.attempts = l].max = s.max
      /\ [s EXCEPT !.attempts = l].attempts = l
    BY DEF States
<1>6. l = Append(s.attempts, [run |-> s.run, node |-> node, error |-> error])
    BY DEF l
<1> QED BY <1>3, <1>4, <1>5, <1>6

-----------------------------------------------------------------------------
(* The attempts executed.                                                  *)

LEMMA ExecutedType ==
    ASSUME NEW s \in States
    PROVE  Executed(s) \in Nat
<1> DEFINE E == {a \in DOMAIN s.attempts : s.attempts[a].error # "budget"}
<1>1. s.attempts \in Seq(Attempts) /\ Len(s.attempts) \in Nat /\ DOMAIN s.attempts = 1..Len(s.attempts)
    BY StateFacts
<1>2. IsFiniteSet(1..Len(s.attempts))
    BY <1>1, FS_Interval
<1>3. E \in SUBSET (1..Len(s.attempts))
    BY <1>1
<1> HIDE DEF E
<1>4. IsFiniteSet(E)
    BY <1>2, <1>3, FS_Subset
<1>5. Cardinality(E) \in Nat
    BY <1>4, FS_CardinalityType
<1> QED BY <1>5 DEF Executed, E

LEMMA ExecutedSame ==
    ASSUME NEW s, NEW t, s.attempts = t.attempts
    PROVE  Executed(s) = Executed(t)
    BY DEF Executed

\* One attempt more is one node more, unless it only records the empty budget.
LEMMA ExecutedAttempt ==
    ASSUME NEW s \in States, NEW t, NEW node, NEW error,
           t.attempts = Append(s.attempts, [run |-> s.run, node |-> node, error |-> error])
    PROVE  Executed(t) = IF error = "budget" THEN Executed(s) ELSE Executed(s) + 1
<1> DEFINE n == Len(s.attempts)
           E == {a \in DOMAIN s.attempts : s.attempts[a].error # "budget"}
           F == {a \in DOMAIN t.attempts : t.attempts[a].error # "budget"}
<1>1. s.attempts \in Seq(Attempts) /\ n \in Nat /\ DOMAIN s.attempts = 1..n
    BY StateFacts
<1>2. /\ DOMAIN t.attempts = (1..n) \cup {n + 1} /\ n + 1 \notin 1..n
      /\ \A i \in 1..n : t.attempts[i] = s.attempts[i]
      /\ t.attempts[n + 1].error = error
    BY <1>1
<1>3. E \in SUBSET (1..n) /\ n + 1 \notin E
    BY <1>1, <1>2
<1>4. IsFiniteSet(E)
    <2>1. IsFiniteSet(1..n)
        BY <1>1, FS_Interval
    <2> HIDE DEF E
    <2> QED BY <2>1, <1>3, FS_Subset
<1>5. CASE error = "budget"
    <2>1. F = E
        BY <1>1, <1>2, <1>5
    <2> QED BY <2>1, <1>5 DEF Executed
<1>6. CASE error # "budget"
    <2>1. F = E \cup {n + 1}
        BY <1>1, <1>2, <1>6
    <2> HIDE DEF E, F, n
    <2>2. Cardinality(F) = Cardinality(E) + 1
        BY <2>1, <1>3, <1>4, FS_AddElement
    <2> QED BY <2>2, <1>6 DEF Executed, E, F
<1> QED BY <1>5, <1>6

-----------------------------------------------------------------------------
(* A client and what it saves next.                                        *)

Places == {"idle", "loop", "settle", "attempt", "pause"}
Recorded(next) == next \in {"attempt", "pause"}

\* What an action may hand to ToSave.
Ready(s, node, next) ==
    /\ s \in States /\ node \in Nodes \cup {"none"} /\ next \in Places
    /\ Recorded(next) => node \in Nodes
    /\ next \in {"loop", "pause"} => s.status = "running"
    /\ Within(s, IF Recorded(next) THEN 1 ELSE 0)

\* A client at work, within its budget.
Sound(c) ==
    /\ client[c] = Idle \/ Working(c)
    /\ ~At(c, "idle") =>
          /\ Within(State(c), IF Recording(c) THEN 1 ELSE 0)
          /\ At(c, "serve") => State(c).seq <= State(c).max

LEMMA WithinFacts ==
    ASSUME NEW s \in States, NEW r \in {0, 1}
    PROVE  /\ Within(s, r) <=> Executed(s) + r <= s.max /\ Executed(s) + r < s.seq
           /\ Executed(s) \in Nat /\ s.max \in Nat /\ s.max > 0 /\ s.seq \in Nat
    BY ExecutedType, StateFacts DEF Within

LEMMA WorkingFacts ==
    ASSUME TypeOK, NEW c \in Clients, ~At(c, "idle")
    PROVE  /\ State(c) \in States
           /\ client[c].at \in {"loop", "serve", "save"}
           /\ At(c, "save") => /\ client[c].node \in Nodes \cup {"none"}
                               /\ client[c].next \in Places
                               /\ client[c] = [at |-> "save", state |-> State(c),
                                       node |-> client[c].node, next |-> client[c].next]
           /\ At(c, "save") /\ client[c].next \in {"loop", "pause"} => State(c).status = "running"
           /\ ~At(c, "save") => /\ client[c] = [at |-> client[c].at, state |-> State(c)]
                                /\ State(c).status = "running"
           /\ Recording(c) <=> At(c, "save") /\ Recorded(client[c].next)
           /\ Recording(c) => client[c].node \in Nodes
<1>1. Working(c)
    BY DEF TypeOK, At, Idle
<1>2. CASE /\ client[c] \in [at : {"loop", "serve"}, state : States]
           /\ State(c).status = "running"
    BY <1>2 DEF At, State, Recording, Recorded
<1>3. CASE /\ client[c] \in [at : {"save"}, state : States, node : Nodes \cup {"none"},
                             next : {"idle", "loop", "settle", "attempt", "pause"}]
           /\ Recording(c) => client[c].node \in Nodes
           /\ client[c].next \in {"loop", "pause"} => State(c).status = "running"
    BY <1>3 DEF At, State, Recording, Recorded, Places
<1> QED BY <1>1, <1>2, <1>3 DEF Working

LEMMA SavesNext ==
    ASSUME TypeOK, NEW c \in Clients, NEW s, NEW node, NEW next, ToSave(c, s, node, next)
    PROVE  /\ client'[c] = [at |-> "save", state |-> s, node |-> node, next |-> next]
           /\ DOMAIN client' = Clients
           /\ \A d \in Clients : d # c => client'[d] = client[d]
    BY DEF TypeOK, ToSave

LEMMA OthersSound ==
    ASSUME NEW d \in Clients, Sound(d), client'[d] = client[d]
    PROVE  Sound(d)'
    BY DEF Sound, Working, At, State, Recording

LEMMA ReadySound ==
    ASSUME NEW c \in Clients, NEW s, NEW node, NEW next, Ready(s, node, next),
           client'[c] = [at |-> "save", state |-> s, node |-> node, next |-> next]
    PROVE  Sound(c)'
<1>1. /\ client'[c].at = "save" /\ client'[c].state = s
      /\ client'[c].node = node /\ client'[c].next = next
    OBVIOUS
<1>2. Recording(c)' <=> Recorded(next)
    BY <1>1 DEF Recording, Recorded, At
<1>3. client'[c] \in [at : {"save"}, state : States, node : Nodes \cup {"none"},
                      next : {"idle", "loop", "settle", "attempt", "pause"}]
    BY DEF Ready, Places
<1>4. Working(c)'
    BY <1>1, <1>2, <1>3 DEF Working, Ready, State
<1>5. Within(s, IF Recording(c)' THEN 1 ELSE 0)
    BY <1>2 DEF Ready
<1> QED BY <1>1, <1>4, <1>5 DEF Sound, At, State

LEMMA IdleSound ==
    ASSUME NEW c \in Clients, client'[c] = Idle
    PROVE  Sound(c)'
    BY DEF Sound, Idle, At

LEMMA AtWorkSound ==
    ASSUME NEW c \in Clients, NEW s \in States, NEW at \in {"loop", "serve"},
           s.status = "running", Within(s, 0), at = "serve" => s.seq <= s.max,
           client'[c] = [at |-> at, state |-> s]
    PROVE  Sound(c)'
<1>1. client'[c].at = at /\ client'[c].state = s
    OBVIOUS
<1>2. ~Recording(c)'
    BY <1>1 DEF Recording, At
<1>3. Working(c)'
    BY <1>1 DEF Working, State
<1> QED BY <1>1, <1>2, <1>3 DEF Sound, At, State

\* The invariant of any number of clients: what the rows and the clients hold.
Safe ==
    /\ rows \in Seq(States)
    /\ published \in [Runs -> Workspaces \cup {NotPublished}]
    /\ vault \in Workspaces /\ index \in Workspaces \cup {Missing}
    /\ raced \subseteq Runs /\ lost \in BOOLEAN
    /\ \A i \in DOMAIN rows : Within(rows[i], 0)
    /\ DOMAIN client = Clients
    /\ \A c \in Clients : Sound(c)

LEMMA SafeIs == Safe <=> TypeOK /\ WithinBudget
    BY DEF Safe, Sound, TypeOK, WithinBudget

-----------------------------------------------------------------------------
(* The steps of a client.                                                  *)

LEMMA WithinNext ==
    ASSUME NEW s \in States, NEW t \in States, t.attempts = s.attempts, t.max = s.max,
           t.seq = s.seq + 1, NEW r \in {0, 1}, NEW q \in {0, 1}, Within(s, r),
           q = 1 => r = 1 \/ s.seq <= s.max
    PROVE  Within(t, q)
<1>1. Executed(t) = Executed(s)
    BY ExecutedSame
<1> QED BY <1>1, WithinFacts

\* What an action saves: the next state of the run in hand, at its next boundary.
HandsOn(c, s, node, next) ==
    /\ ToSave(c, s, node, next) /\ Ready(s, node, next)
    /\ s.run = State(c).run /\ s.seq = State(c).seq + 1

LEMMA AtWork ==
    ASSUME Safe, NEW c \in Clients, At(c, "loop") \/ At(c, "serve")
    PROVE  /\ State(c) \in States /\ State(c).status = "running" /\ State(c).step \in Nodes
           /\ Within(State(c), 0)
           /\ At(c, "serve") => State(c).seq <= State(c).max
<1>1. TypeOK
    BY SafeIs
<1>2. ~At(c, "idle") /\ ~At(c, "save")
    BY DEF At
<1>3. State(c) \in States /\ State(c).status = "running" /\ ~Recording(c)
    BY <1>1, <1>2, WorkingFacts
<1>4. State(c).step \in Nodes
    BY <1>3, StateFacts
<1>5. Sound(c)
    BY DEF Safe
<1> QED BY <1>2, <1>3, <1>4, <1>5 DEF Sound

LEMMA OverBudgetHands ==
    ASSUME Safe, NEW c \in Clients, OverBudget(c)
    PROVE  \E s, node, next : HandsOn(c, s, node, next) /\ s.status = "failed"
<1> DEFINE old == State(c)
           failed == Fails(old, "failed")
           s == Attempted(failed, old.step, "budget")
<1>1. At(c, "loop") /\ ToSave(c, s, "none", "idle")
    BY DEF OverBudget
<1>2. /\ old \in States /\ old.status = "running" /\ old.step \in Nodes /\ Within(old, 0)
    BY <1>1, AtWork
<1>3. /\ failed \in States /\ failed.run = old.run /\ failed.seq = old.seq + 1
      /\ failed.status = "failed" /\ failed.attempts = old.attempts /\ failed.max = old.max
    BY <1>2, FailsFacts DEF Statuses, Settled
<1> HIDE DEF failed
<1>4. /\ s \in States /\ s.run = failed.run /\ s.seq = failed.seq
      /\ s.status = "failed" /\ s.max = failed.max /\ Executed(s) = Executed(failed)
    <2>1. /\ s \in States /\ s.run = failed.run /\ s.seq = failed.seq
          /\ s.status = failed.status /\ s.max = failed.max
          /\ s.attempts = Append(failed.attempts, [run |-> failed.run, node |-> old.step,
                                                   error |-> "budget"])
        BY <1>2, <1>3, AttemptedFacts
    <2> HIDE DEF s
    <2>2. Executed(s) = Executed(failed)
        BY <1>3, <2>1, ExecutedAttempt
    <2> QED BY <1>3, <2>1, <2>2
<1>5. Within(failed, 0)
    BY <1>2, <1>3, WithinNext
<1>6. Within(s, 0)
    BY <1>3, <1>4, <1>5 DEF Within
<1>7. Ready(s, "none", "idle")
    BY <1>4, <1>6 DEF Ready, Places, Recorded
<1> HIDE DEF s
<1>8. HandsOn(c, s, "none", "idle")
    BY <1>1, <1>3, <1>4, <1>7 DEF HandsOn
<1> QED BY <1>4, <1>8

LEMMA InjectedFailureHands ==
    ASSUME Safe, NEW c \in Clients, InjectedFailure(c)
    PROVE  \E s, node, next : HandsOn(c, s, node, next) /\ s.status = "failed"
<1> DEFINE old == State(c)
           failed == Fails(old, "failed")
           s == Attempted(failed, old.step, "failed")
<1>1. At(c, "loop") /\ ToSave(c, s, "none", "idle") /\ old.seq <= old.max
    BY DEF InjectedFailure, InBudget
<1>2. /\ old \in States /\ old.status = "running" /\ old.step \in Nodes /\ Within(old, 0)
    BY <1>1, AtWork
<1>3. /\ failed \in States /\ failed.run = old.run /\ failed.seq = old.seq + 1
      /\ failed.status = "failed" /\ failed.attempts = old.attempts /\ failed.max = old.max
    BY <1>2, FailsFacts DEF Statuses, Settled
<1> HIDE DEF failed
<1>4. /\ s \in States /\ s.run = failed.run /\ s.seq = failed.seq
      /\ s.status = "failed" /\ s.max = failed.max /\ Executed(s) = Executed(failed) + 1
    <2>1. /\ s \in States /\ s.run = failed.run /\ s.seq = failed.seq
          /\ s.status = failed.status /\ s.max = failed.max
          /\ s.attempts = Append(failed.attempts, [run |-> failed.run, node |-> old.step,
                                                   error |-> "failed"])
        BY <1>2, <1>3, AttemptedFacts
    <2> HIDE DEF s
    <2>2. Executed(s) = Executed(failed) + 1
        BY <1>3, <2>1, ExecutedAttempt
    <2> QED BY <1>3, <2>1, <2>2
<1>5. Within(failed, 1)
    BY <1>1, <1>2, <1>3, WithinNext
<1>6. Within(s, 0)
    BY <1>3, <1>4, <1>5, ExecutedType DEF Within
<1>7. Ready(s, "none", "idle")
    BY <1>4, <1>6 DEF Ready, Places, Recorded
<1> HIDE DEF s
<1>8. HandsOn(c, s, "none", "idle")
    BY <1>1, <1>3, <1>4, <1>7 DEF HandsOn
<1> QED BY <1>4, <1>8

\* A node that is recorded afterwards, whatever became of it.
LEMMA NodeHands ==
    ASSUME Safe, NEW c \in Clients, At(c, "loop") \/ At(c, "serve"),
           State(c).seq <= State(c).max,
           NEW s \in States, s.attempts = State(c).attempts, s.max = State(c).max,
           s.run = State(c).run, s.seq = State(c).seq + 1,
           NEW node \in Nodes, NEW next \in {"attempt", "pause"},
           next = "pause" => s.status = "running", ToSave(c, s, node, next)
    PROVE  HandsOn(c, s, node, next)
<1>1. State(c) \in States /\ Within(State(c), 0)
    BY AtWork
<1>2. Within(s, 1)
    BY <1>1, WithinNext
<1>3. Ready(s, node, next)
    BY <1>2 DEF Ready, Recorded, Places
<1> QED BY <1>3 DEF HandsOn

LEMMA NodeFailsHands ==
    ASSUME Safe, NEW c \in Clients, NodeFails(c)
    PROVE  \E s, node, next : HandsOn(c, s, node, next) /\ s.status = "failed"
<1> DEFINE s == Fails(State(c), "failed")
<1>1. At(c, "loop") /\ ToSave(c, s, State(c).step, "attempt") /\ State(c).seq <= State(c).max
    BY DEF NodeFails, InBudget
<1>2. State(c) \in States /\ State(c).status = "running" /\ State(c).step \in Nodes
    BY <1>1, AtWork
<1>3. /\ s \in States /\ s.run = State(c).run /\ s.seq = State(c).seq + 1 /\ s.status = "failed"
      /\ s.attempts = State(c).attempts /\ s.max = State(c).max
    BY <1>2, FailsFacts DEF Statuses, Settled
<1> HIDE DEF s
<1>4. HandsOn(c, s, State(c).step, "attempt")
    BY <1>1, <1>2, <1>3, NodeHands
<1> QED BY <1>3, <1>4

LEMMA ResolveSourceHands ==
    ASSUME Safe, NEW c \in Clients, ResolveSource(c)
    PROVE  \E s, node, next : HandsOn(c, s, node, next) /\ s.status = "running"
<1> DEFINE moved == Step(State(c), "running", "retrieve_context")
           s == [moved EXCEPT !.src = index]
<1>1. /\ At(c, "loop") /\ ToSave(c, s, "resolve_source", "attempt")
      /\ State(c).seq <= State(c).max /\ index # Missing
    BY DEF ResolveSource, Node, InBudget, Readable
<1>2. State(c) \in States /\ index \in Workspaces
    BY <1>1, AtWork DEF Safe
<1>3. /\ moved \in States /\ moved.run = State(c).run /\ moved.seq = State(c).seq + 1
      /\ moved.status = "running"
      /\ moved.attempts = State(c).attempts /\ moved.max = State(c).max
    BY <1>2, StepFacts DEF Statuses, Nodes
<1> HIDE DEF moved
<1>4. /\ s \in States /\ s.run = moved.run /\ s.seq = moved.seq /\ s.status = moved.status
      /\ s.attempts = moved.attempts /\ s.max = moved.max
    BY <1>2, <1>3 DEF States
<1> HIDE DEF s
<1>5. HandsOn(c, s, "resolve_source", "attempt")
    BY <1>1, <1>3, <1>4, NodeHands DEF Nodes
<1> QED BY <1>3, <1>4, <1>5

LEMMA RetrieveContextHands ==
    ASSUME Safe, NEW c \in Clients, RetrieveContext(c)
    PROVE  \E s, node, next : HandsOn(c, s, node, next) /\ s.status = "running"
<1> DEFINE s == Step(State(c), "running", "emit_result")
<1>1. /\ At(c, "loop") /\ ToSave(c, s, "retrieve_context", "pause")
      /\ State(c).seq <= State(c).max
    BY DEF RetrieveContext, Node, InBudget
<1>2. State(c) \in States
    BY <1>1, AtWork
<1>3. /\ s \in States /\ s.run = State(c).run /\ s.seq = State(c).seq + 1
      /\ s.status = "running"
      /\ s.attempts = State(c).attempts /\ s.max = State(c).max
    BY <1>2, StepFacts DEF Statuses, Nodes
<1> HIDE DEF s
<1>4. HandsOn(c, s, "retrieve_context", "pause")
    BY <1>1, <1>3, NodeHands DEF Nodes
<1> QED BY <1>3, <1>4

LEMMA EmitStaleHands ==
    ASSUME Safe, NEW c \in Clients, EmitStale(c)
    PROVE  \E s, node, next : HandsOn(c, s, node, next) /\ s.status = "stale"
<1> DEFINE s == Fails(State(c), "stale")
<1>1. /\ At(c, "loop") /\ ToSave(c, s, "emit_result", "attempt")
      /\ State(c).seq <= State(c).max
    BY DEF EmitStale, Node, InBudget
<1>2. State(c) \in States /\ State(c).status = "running"
    BY <1>1, AtWork
<1>3. /\ s \in States /\ s.run = State(c).run /\ s.seq = State(c).seq + 1 /\ s.status = "stale"
      /\ s.attempts = State(c).attempts /\ s.max = State(c).max
    BY <1>2, FailsFacts DEF Statuses, Settled
<1> HIDE DEF s
<1>4. HandsOn(c, s, "emit_result", "attempt")
    BY <1>1, <1>3, NodeHands DEF Nodes
<1> QED BY <1>3, <1>4

LEMMA ServeHands ==
    ASSUME Safe, NEW c \in Clients, Serve(c)
    PROVE  /\ \E s, node, next :
                 /\ HandsOn(c, s, node, next) /\ s.src = State(c).src
                 /\ \/ s.status = "completed" /\ published'[s.run] = index
                    \/ s.status = "failed"
           /\ published' \in [Runs -> Workspaces \cup {NotPublished}]
           /\ \A r \in Runs : r # State(c).run => published'[r] = published[r]
           /\ UNCHANGED <<rows, lost, sources>>
<1> DEFINE old == State(c)
           done == Step(old, "completed", "none")
           failed == Fails(old, "failed")
<1>1. At(c, "serve") /\ UNCHANGED <<rows, lost, sources>>
    BY DEF Serve
<1>2. old \in States /\ old.status = "running" /\ old.seq <= old.max /\ old.run \in Runs
    BY <1>1, AtWork, StateFacts
<1>3. /\ done \in States /\ done.run = old.run /\ done.seq = old.seq + 1
      /\ done.status = "completed" /\ done.src = old.src
      /\ done.attempts = old.attempts /\ done.max = old.max
    BY <1>2, StepFacts DEF Statuses, Settled
<1>4. /\ failed \in States /\ failed.run = old.run /\ failed.seq = old.seq + 1
      /\ failed.status = "failed" /\ failed.src = old.src
      /\ failed.attempts = old.attempts /\ failed.max = old.max
    BY <1>2, FailsFacts DEF Statuses, Settled
<1>5. ToSave(c, done, "emit_result", "attempt") => HandsOn(c, done, "emit_result", "attempt")
    <2> HIDE DEF done, failed
    <2> QED BY <1>1, <1>2, <1>3, NodeHands DEF Nodes
<1>6. ToSave(c, failed, "emit_result", "attempt") => HandsOn(c, failed, "emit_result", "attempt")
    <2> HIDE DEF done, failed
    <2> QED BY <1>1, <1>2, <1>4, NodeHands DEF Nodes
<1>7. published \in [Runs -> Workspaces \cup {NotPublished}] /\ index \in Workspaces \cup {Missing}
    BY DEF Safe
<1>8. CASE /\ Readable /\ published' = [published EXCEPT ![old.run] = index]
           /\ ToSave(c, done, "emit_result", "attempt")
    <2> HIDE DEF done, failed, old
    <2>1. index \in Workspaces
        BY <1>7, <1>8 DEF Readable
    <2> QED BY <1>1, <1>2, <1>3, <1>5, <1>7, <1>8, <2>1 DEF old
<1>9. CASE /\ Readable /\ published' = [published EXCEPT ![old.run] = index]
           /\ ToSave(c, failed, "emit_result", "attempt")
    <2> HIDE DEF done, failed, old
    <2>1. index \in Workspaces
        BY <1>7, <1>9 DEF Readable
    <2> QED BY <1>1, <1>2, <1>4, <1>6, <1>7, <1>9, <2>1 DEF old
<1>10. CASE ToSave(c, failed, "emit_result", "attempt") /\ UNCHANGED published
    <2> HIDE DEF done, failed, old
    <2> QED BY <1>1, <1>2, <1>4, <1>6, <1>7, <1>10 DEF old
<1> QED BY <1>8, <1>9, <1>10 DEF Serve

-----------------------------------------------------------------------------
(* Commands.                                                               *)

LEMMA StartHands ==
    ASSUME Safe, NEW c \in Clients, Start(c)
    PROVE  \E s, node, next : /\ ToSave(c, s, node, next) /\ Ready(s, node, next)
                              /\ s.run = 1 /\ s.status = "running"
<1>1. PICK n \in Budgets :
          ToSave(c, [run |-> 1, parent |-> 0, status |-> "running", step |-> "resolve_source",
                     seq |-> 1, max |-> n, src |-> index, attempts |-> <<>>, waiting |-> 0],
                 "none", "loop")
    BY DEF Start
<1> DEFINE s == [run |-> 1, parent |-> 0, status |-> "running", step |-> "resolve_source",
                 seq |-> 1, max |-> n, src |-> index, attempts |-> <<>>, waiting |-> 0]
<1>2. index \in Workspaces /\ 1 \in Runs /\ 0 \in 0..MaxRuns /\ <<>> \in Seq(Attempts)
    BY GraphRunAssumption DEF Start, Safe, Runs
<1>3. s \in States
    BY <1>2 DEF States, Settled, Nodes
<1>4. s.run = 1 /\ s.status = "running" /\ s.seq = 1 /\ s.attempts = <<>> /\ s.max = n
    OBVIOUS
<1> HIDE DEF s
<1>5. Executed(s) = 0
    <2>1. {a \in DOMAIN s.attempts : s.attempts[a].error # "budget"} = {}
        BY <1>4
    <2> QED BY <2>1, FS_EmptySet DEF Executed
<1>6. Within(s, 0)
    BY <1>3, <1>4, <1>5, StateFacts DEF Within
<1>7. Ready(s, "none", "loop")
    BY <1>3, <1>4, <1>6 DEF Ready, Places, Recorded
<1>8. ToSave(c, s, "none", "loop")
    BY <1>1 DEF s
<1> QED BY <1>4, <1>7, <1>8

LEMMA NewestFacts ==
    ASSUME Safe, Saved
    PROVE  /\ Newest \in States /\ Within(Newest, 0) /\ Newest.run \in Runs
           /\ \E i \in DOMAIN rows : Newest = rows[i] /\ \A j \in DOMAIN rows : Before(j, i)
<1>1. PICK i \in DOMAIN rows : Newest = rows[i] /\ \A j \in DOMAIN rows : Before(j, i)
    BY SafeIs, NewestIsRow
<1>2. rows[i] \in States /\ Within(rows[i], 0)
    BY DEF Safe
<1> QED BY <1>1, <1>2, StateFacts

LEMMA ResumeHands ==
    ASSUME Safe, NEW c \in Clients, NEW response \in {"resume", "reject"}, Resume(c, response)
    PROVE  \E s, node, next :
              /\ ToSave(c, s, node, next) /\ Ready(s, node, next)
              /\ s.run = Newest.run /\ s.seq = Newest.seq + 1
              /\ s.status \in {"running", "failed", "stale", "rejected"}
<1> DEFINE old == [Newest EXCEPT !.waiting = 0]
           status == IF response = "reject" THEN "rejected"
                     ELSE IF index = Missing THEN "failed"
                     ELSE IF index # old.src THEN "stale" ELSE "running"
           next == IF status = "running" THEN "loop" ELSE "idle"
           s == Fails(old, status)
<1>1. Saved /\ Newest.status = "paused" /\ ToSave(c, s, "none", next)
    BY DEF Resume
<1>2. Newest \in States /\ Within(Newest, 0)
    BY <1>1, NewestFacts
<1>3. /\ old \in States /\ old.run = Newest.run /\ old.status = Newest.status
      /\ old.seq = Newest.seq /\ old.attempts = Newest.attempts /\ old.max = Newest.max
    BY <1>2 DEF States
<1>4. status \in {"running", "failed", "stale", "rejected"} /\ status \in Statuses
    BY DEF Statuses, Settled
<1> HIDE DEF status, old
<1>5. /\ s \in States /\ s.run = Newest.run /\ s.seq = Newest.seq + 1 /\ s.status = status
      /\ s.attempts = Newest.attempts /\ s.max = Newest.max
    BY <1>1, <1>3, <1>4, FailsFacts
<1> HIDE DEF s
<1>6. Within(s, 0)
    BY <1>2, <1>5, WithinNext
<1>7. Ready(s, "none", next)
    BY <1>5, <1>6 DEF Ready, Places, Recorded
<1> QED BY <1>1, <1>4, <1>5, <1>7

\* max(run_id) + 1 is a number no row and no client has.
LEMMA FreshFacts ==
    ASSUME Safe, Saved, Fresh <= MaxRuns
    PROVE  Fresh \in Runs /\ \A i \in DOMAIN rows : rows[i].run < Fresh
<1>1. \A i \in DOMAIN rows : rows[i].run \in Runs /\ rows[i].run \in Taken
    <2> TAKE i \in DOMAIN rows
    <2>1. rows[i] \in States
        BY DEF Safe
    <2> QED BY <2>1, StateFacts DEF Taken
<1>2. \A c \in {d \in Clients : client[d].at # "idle"} : client[c].state.run \in Runs
    <2> TAKE c \in {d \in Clients : client[d].at # "idle"}
    <2>1. State(c) \in States
        BY SafeIs, WorkingFacts DEF At
    <2> QED BY <2>1, StateFacts DEF State
<1>3. Taken \in SUBSET (1..MaxRuns)
    BY <1>1, <1>2 DEF Taken, Runs
<1>4. Taken # {}
    <2>1. 1 \in DOMAIN rows
        BY DEF Saved, Safe
    <2> QED BY <1>1, <2>1
<1>5. Max(Taken) \in Taken /\ \A r \in Taken : r <= Max(Taken)
    BY <1>3, <1>4, GreatestOf, GraphRunAssumption
<1>6. Max(Taken) \in Nat /\ Max(Taken) >= 1 /\ \A r \in Taken : r \in Nat
    <2>1. \A r \in Taken : r \in 1..MaxRuns
        BY <1>3
    <2> QED BY <1>5, <2>1, GraphRunAssumption
<1> DEFINE m == Max(Taken)
<1>7. Fresh = 1 + m
    BY DEF Fresh
<1>8. \A i \in DOMAIN rows : rows[i].run <= m /\ rows[i].run \in Nat
    BY <1>1, <1>5, <1>6
<1> HIDE DEF m
<1>9. m \in Nat /\ m >= 1
    BY <1>6 DEF m
<1>10. Fresh \in Runs
    BY <1>7, <1>9, GraphRunAssumption DEF Runs
<1>11. \A i \in DOMAIN rows : rows[i].run < Fresh
    BY <1>7, <1>8, <1>9
<1> QED BY <1>10, <1>11

LEMMA RetryHands ==
    ASSUME Safe, NEW c \in Clients, NEW r \in Runs, Retry(c, r)
    PROVE  \E s, node, next :
              /\ ToSave(c, s, node, next) /\ Ready(s, node, next)
              /\ s.run = Fresh /\ s.seq = Newest.seq + 1 /\ s.status = "running"
<1> DEFINE moved == Step(Newest, "running", Newest.step)
           s == [moved EXCEPT !.run = Fresh, !.parent = r]
<1>1. Saved /\ Newest.status = "failed" /\ ToSave(c, s, "none", "loop") /\ Fresh <= MaxRuns
    BY DEF Retry, Retriable, Retried
<1>2. Newest \in States /\ Within(Newest, 0)
    BY <1>1, NewestFacts
<1>3. Newest.step \in Nodes
    BY <1>1, <1>2, StateFacts
<1>4. /\ moved \in States /\ moved.seq = Newest.seq + 1 /\ moved.status = "running"
      /\ moved.attempts = Newest.attempts /\ moved.max = Newest.max
    BY <1>2, <1>3, StepFacts DEF Statuses, Nodes
<1>5. Fresh \in Runs /\ r \in 0..MaxRuns
    BY <1>1, FreshFacts, GraphRunAssumption DEF Runs
<1> HIDE DEF moved
<1>6. /\ s \in States /\ s.run = Fresh /\ s.seq = moved.seq /\ s.status = moved.status
      /\ s.attempts = moved.attempts /\ s.max = moved.max
    <2> PICK fresh \in Runs : fresh = Fresh
        BY <1>5
    <2> QED BY <1>4, <1>5 DEF States
<1> HIDE DEF s
<1>7. Within(s, 0)
    BY <1>2, <1>4, <1>6, WithinNext
<1>8. Ready(s, "none", "loop")
    BY <1>4, <1>6, <1>7 DEF Ready, Places, Recorded
<1> QED BY <1>1, <1>4, <1>6, <1>8

-----------------------------------------------------------------------------
(* Saving.                                                                 *)

\* What becomes of a client that saved s: it is done, goes on with it, or has
\* the attempt record or the pause to save next.
Onward(c, s) ==
    \/ client'[c] = Idle
    \/ client'[c] = [at |-> "loop", state |-> s] /\ s.status = "running"
    \/ \E t : /\ client'[c] = [at |-> "save", state |-> t, node |-> "none", next |-> "settle"]
              /\ t \in States /\ t.run = s.run /\ t.seq = s.seq /\ t.status = s.status
              /\ t.src = s.src /\ Within(t, 0)
    \/ \E t, node : /\ client'[c] = [at |-> "save", state |-> t, node |-> node, next |-> "attempt"]
                    /\ t \in States /\ t.run = s.run /\ t.seq = s.seq + 1
                    /\ s.status = "running" /\ t.status = "paused"
                    /\ Within(t, 1) /\ node \in Nodes

LEMMA SaveFacts ==
    ASSUME Safe, NEW c \in Clients, Save(c)
    PROVE  /\ At(c, "save") /\ State(c) \in States /\ Within(State(c), 0)
           /\ rows' = Append(rows, State(c))
           /\ DOMAIN client' = Clients /\ \A d \in Clients : d # c => client'[d] = client[d]
           /\ Onward(c, State(c))
           /\ UNCHANGED <<published, lost, sources>>
<1> DEFINE s == State(c)
           to == client[c].next
           node == client[c].node
           cid == Len(rows) + 1
           r == IF Recording(c) THEN 1 ELSE 0
<1>1. At(c, "save") /\ rows' = Append(rows, s) /\ UNCHANGED <<published, lost, sources>>
    BY DEF Save
<1>2. ~At(c, "idle") /\ TypeOK
    BY <1>1, SafeIs DEF At
<1>3. /\ s \in States /\ node \in Nodes \cup {"none"} /\ to \in Places
      /\ to \in {"loop", "pause"} => s.status = "running"
      /\ (Recording(c) <=> Recorded(to)) /\ (Recorded(to) => node \in Nodes)
    <2>1. s \in States /\ node \in Nodes \cup {"none"} /\ to \in Places
        BY <1>1, <1>2, WorkingFacts
    <2>2. to \in {"loop", "pause"} => s.status = "running"
        BY <1>1, <1>2, WorkingFacts
    <2>3. Recording(c) <=> Recorded(to)
        BY <1>1, <1>2, WorkingFacts
    <2>4. Recording(c) => node \in Nodes
        BY <1>1, <1>2, WorkingFacts
    <2> HIDE DEF s, to, node
    <2> QED BY <2>1, <2>2, <2>3, <2>4
<1>4. Within(s, r)
    BY <1>2 DEF Safe, Sound
<1>5. Within(s, 0)
    BY <1>3, <1>4, WithinFacts
<1>6. Len(rows) \in Nat /\ DOMAIN client = Clients
    BY DEF Safe
<1>7. CASE to = "idle" /\ client' = [client EXCEPT ![c] = Idle]
    BY <1>1, <1>3, <1>5, <1>6, <1>7 DEF Onward
<1>8. CASE to = "loop" /\ client' = [client EXCEPT ![c] = [at |-> "loop", state |-> s]]
    BY <1>1, <1>3, <1>5, <1>6, <1>8 DEF Onward
<1>9. CASE to = "settle" /\ client' = [client EXCEPT ![c] =
              IF s.status = "running" THEN [at |-> "loop", state |-> s] ELSE Idle]
    BY <1>1, <1>3, <1>5, <1>6, <1>9 DEF Onward
<1>10. CASE /\ to \in {"attempt", "pause"}
            /\ ToSave(c, Attempted(s, node, ErrorOf(s)), "none", "settle")
    <2> DEFINE t == Attempted(s, node, ErrorOf(s))
    <2>1. node \in Nodes /\ Within(s, 1)
        <3>1. Recorded(to) /\ Recording(c) /\ node \in Nodes
            <4> HIDE DEF s, node, to
            <4> QED BY <1>3, <1>10 DEF Recorded
        <3> QED BY <3>1, <1>4
    <2>2. ErrorOf(s) \in {"none", "failed", "budget"} /\ ErrorOf(s) # "budget"
        BY DEF ErrorOf
    <2>3. /\ t \in States /\ t.run = s.run /\ t.status = s.status /\ t.seq = s.seq
          /\ t.src = s.src /\ t.max = s.max
          /\ t.attempts = Append(s.attempts, [run |-> s.run, node |-> node, error |-> ErrorOf(s)])
        <3> HIDE DEF node, s
        <3> QED BY <1>3, <2>1, <2>2, AttemptedFacts
    <2>4. ToSave(c, t, "none", "settle")
        BY <1>10
    <2> HIDE DEF t, s, node
    <2>5. Executed(t) = Executed(s) + 1
        BY <1>3, <2>2, <2>3, ExecutedAttempt
    <2>6. Within(t, 0)
        BY <2>1, <2>3, <2>5, <1>3, WithinFacts DEF Within
    <2>7. /\ client'[c] = [at |-> "save", state |-> t, node |-> "none", next |-> "settle"]
          /\ DOMAIN client' = Clients /\ \A d \in Clients : d # c => client'[d] = client[d]
        BY <2>4, <1>2, SavesNext
    <2>8. Onward(c, s)
        BY <2>3, <2>6, <2>7 DEF Onward
    <2> QED BY <1>1, <1>3, <1>5, <2>7, <2>8 DEF s
<1>11. CASE /\ to = "pause"
            /\ ToSave(c, [Fails(s, "paused") EXCEPT !.waiting = cid], node, "attempt")
    <2> DEFINE p == Fails(s, "paused")
               t == [p EXCEPT !.waiting = cid]
    <2>1. node \in Nodes /\ Within(s, 1) /\ s.status = "running"
        <3>1. Recorded(to) /\ Recording(c) /\ s.status = "running" /\ node \in Nodes
            <4> HIDE DEF s, node
            <4> QED BY <1>3, <1>11 DEF Recorded
        <3> QED BY <3>1, <1>4
    <2>2. /\ p \in States /\ p.run = s.run /\ p.status = "paused" /\ p.seq = s.seq + 1
          /\ p.src = s.src /\ p.max = s.max /\ p.attempts = s.attempts
        <3> HIDE DEF s
        <3> QED BY <1>3, <2>1, FailsFacts DEF Statuses, Settled
    <2>3. ToSave(c, t, node, "attempt")
        BY <1>11
    <2>4. cid \in Nat
        BY <1>6
    <2> HIDE DEF p, s, cid, node
    <2>5. /\ t \in States /\ t.run = p.run /\ t.status = p.status /\ t.seq = p.seq
          /\ t.src = p.src /\ t.max = p.max /\ t.attempts = p.attempts
        BY <2>2, <2>4 DEF States
    <2> HIDE DEF t
    <2>6. Within(t, 1)
        BY <1>3, <2>1, <2>2, <2>5, WithinNext
    <2>7. /\ client'[c] = [at |-> "save", state |-> t, node |-> node, next |-> "attempt"]
          /\ DOMAIN client' = Clients /\ \A d \in Clients : d # c => client'[d] = client[d]
        BY <2>3, <1>2, SavesNext
    <2>8. Onward(c, s)
        BY <2>1, <2>2, <2>5, <2>6, <2>7 DEF Onward
    <2> QED BY <1>1, <1>3, <1>5, <2>7, <2>8 DEF s
<1> QED BY <1>7, <1>8, <1>9, <1>10, <1>11 DEF Save

LEMMA OnwardSound ==
    ASSUME NEW c \in Clients, NEW s \in States, Within(s, 0), Onward(c, s)
    PROVE  Sound(c)'
<1>1. CASE client'[c] = Idle
    BY <1>1, IdleSound
<1>2. CASE client'[c] = [at |-> "loop", state |-> s] /\ s.status = "running"
    BY <1>2, AtWorkSound
<1>3. ASSUME NEW t, /\ client'[c] = [at |-> "save", state |-> t, node |-> "none", next |-> "settle"]
                    /\ t \in States /\ Within(t, 0)
      PROVE  Sound(c)'
    <2>1. Ready(t, "none", "settle")
        BY <1>3 DEF Ready, Places, Recorded
    <2> QED BY <1>3, <2>1, ReadySound
<1>4. ASSUME NEW t, NEW node,
             /\ client'[c] = [at |-> "save", state |-> t, node |-> node, next |-> "attempt"]
             /\ t \in States /\ Within(t, 1) /\ node \in Nodes
      PROVE  Sound(c)'
    <2>1. Ready(t, node, "attempt")
        BY <1>4 DEF Ready, Places, Recorded
    <2> QED BY <1>4, <2>1, ReadySound
<1> QED BY <1>1, <1>2, <1>3, <1>4 DEF Onward

-----------------------------------------------------------------------------
(* Any number of clients.                                                  *)

LEMMA HandedSafe ==
    ASSUME Safe, NEW c \in Clients, NEW s, NEW node, NEW next,
           ToSave(c, s, node, next), Ready(s, node, next),
           published' \in [Runs -> Workspaces \cup {NotPublished}],
           UNCHANGED <<rows, lost, sources>>
    PROVE  Safe'
<1>1. TypeOK
    BY SafeIs
<1>2. /\ client'[c] = [at |-> "save", state |-> s, node |-> node, next |-> next]
      /\ DOMAIN client' = Clients /\ \A d \in Clients : d # c => client'[d] = client[d]
    BY <1>1, SavesNext
<1>3. Sound(c)'
    BY <1>2, ReadySound
<1>4. \A d \in Clients : Sound(d)'
    <2> TAKE d \in Clients
    <2>1. CASE d = c
        BY <2>1, <1>3
    <2>2. CASE d # c
        <3>1. Sound(d)
            BY DEF Safe
        <3> QED BY <2>2, <3>1, <1>2, OthersSound
    <2> QED BY <2>1, <2>2
<1>5. /\ rows' = rows /\ lost' = lost /\ vault' = vault /\ index' = index /\ raced' = raced
    BY DEF sources
<1>6. (\A i \in DOMAIN rows : Within(rows[i], 0))'
    BY <1>5 DEF Safe
<1> QED BY <1>2, <1>4, <1>5, <1>6 DEF Safe

\* The steps that only hand a state to the client's next save.
Hands(c) ==
    \/ Start(c) \/ (\E response \in {"resume", "reject"} : Resume(c, response))
    \/ (\E r \in Runs : Retry(c, r))
    \/ OverBudget(c) \/ InjectedFailure(c) \/ NodeFails(c) \/ ResolveSource(c)
    \/ RetrieveContext(c) \/ EmitStale(c)

LEMMA HandsKeep ==
    ASSUME NEW c \in Clients, Hands(c)
    PROVE  UNCHANGED <<rows, published, lost, sources>>
    BY DEF Hands, Start, Resume, Retry, OverBudget, InjectedFailure, NodeFails, ResolveSource,
           RetrieveContext, EmitStale

LEMMA HandsReady ==
    ASSUME Safe, NEW c \in Clients, Hands(c)
    PROVE  \E s, node, next : ToSave(c, s, node, next) /\ Ready(s, node, next)
<1>1. CASE Start(c)
    BY <1>1, StartHands
<1>2. ASSUME NEW response \in {"resume", "reject"}, Resume(c, response)
      PROVE  \E s, node, next : ToSave(c, s, node, next) /\ Ready(s, node, next)
    BY <1>2, ResumeHands
<1>3. ASSUME NEW r \in Runs, Retry(c, r)
      PROVE  \E s, node, next : ToSave(c, s, node, next) /\ Ready(s, node, next)
    BY <1>3, RetryHands
<1>4. CASE OverBudget(c)
    BY <1>4, OverBudgetHands DEF HandsOn
<1>5. CASE InjectedFailure(c)
    BY <1>5, InjectedFailureHands DEF HandsOn
<1>6. CASE NodeFails(c)
    BY <1>6, NodeFailsHands DEF HandsOn
<1>7. CASE ResolveSource(c)
    BY <1>7, ResolveSourceHands DEF HandsOn
<1>8. CASE RetrieveContext(c)
    BY <1>8, RetrieveContextHands DEF HandsOn
<1>9. CASE EmitStale(c)
    BY <1>9, EmitStaleHands DEF HandsOn
<1> QED BY <1>1, <1>2, <1>3, <1>4, <1>5, <1>6, <1>7, <1>8, <1>9 DEF Hands

LEMMA OneMoves ==
    ASSUME Safe, NEW c \in Clients, DOMAIN client' = Clients,
           \A d \in Clients : d # c => client'[d] = client[d], Sound(c)'
    PROVE  \A d \in Clients : Sound(d)'
<1> TAKE d \in Clients
<1>1. CASE d # c
    <2>1. Sound(d)
        BY DEF Safe
    <2> QED BY <1>1, <2>1, OthersSound
<1> QED BY <1>1

LEMMA SaveSafe ==
    ASSUME Safe, NEW c \in Clients, Save(c)
    PROVE  Safe'
<1>1. /\ State(c) \in States /\ Within(State(c), 0) /\ rows' = Append(rows, State(c))
      /\ DOMAIN client' = Clients /\ \A d \in Clients : d # c => client'[d] = client[d]
      /\ Onward(c, State(c)) /\ UNCHANGED <<published, lost, sources>>
    BY SaveFacts
<1>2. \A d \in Clients : Sound(d)'
    BY <1>1, OnwardSound, OneMoves
<1> DEFINE s == State(c)
<1>3. rows \in Seq(States) /\ Len(rows) \in Nat
    BY DEF Safe
<1>4. rows' \in Seq(States)
    BY <1>1, <1>3
<1>5. (\A i \in DOMAIN rows : Within(rows[i], 0))'
    <2> PICK st \in States : st = s
        BY <1>1
    <2>1. rows' = Append(rows, st) /\ Within(st, 0)
        BY <1>1
    <2>2. SUFFICES ASSUME NEW i \in DOMAIN rows' PROVE Within(rows'[i], 0)
        OBVIOUS
    <2>3. CASE i \in DOMAIN rows
        <3>1. rows'[i] = rows[i]
            BY <2>1, <2>3, <1>3
        <3> QED BY <2>3, <3>1 DEF Safe
    <2>4. CASE i = Len(rows) + 1
        <3>1. rows'[i] = st
            BY <2>1, <2>4, <1>3
        <3> QED BY <2>1, <3>1
    <2> QED BY <2>1, <2>3, <2>4, <1>3
<1> QED BY <1>1, <1>2, <1>4, <1>5 DEF Safe, sources

LEMMA EmitCheckedSafe ==
    ASSUME Safe, NEW c \in Clients, EmitChecked(c)
    PROVE  /\ Safe' /\ At(c, "loop") /\ Unchanged(State(c))
           /\ client'[c] = [at |-> "serve", state |-> State(c)]
           /\ \A d \in Clients : d # c => client'[d] = client[d]
           /\ UNCHANGED <<rows, published, lost, sources>>
<1>1. /\ At(c, "loop") /\ State(c).seq <= State(c).max /\ Unchanged(State(c))
      /\ client' = [client EXCEPT ![c].at = "serve"]
      /\ UNCHANGED <<rows, published, lost, sources>>
    BY DEF EmitChecked, Node, InBudget
<1>2. TypeOK /\ ~At(c, "idle") /\ ~At(c, "save")
    BY <1>1, SafeIs DEF At
<1>3. /\ State(c) \in States /\ State(c).status = "running" /\ Within(State(c), 0)
    BY <1>1, AtWork
<1>4. client[c] = [at |-> client[c].at, state |-> State(c)]
    BY <1>2, WorkingFacts
<1>5. DOMAIN client = Clients
    BY DEF Safe
<1>6. /\ client'[c] = [at |-> "serve", state |-> State(c)]
      /\ DOMAIN client' = Clients /\ \A d \in Clients : d # c => client'[d] = client[d]
    <2>1. client'[c] = [client[c] EXCEPT !.at = "serve"]
        BY <1>1, <1>5
    <2>2. [[at |-> client[c].at, state |-> State(c)] EXCEPT !.at = "serve"]
            = [at |-> "serve", state |-> State(c)]
        OBVIOUS
    <2> QED BY <1>1, <1>4, <1>5, <2>1, <2>2
<1>7. Sound(c)'
    BY <1>1, <1>3, <1>6, AtWorkSound
<1>8. \A d \in Clients : Sound(d)'
    BY <1>6, <1>7, OneMoves
<1>9. Safe'
    BY <1>1, <1>6, <1>8 DEF Safe, sources
<1> QED BY <1>1, <1>6, <1>9

LEMMA LoseSafe ==
    ASSUME Safe, NEW c \in Clients, Lose(c)
    PROVE  /\ Safe' /\ client'[c] = Idle /\ \A d \in Clients : d # c => client'[d] = client[d]
           /\ UNCHANGED <<rows, published, sources>>
<1>1. /\ client' = [client EXCEPT ![c] = Idle] /\ lost' = TRUE
      /\ UNCHANGED <<rows, published, sources>>
    BY DEF Lose
<1>2. /\ client'[c] = Idle
      /\ DOMAIN client' = Clients /\ \A d \in Clients : d # c => client'[d] = client[d]
    BY <1>1 DEF Safe
<1>3. \A d \in Clients : Sound(d)'
    BY <1>2, IdleSound, OneMoves
<1>4. Safe'
    BY <1>1, <1>2, <1>3 DEF Safe, sources
<1> QED BY <1>1, <1>2, <1>4

LEMMA ChangesSafe ==
    ASSUME Safe, Changes
    PROVE  Safe'
<1>1. /\ vault' \in Workspaces /\ index' \in Workspaces \cup {Missing}
      /\ raced' = raced \cup Reading /\ UNCHANGED <<rows, published, client, lost>>
    BY DEF Changes, Safe
<1>2. Reading \subseteq Runs
    <2> SUFFICES ASSUME NEW c \in Clients, At(c, "serve") PROVE client[c].state.run \in Runs
        BY DEF Reading
    <2>1. State(c) \in States
        BY AtWork
    <2> QED BY <2>1, StateFacts DEF State
<1>3. \A c \in Clients : Sound(c)'
    BY <1>1, OthersSound DEF Safe
<1> QED BY <1>1, <1>2, <1>3 DEF Safe

\* Every step, whoever takes it.
LEMMA NextIs ==
    ASSUME Next
    PROVE  \/ Changes
           \/ \E c \in Clients : \/ Hands(c) \/ Save(c) \/ EmitChecked(c) \/ Serve(c) \/ Lose(c)
    BY DEF Next, Proceed, Hands

LEMMA SafeStep ==
    ASSUME Safe, [Next]_vars
    PROVE  Safe'
<1>1. CASE Changes
    BY <1>1, ChangesSafe
<1>2. ASSUME NEW c \in Clients, Hands(c)
      PROVE  Safe'
    <2>1. PICK s, node, next : ToSave(c, s, node, next) /\ Ready(s, node, next)
        BY <1>2, HandsReady
    <2>2. UNCHANGED <<rows, published, lost, sources>>
        BY <1>2, HandsKeep
    <2>3. published' \in [Runs -> Workspaces \cup {NotPublished}]
        BY <2>2 DEF Safe
    <2> QED BY <2>1, <2>2, <2>3, HandedSafe
<1>3. ASSUME NEW c \in Clients, Save(c) PROVE Safe'
    BY <1>3, SaveSafe
<1>4. ASSUME NEW c \in Clients, EmitChecked(c) PROVE Safe'
    BY <1>4, EmitCheckedSafe
<1>5. ASSUME NEW c \in Clients, Serve(c) PROVE Safe'
    <2>1. /\ \E s, node, next : ToSave(c, s, node, next) /\ Ready(s, node, next)
          /\ published' \in [Runs -> Workspaces \cup {NotPublished}]
          /\ UNCHANGED <<rows, lost, sources>>
        BY <1>5, ServeHands DEF HandsOn
    <2> QED BY <2>1, HandedSafe
<1>6. ASSUME NEW c \in Clients, Lose(c) PROVE Safe'
    BY <1>6, LoseSafe
<1>7. CASE UNCHANGED vars
    <2>1. /\ rows' = rows /\ published' = published /\ vault' = vault /\ index' = index
          /\ client' = client /\ raced' = raced /\ lost' = lost
        BY <1>7 DEF vars
    <2>2. \A c \in Clients : Sound(c)'
        BY <2>1, OthersSound DEF Safe
    <2> QED BY <2>1, <2>2 DEF Safe
<1> QED BY <1>1, <1>2, <1>3, <1>4, <1>5, <1>6, <1>7, NextIs

LEMMA SafeInit ==
    ASSUME Init
    PROVE  Safe
<1>1. /\ rows = <<>> /\ published = [r \in Runs |-> NotPublished]
      /\ vault \in Workspaces /\ index = vault
      /\ client = [c \in Clients |-> Idle] /\ raced = {} /\ lost = FALSE
    BY DEF Init
<1>2. \A c \in Clients : Sound(c)
    BY <1>1 DEF Sound, Idle, At
<1>3. rows \in Seq(States) /\ \A i \in DOMAIN rows : Within(rows[i], 0)
    BY <1>1
<1>4. published \in [Runs -> Workspaces \cup {NotPublished}]
    BY <1>1
<1>5. DOMAIN client = Clients /\ index \in Workspaces \cup {Missing}
    BY <1>1
<1>6. raced \subseteq Runs /\ lost \in BOOLEAN
    BY <1>1
<1> QED BY <1>1, <1>2, <1>3, <1>4, <1>5, <1>6 DEF Safe

-----------------------------------------------------------------------------
(* One command at a time.                                                  *)

Latest == rows[Len(rows)]

\* What holds besides Safe when commands do not overlap.
Single ==
    /\ \A c \in Clients : ~At(c, "idle") => InHand(c)
    /\ Linear /\ PublishedByRows /\ PublishedAsChecked /\ AnsweredBeforePublished

LEMMA RowFacts ==
    ASSUME Safe
    PROVE  /\ rows \in Seq(States) /\ Len(rows) \in Nat /\ DOMAIN rows = 1..Len(rows)
           /\ \A i \in DOMAIN rows :
                 /\ rows[i] \in States /\ rows[i].run \in Runs /\ rows[i].seq \in Nat
                 /\ rows[i].run \in Nat
           /\ Saved => Len(rows) \in DOMAIN rows /\ Latest \in States
<1>1. rows \in Seq(States) /\ Len(rows) \in Nat /\ DOMAIN rows = 1..Len(rows)
    BY DEF Safe
<1>2. \A i \in DOMAIN rows : rows[i] \in States
    BY <1>1
<1>3. \A i \in DOMAIN rows : rows[i].run \in Runs /\ rows[i].seq \in Nat /\ rows[i].run \in Nat
    BY <1>2, StateFacts DEF Runs
<1>4. Saved => Len(rows) \in DOMAIN rows
    BY <1>1 DEF Saved
<1> QED BY <1>1, <1>2, <1>3, <1>4 DEF Latest

\* The newest checkpoint is the last: the rows are in the order of their steps.
LEMMA NewestIsLast ==
    ASSUME Safe, Linear, Saved
    PROVE  Newest = Latest
<1>1. PICK i \in DOMAIN rows : Newest = rows[i] /\ \A j \in DOMAIN rows : Before(j, i)
    BY NewestFacts
<1>2. /\ Len(rows) \in DOMAIN rows /\ Len(rows) \in Nat /\ i <= Len(rows) /\ i \in Nat
      /\ rows[i].seq \in Nat /\ rows[Len(rows)].seq \in Nat
    BY <1>1, RowFacts
<1>3. rows[i].seq <= rows[Len(rows)].seq
    BY <1>1 DEF Linear
<1>4. Before(Len(rows), i)
    BY <1>1, <1>2
<1>5. i = Len(rows)
    BY <1>2, <1>3, <1>4 DEF Before
<1> QED BY <1>1, <1>5 DEF Latest

LEMMA RowsStay ==
    ASSUME Single, UNCHANGED <<rows, published>>, raced \subseteq raced'
    PROVE  (Linear /\ PublishedByRows /\ PublishedAsChecked /\ AnsweredBeforePublished)'
<1>1. rows' = rows /\ published' = published
    OBVIOUS
<1>2. Linear'
    BY <1>1 DEF Single, Linear
<1>3. PublishedByRows'
    BY <1>1 DEF Single, PublishedByRows, Saved
<1>4. PublishedAsChecked'
    BY <1>1 DEF Single, PublishedAsChecked
<1>5. AnsweredBeforePublished'
    BY <1>1 DEF Single, AnsweredBeforePublished
<1> QED BY <1>2, <1>3, <1>4, <1>5

\* A client that saves next holds what InHand asks of it.
LEMMA SavingInHand ==
    ASSUME NEW c \in Clients, NEW s, NEW node, NEW next,
           client'[c] = [at |-> "save", state |-> s, node |-> node, next |-> next],
           IF Saved' THEN Follows(s, Latest') ELSE s.run = 1 /\ s.status = "running",
           s.status \in {"running", "paused"} => published'[s.run] = NotPublished,
           s.status = "completed" => published'[s.run] = s.src \/ s.run \in raced'
    PROVE  InHand(c)'
<1>1. client'[c].at = "save" /\ client'[c].state = s
    OBVIOUS
<1>2. At(c, "save")' /\ State(c)' = s /\ ~At(c, "loop")' /\ ~At(c, "serve")'
    BY <1>1 DEF At, State
<1> QED BY <1>2 DEF InHand, Latest

\* The client at work holds the last row, which is running.
LEMMA InHandFacts ==
    ASSUME Safe, Single, NEW c \in Clients, At(c, "loop") \/ At(c, "serve")
    PROVE  /\ Saved /\ State(c) = Latest /\ Latest.status = "running" /\ Latest \in States
           /\ published[Latest.run] = NotPublished
           /\ At(c, "serve") => index = Latest.src \/ Latest.run \in raced
<1>1. ~At(c, "idle")
    BY DEF At
<1>2. InHand(c)
    BY <1>1 DEF Single
<1>3. State(c).status = "running" /\ State(c) \in States
    BY AtWork
<1> QED BY <1>2, <1>3 DEF InHand, Latest

LEMMA HandsInHand ==
    ASSUME Safe, Single, NEW c \in Clients, Hands(c)
    PROVE  InHand(c)'
<1>1. rows' = rows /\ published' = published /\ (Saved' <=> Saved) /\ Latest' = Latest
    BY HandsKeep DEF Saved, Latest
<1>2. TypeOK
    BY SafeIs
<1>3. CASE Start(c)
    <2>1. PICK s, node, next : ToSave(c, s, node, next) /\ s.run = 1 /\ s.status = "running"
        BY <1>3, StartHands
    <2>2. ~Saved
        BY <1>3 DEF Start
    <2>3. published[1] = NotPublished
        <3>1. 1 \in Runs
            BY GraphRunAssumption DEF Runs
        <3> QED BY <2>2, <3>1 DEF Single, PublishedByRows
    <2>4. client'[c] = [at |-> "save", state |-> s, node |-> node, next |-> next]
        BY <1>2, <2>1, SavesNext
    <2> QED BY <1>1, <2>1, <2>2, <2>3, <2>4, SavingInHand
<1>4. ASSUME NEW response \in {"resume", "reject"}, Resume(c, response)
      PROVE  InHand(c)'
    <2>1. PICK s, node, next :
              /\ ToSave(c, s, node, next)
              /\ s.run = Newest.run /\ s.seq = Newest.seq + 1
              /\ s.status \in {"running", "failed", "stale", "rejected"}
        BY <1>4, ResumeHands
    <2>2. Saved /\ Latest.status = "paused" /\ Newest = Latest
        BY <1>4, NewestIsLast DEF Resume, Single
    <2>3. published[s.run] = NotPublished
        BY <2>1, <2>2 DEF Single, PublishedByRows, Latest
    <2>4. Follows(s, Latest)
        BY <2>1, <2>2 DEF Follows
    <2>5. client'[c] = [at |-> "save", state |-> s, node |-> node, next |-> next]
        BY <1>2, <2>1, SavesNext
    <2> QED BY <1>1, <2>1, <2>2, <2>3, <2>4, <2>5, SavingInHand
<1>5. ASSUME NEW r \in Runs, Retry(c, r)
      PROVE  InHand(c)'
    <2>1. PICK s, node, next :
              /\ ToSave(c, s, node, next)
              /\ s.run = Fresh /\ s.seq = Newest.seq + 1 /\ s.status = "running"
        BY <1>5, RetryHands
    <2>2. Saved /\ Latest.status = "failed" /\ Newest = Latest /\ Fresh <= MaxRuns
        BY <1>5, NewestIsLast DEF Retry, Retriable, Single
    <2>3. Fresh \in Runs /\ Latest.run < Fresh /\ Latest.run \in Nat /\ Fresh \in Nat
        BY <2>2, FreshFacts, RowFacts DEF Runs, Latest
    <2>4. published[Fresh] = NotPublished
        BY <2>2, <2>3 DEF Single, PublishedByRows, Latest
    <2>5. Follows(s, Latest)
        BY <2>1, <2>2, <2>3 DEF Follows
    <2>6. client'[c] = [at |-> "save", state |-> s, node |-> node, next |-> next]
        BY <1>2, <2>1, SavesNext
    <2> QED BY <1>1, <2>1, <2>2, <2>4, <2>5, <2>6, SavingInHand
<1>6. ASSUME At(c, "loop"),
             \E s, node, next : HandsOn(c, s, node, next) /\ s.status \in {"running", "failed", "stale"}
      PROVE  InHand(c)'
    <2>1. PICK s, node, next : HandsOn(c, s, node, next) /\ s.status \in {"running", "failed", "stale"}
        BY <1>6
    <2>2. /\ Saved /\ State(c) = Latest /\ Latest.status = "running"
          /\ published[Latest.run] = NotPublished
        BY <1>6, InHandFacts
    <2>3. s.run = Latest.run /\ s.seq = Latest.seq + 1
        BY <2>1, <2>2 DEF HandsOn
    <2>4. Follows(s, Latest)
        BY <2>2, <2>3 DEF Follows
    <2>5. client'[c] = [at |-> "save", state |-> s, node |-> node, next |-> next]
        BY <1>2, <2>1, SavesNext DEF HandsOn
    <2> QED BY <1>1, <2>1, <2>2, <2>3, <2>4, <2>5, SavingInHand
<1>7. CASE OverBudget(c)
    BY <1>6, <1>7, OverBudgetHands DEF OverBudget
<1>8. CASE InjectedFailure(c)
    BY <1>6, <1>8, InjectedFailureHands DEF InjectedFailure, InBudget
<1>9. CASE NodeFails(c)
    BY <1>6, <1>9, NodeFailsHands DEF NodeFails, InBudget
<1>10. CASE ResolveSource(c)
    BY <1>6, <1>10, ResolveSourceHands DEF ResolveSource, Node, InBudget
<1>11. CASE RetrieveContext(c)
    BY <1>6, <1>11, RetrieveContextHands DEF RetrieveContext, Node, InBudget
<1>12. CASE EmitStale(c)
    BY <1>6, <1>12, EmitStaleHands DEF EmitStale, Node, InBudget
<1> QED BY <1>3, <1>4, <1>5, <1>7, <1>8, <1>9, <1>10, <1>11, <1>12 DEF Hands

LEMMA ServeSingle ==
    ASSUME Safe, Single, NEW c \in Clients, Serve(c)
    PROVE  /\ InHand(c)'
           /\ (Linear /\ PublishedByRows /\ PublishedAsChecked /\ AnsweredBeforePublished)'
           /\ \A r \in Runs : published[r] # NotPublished => published'[r] = published[r]
<1>1. /\ \A r \in Runs : r # State(c).run => published'[r] = published[r]
      /\ rows' = rows /\ raced' = raced /\ (Saved' <=> Saved) /\ Latest' = Latest
    BY ServeHands DEF sources, Saved, Latest
<1>2. PICK s, node, next :
         /\ HandsOn(c, s, node, next) /\ s.src = State(c).src
         /\ \/ s.status = "completed" /\ published'[s.run] = index
            \/ s.status = "failed"
    BY ServeHands
<1>3. At(c, "serve")
    BY DEF Serve
<1>4. /\ Saved /\ State(c) = Latest /\ Latest.status = "running" /\ Latest \in States
      /\ published[Latest.run] = NotPublished
      /\ index = Latest.src \/ Latest.run \in raced
    BY <1>3, InHandFacts
<1>5. s.run = Latest.run /\ s.seq = Latest.seq + 1 /\ s.src = Latest.src
    BY <1>2, <1>4 DEF HandsOn
<1>6. Follows(s, Latest)
    BY <1>4, <1>5 DEF Follows
<1>7. client'[c] = [at |-> "save", state |-> s, node |-> node, next |-> next]
    BY <1>2, SafeIs, SavesNext DEF HandsOn
<1>8. InHand(c)'
    <2>1. s.status = "completed" => published'[s.run] = s.src \/ s.run \in raced'
        BY <1>1, <1>2, <1>4, <1>5
    <2>2. IF Saved' THEN Follows(s, Latest') ELSE s.run = 1 /\ s.status = "running"
        BY <1>1, <1>4, <1>6
    <2>3. s.status \notin {"running", "paused"}
        BY <1>2
    <2> QED BY <1>7, <2>1, <2>2, <2>3, SavingInHand
<1>9. Linear'
    BY <1>1 DEF Single, Linear
<1>10. PublishedByRows'
    <2>1. Latest.run \in Nat
        BY <1>4, StateFacts DEF Runs
    <2>2. ASSUME NEW r \in Runs, published'[r] # NotPublished
          PROVE  r <= Latest.run
        <3>1. CASE r = Latest.run
            BY <3>1, <2>1
        <3>2. CASE r # Latest.run
            BY <3>2, <2>2, <1>1, <1>4 DEF Single, PublishedByRows, Latest
        <3> QED BY <3>1, <3>2
    <2>3. Latest.status # "paused"
        BY <1>4
    <2> QED BY <1>1, <1>4, <2>2, <2>3 DEF PublishedByRows, Latest
<1>11. PublishedAsChecked'
    <2>1. \A i \in DOMAIN rows : rows[i].status # "completed"
        BY <1>4 DEF Single, Linear, Latest
    <2> QED BY <1>1, <2>1 DEF PublishedAsChecked
<1>12. AnsweredBeforePublished'
    <2>1. \A i \in DOMAIN rows : rows[i].status = "paused" =>
             \E j \in DOMAIN rows : rows[j].seq = rows[i].seq + 1
                                    /\ rows[j].status \in {"running", "failed"}
        BY <1>4 DEF Single, Linear, Latest
    <2> QED BY <1>1, <2>1 DEF AnsweredBeforePublished
<1>13. \A r \in Runs : published[r] # NotPublished => published'[r] = published[r]
    BY <1>1, <1>4
<1> QED BY <1>8, <1>9, <1>10, <1>11, <1>12, <1>13

\* What the saved state s makes of the rows: it follows the last one.
LEMMA SavedFollows ==
    ASSUME Safe, Single, NEW c \in Clients, Save(c)
    PROVE  LET s == State(c) IN
           /\ s \in States /\ rows' = Append(rows, s)
           /\ Saved' /\ Latest' = s /\ Len(rows') = Len(rows) + 1
           /\ DOMAIN rows' = DOMAIN rows \cup {Len(rows) + 1}
           /\ rows'[Len(rows) + 1] = s /\ \A i \in DOMAIN rows : rows'[i] = rows[i]
           /\ IF Saved THEN Follows(s, Latest) ELSE s.run = 1 /\ s.status = "running"
           /\ s.status \in {"running", "paused"} => published[s.run] = NotPublished
           /\ s.status = "completed" => published[s.run] = s.src \/ s.run \in raced
           /\ published' = published /\ raced' = raced /\ index' = index
<1> DEFINE s == State(c)
<1>1. /\ At(c, "save") /\ s \in States /\ rows' = Append(rows, s)
      /\ published' = published /\ raced' = raced /\ index' = index
    BY SaveFacts DEF sources
<1>2. ~At(c, "idle")
    BY <1>1 DEF At
<1>3. InHand(c)
    BY <1>2 DEF Single
<1>4. /\ IF Saved THEN Follows(s, Latest) ELSE s.run = 1 /\ s.status = "running"
      /\ s.status \in {"running", "paused"} => published[s.run] = NotPublished
      /\ s.status = "completed" => published[s.run] = s.src \/ s.run \in raced
    BY <1>1, <1>3 DEF InHand, Latest
<1>5. rows \in Seq(States) /\ Len(rows) \in Nat /\ DOMAIN rows = 1..Len(rows)
    BY RowFacts
<1>6. \A st \in States : rows' = Append(rows, st) =>
          /\ rows' # <<>> /\ rows'[Len(rows')] = st /\ Len(rows') = Len(rows) + 1
          /\ DOMAIN rows' = DOMAIN rows \cup {Len(rows) + 1}
          /\ rows'[Len(rows) + 1] = st /\ \A i \in DOMAIN rows : rows'[i] = rows[i]
    BY <1>5
<1> HIDE DEF s
<1>7. /\ Saved' /\ Latest' = s /\ Len(rows') = Len(rows) + 1
      /\ DOMAIN rows' = DOMAIN rows \cup {Len(rows) + 1}
      /\ rows'[Len(rows) + 1] = s /\ \A i \in DOMAIN rows : rows'[i] = rows[i]
    BY <1>1, <1>6 DEF Saved, Latest
<1> QED BY <1>1, <1>4, <1>7 DEF s

LEMMA FollowsFacts ==
    ASSUME NEW s \in States, NEW t \in States, Follows(s, t)
    PROVE  /\ t.seq <= s.seq /\ t.run <= s.run
           /\ s.seq = t.seq \/ s.seq = t.seq + 1
           /\ t.status = "completed" => s.status = "completed"
           /\ t.status = "paused" =>
                 \/ s.status = "paused" /\ s.seq = t.seq
                 \/ s.seq = t.seq + 1 /\ s.status \in {"running", "failed", "stale", "rejected"}
           /\ t.status \in {"stale", "rejected"} => s.status = t.status
<1>1. /\ s.seq \in Nat /\ t.seq \in Nat /\ s.run \in Nat /\ t.run \in Nat
    BY StateFacts DEF Runs
<1> QED BY <1>1 DEF Follows

LEMMA SaveLinear ==
    ASSUME Safe, Single, NEW c \in Clients, Save(c)
    PROVE  Linear'
<1> PICK s \in States : s = State(c)
    BY SavedFollows
<1>1. /\ Saved' /\ Latest' = s
      /\ DOMAIN rows' = DOMAIN rows \cup {Len(rows) + 1}
      /\ rows'[Len(rows) + 1] = s /\ \A i \in DOMAIN rows : rows'[i] = rows[i]
      /\ IF Saved THEN Follows(s, Latest) ELSE s.run = 1 /\ s.status = "running"
    BY SavedFollows
<1>2. s.seq \in Nat /\ s.run \in Nat
    BY StateFacts DEF Runs
<1> DEFINE Fits(t) ==
        /\ t.seq <= s.seq /\ t.run <= s.run
        /\ t.status = "completed" => s.status = "completed"
        /\ t.status = "paused" =>
              \/ s.status = "paused" /\ s.seq = t.seq
              \/ s.status \in {"stale", "rejected"}
              \/ \E j \in DOMAIN rows' : rows'[j].seq = t.seq + 1
                                         /\ rows'[j].status \in {"running", "failed"}
<1>3. ASSUME NEW i \in DOMAIN rows PROVE Fits(rows[i])
    <2>1. Saved /\ Follows(s, Latest) /\ Latest \in States /\ rows[i] \in States
        BY <1>1, RowFacts DEF Saved
    <2>2. /\ Latest.seq <= s.seq /\ Latest.run <= s.run
          /\ Latest.status = "completed" => s.status = "completed"
          /\ Latest.status = "paused" =>
                \/ s.status = "paused" /\ s.seq = Latest.seq
                \/ s.seq = Latest.seq + 1 /\ s.status \in {"running", "failed", "stale", "rejected"}
          /\ Latest.status \in {"stale", "rejected"} => s.status = Latest.status
        BY <2>1, FollowsFacts
    <2> DEFINE t == rows[i]
    <2>3. /\ t.seq <= Latest.seq /\ t.run <= Latest.run
          /\ t.status = "completed" => Latest.status = "completed"
          /\ t.status = "paused" =>
                \/ Latest.status = "paused" /\ Latest.seq = t.seq
                \/ Latest.status \in {"stale", "rejected"}
                \/ \E j \in DOMAIN rows : rows[j].seq = t.seq + 1
                                          /\ rows[j].status \in {"running", "failed"}
        BY DEF Single, Linear, Latest
    <2>4. t.seq \in Nat /\ t.run \in Nat /\ Latest.seq \in Nat /\ Latest.run \in Nat
        BY <2>1, StateFacts DEF Runs
    <2> HIDE DEF t
    <2>5. t.seq <= s.seq /\ t.run <= s.run
        BY <1>2, <2>2, <2>3, <2>4
    <2>6. ASSUME t.status = "paused"
          PROVE  \/ s.status = "paused" /\ s.seq = t.seq
                 \/ s.status \in {"stale", "rejected"}
                 \/ \E j \in DOMAIN rows' : rows'[j].seq = t.seq + 1
                                            /\ rows'[j].status \in {"running", "failed"}
        <3>1. CASE Latest.status = "paused" /\ Latest.seq = t.seq
            <4>1. CASE s.status \in {"running", "failed"} /\ s.seq = t.seq + 1
                BY <4>1, <1>1
            <4> QED BY <3>1, <4>1, <2>2
        <3>2. CASE Latest.status \in {"stale", "rejected"}
            BY <3>2, <2>2
        <3>3. CASE \E j \in DOMAIN rows : rows[j].seq = t.seq + 1
                                          /\ rows[j].status \in {"running", "failed"}
            <4>1. PICK j \in DOMAIN rows : rows[j].seq = t.seq + 1
                                           /\ rows[j].status \in {"running", "failed"}
                BY <3>3
            <4>2. j \in DOMAIN rows' /\ rows'[j] = rows[j]
                BY <1>1
            <4> QED BY <4>1, <4>2
        <3> QED BY <2>3, <2>6, <3>1, <3>2, <3>3
    <2>7. t.status = "completed" => s.status = "completed"
        BY <2>2, <2>3
    <2>8. Fits(t)
        BY <2>5, <2>6, <2>7
    <2> QED BY <2>8 DEF t
<1>4. Fits(s)
    BY <1>2
<1>5. \A i \in DOMAIN rows' : Fits(rows'[i])
    <2> HIDE DEF Fits
    <2> QED BY <1>1, <1>3, <1>4
<1> QED BY <1>1, <1>5 DEF Linear, Latest

LEMMA SavePublished ==
    ASSUME Safe, Single, NEW c \in Clients, Save(c)
    PROVE  (PublishedByRows /\ PublishedAsChecked /\ AnsweredBeforePublished)'
<1> PICK s \in States : s = State(c)
    BY SavedFollows
<1>1. /\ Saved' /\ Latest' = s
      /\ DOMAIN rows' = DOMAIN rows \cup {Len(rows) + 1}
      /\ rows'[Len(rows) + 1] = s /\ \A i \in DOMAIN rows : rows'[i] = rows[i]
      /\ published' = published /\ raced' = raced
    BY SavedFollows
<1>2. /\ IF Saved THEN Follows(s, Latest) ELSE s.run = 1 /\ s.status = "running"
      /\ s.status \in {"running", "paused"} => published[s.run] = NotPublished
      /\ s.status = "completed" => published[s.run] = s.src \/ s.run \in raced
    BY SavedFollows
<1>3. s.run \in Nat /\ s.run \in Runs
    BY StateFacts DEF Runs
<1>4. ASSUME NEW r \in Runs, published[r] # NotPublished
      PROVE  r <= s.run
    <2>1. Saved /\ r <= Latest.run
        BY <1>4 DEF Single, PublishedByRows, Latest
    <2>2. Latest \in States /\ Latest.run <= s.run
        BY <2>1, <1>2, RowFacts, FollowsFacts
    <2>3. Latest.run \in Nat /\ r \in Nat
        BY <2>2, StateFacts DEF Runs
    <2> QED BY <1>3, <2>1, <2>2, <2>3
<1>5. PublishedByRows'
    BY <1>1, <1>2, <1>4 DEF PublishedByRows, Latest
<1>6. PublishedAsChecked'
    <2>1. \A i \in DOMAIN rows : rows[i].status = "completed" =>
             published[rows[i].run] = rows[i].src \/ rows[i].run \in raced
        BY DEF Single, PublishedAsChecked
    <2>2. SUFFICES ASSUME NEW i \in DOMAIN rows', rows'[i].status = "completed"
                   PROVE  published[rows'[i].run] = rows'[i].src \/ rows'[i].run \in raced
        BY <1>1 DEF PublishedAsChecked
    <2>3. CASE i \in DOMAIN rows
        BY <2>1, <2>2, <2>3, <1>1
    <2>4. CASE i = Len(rows) + 1
        BY <2>2, <2>4, <1>1, <1>2
    <2> QED BY <2>3, <2>4, <1>1
<1>7. AnsweredBeforePublished'
    <2>1. SUFFICES ASSUME NEW i \in DOMAIN rows', NEW r \in Runs, rows'[i].status = "paused",
                          r >= rows'[i].run, published[r] # NotPublished
                   PROVE  \E j \in DOMAIN rows' : rows'[j].seq = rows'[i].seq + 1
                                                  /\ rows'[j].status \in {"running", "failed"}
        BY <1>1 DEF AnsweredBeforePublished
    <2>2. CASE i \in DOMAIN rows
        <3>1. PICK j \in DOMAIN rows : rows[j].seq = rows[i].seq + 1
                                       /\ rows[j].status \in {"running", "failed"}
            <4>1. rows'[i] = rows[i]
                BY <2>2, <1>1
            <4> QED BY <2>1, <2>2, <4>1 DEF Single, AnsweredBeforePublished
        <3>2. j \in DOMAIN rows' /\ rows'[j] = rows[j] /\ rows'[i] = rows[i]
            BY <2>2, <1>1
        <3> QED BY <3>1, <3>2
    <2>3. CASE i = Len(rows) + 1
        <3>1. s.status = "paused" /\ r >= s.run
            BY <2>1, <2>3, <1>1
        <3>2. r <= s.run /\ r \in Nat
            BY <2>1, <1>4 DEF Runs
        <3>3. r = s.run
            BY <3>1, <3>2, <1>3
        <3> QED BY <3>1, <3>3, <1>2, <2>1
    <2> QED BY <2>2, <2>3, <1>1
<1> QED BY <1>5, <1>6, <1>7

LEMMA SaveInHand ==
    ASSUME Safe, Single, NEW c \in Clients, Save(c)
    PROVE  ~At(c, "idle")' => InHand(c)'
<1> PICK s \in States : s = State(c)
    BY SavedFollows
<1>1. /\ Saved' /\ Latest' = s /\ published' = published /\ raced' = raced
      /\ s.status \in {"running", "paused"} => published[s.run] = NotPublished
      /\ s.status = "completed" => published[s.run] = s.src \/ s.run \in raced
    BY SavedFollows
<1>2. Onward(c, s)
    BY SaveFacts
<1>3. CASE client'[c] = Idle
    BY <1>3 DEF At, Idle
<1>4. CASE client'[c] = [at |-> "loop", state |-> s] /\ s.status = "running"
    <2>1. client'[c].at = "loop" /\ client'[c].state = s
        BY <1>4
    <2>2. At(c, "loop")' /\ ~At(c, "serve")' /\ ~At(c, "save")' /\ State(c)' = s
        BY <2>1 DEF At, State
    <2> QED BY <1>1, <1>4, <2>2 DEF InHand, Latest
<1>5. ASSUME NEW t, /\ client'[c] = [at |-> "save", state |-> t, node |-> "none", next |-> "settle"]
                    /\ t.run = s.run /\ t.seq = s.seq /\ t.status = s.status /\ t.src = s.src
      PROVE  InHand(c)'
    <2>1. Follows(t, s)
        BY <1>5 DEF Follows
    <2> QED BY <1>1, <1>5, <2>1, SavingInHand
<1>6. ASSUME NEW t, NEW node,
             /\ client'[c] = [at |-> "save", state |-> t, node |-> node, next |-> "attempt"]
             /\ t.run = s.run /\ t.seq = s.seq + 1 /\ s.status = "running" /\ t.status = "paused"
      PROVE  InHand(c)'
    <2>1. Follows(t, s)
        BY <1>6 DEF Follows
    <2> QED BY <1>1, <1>6, <2>1, SavingInHand
<1> QED BY <1>2, <1>3, <1>4, <1>5, <1>6 DEF Onward

LEMMA EmitCheckedInHand ==
    ASSUME Safe, Single, NEW c \in Clients, EmitChecked(c)
    PROVE  InHand(c)'
<1>1. /\ At(c, "loop") /\ Unchanged(State(c))
      /\ client'[c] = [at |-> "serve", state |-> State(c)]
      /\ UNCHANGED <<rows, published, lost, sources>>
    BY EmitCheckedSafe
<1>2. /\ Saved /\ State(c) = Latest /\ Latest.status = "running"
      /\ published[Latest.run] = NotPublished
    BY <1>1, InHandFacts
<1>3. client'[c].at = "serve" /\ client'[c].state = State(c)
    BY <1>1
<1>4. At(c, "serve")' /\ ~At(c, "save")' /\ State(c)' = State(c)
    BY <1>3 DEF At, State
<1>5. Saved' /\ rows' = rows /\ published' = published /\ index' = index /\ index = Latest.src
    BY <1>1, <1>2 DEF sources, Saved, Unchanged
<1> QED BY <1>2, <1>4, <1>5 DEF InHand, Latest

LEMMA ChangesInHand ==
    ASSUME Safe, Single, Changes, NEW c \in Clients, ~At(c, "idle")'
    PROVE  InHand(c)'
<1>1. /\ raced' = raced \cup Reading /\ rows' = rows /\ published' = published
      /\ client' = client
    BY DEF Changes
<1>2. /\ \A place : At(c, place)' = At(c, place)
      /\ State(c)' = State(c) /\ Saved' = Saved /\ raced \subseteq raced'
    BY <1>1 DEF At, State, Saved
<1>3. InHand(c)
    BY <1>2 DEF Single
<1>4. At(c, "serve") => State(c).run \in raced'
    BY <1>1 DEF Reading, State
<1> QED BY <1>1, <1>2, <1>3, <1>4 DEF InHand

LEMMA SingleStep ==
    ASSUME OneCommand, Safe, Single, [Next]_vars
    PROVE  Single'
<1> DEFINE Rest == Linear /\ PublishedByRows /\ PublishedAsChecked /\ AnsweredBeforePublished
<1>1. ASSUME NEW c \in Clients, ~At(c, "idle")' => InHand(c)', Rest'
      PROVE  Single'
    <2>1. \A d \in Clients : d = c
        BY DEF OneCommand
    <2> QED BY <1>1, <2>1 DEF Single
<1>2. CASE Changes
    <2>1. UNCHANGED <<rows, published>> /\ raced \subseteq raced'
        BY <1>2 DEF Changes
    <2>2. Rest'
        BY <2>1, RowsStay
    <2> QED BY <1>2, <2>2, ChangesInHand DEF Single
<1>3. ASSUME NEW c \in Clients, Hands(c)
      PROVE  Single'
    <2>1. UNCHANGED <<rows, published>> /\ raced \subseteq raced'
        BY <1>3, HandsKeep DEF sources
    <2>2. Rest'
        BY <2>1, RowsStay
    <2>3. InHand(c)'
        BY <1>3, HandsInHand
    <2> HIDE DEF Rest
    <2> QED BY <1>1, <2>2, <2>3
<1>4. ASSUME NEW c \in Clients, Save(c) PROVE Single'
    <2>1. Rest'
        BY <1>4, SaveLinear, SavePublished
    <2>2. ~At(c, "idle")' => InHand(c)'
        BY <1>4, SaveInHand
    <2> HIDE DEF Rest
    <2> QED BY <1>1, <2>1, <2>2
<1>5. ASSUME NEW c \in Clients, EmitChecked(c) PROVE Single'
    <2>1. UNCHANGED <<rows, published>> /\ raced \subseteq raced'
        BY <1>5, EmitCheckedSafe DEF sources
    <2>2. Rest'
        BY <2>1, RowsStay
    <2>3. InHand(c)'
        BY <1>5, EmitCheckedInHand
    <2> HIDE DEF Rest
    <2> QED BY <1>1, <2>2, <2>3
<1>6. ASSUME NEW c \in Clients, Serve(c) PROVE Single'
    <2>1. InHand(c)' /\ Rest'
        BY <1>6, ServeSingle
    <2> HIDE DEF Rest
    <2> QED BY <1>1, <2>1
<1>7. ASSUME NEW c \in Clients, Lose(c) PROVE Single'
    <2>1. UNCHANGED <<rows, published>> /\ raced \subseteq raced' /\ client'[c] = Idle
        BY <1>7, LoseSafe DEF sources
    <2>2. Rest'
        BY <2>1, RowsStay
    <2>3. At(c, "idle")'
        BY <2>1 DEF At, Idle
    <2> HIDE DEF Rest
    <2> QED BY <1>1, <2>2, <2>3
<1>8. CASE UNCHANGED vars
    <2>1. UNCHANGED <<rows, published>> /\ raced \subseteq raced' /\ client' = client /\ index' = index
        BY <1>8 DEF vars
    <2>2. Rest'
        BY <2>1, RowsStay
    <2>3. ASSUME NEW c \in Clients, ~At(c, "idle")' PROVE InHand(c)'
        <3>1. /\ \A place : At(c, place)' = At(c, place)
              /\ State(c)' = State(c) /\ Saved' = Saved /\ rows' = rows /\ raced' = raced
              /\ published' = published
            BY <1>8 DEF vars, At, State, Saved
        <3>2. InHand(c)
            BY <2>3, <3>1 DEF Single
        <3>3. client' = client /\ index' = index
            BY <2>1
        <3> QED BY <3>1, <3>2, <3>3 DEF InHand
    <2> QED BY <2>2, <2>3 DEF Single
<1> QED BY <1>2, <1>3, <1>4, <1>5, <1>6, <1>7, <1>8, NextIs

LEMMA SingleInit ==
    ASSUME Init
    PROVE  Single
<1>1. /\ rows = <<>> /\ published = [r \in Runs |-> NotPublished]
      /\ client = [c \in Clients |-> Idle]
    BY DEF Init
<1>2. \A c \in Clients : At(c, "idle")
    BY <1>1 DEF At, Idle
<1>3. DOMAIN rows = {} /\ ~Saved
    BY <1>1 DEF Saved
<1>4. Linear /\ PublishedAsChecked /\ AnsweredBeforePublished
    BY <1>3 DEF Linear, PublishedAsChecked, AnsweredBeforePublished
<1>5. PublishedByRows
    BY <1>1, <1>3 DEF PublishedByRows
<1> QED BY <1>2, <1>4, <1>5 DEF Single

-----------------------------------------------------------------------------
(* The theorems.                                                           *)

LEMMA IInvIs == IInv <=> Safe /\ (OneCommand => Single)
    BY SafeIs DEF IInv, Single

\* The inductive invariant holds, for any number of clients in its first part
\* and for one in its second.
THEOREM InvariantHolds == Spec => []IInv
<1>1. Init => IInv
    BY IInvIs, SafeInit, SingleInit
<1>2. IInv /\ [Next]_vars => IInv'
    <2> SUFFICES ASSUME IInv, [Next]_vars PROVE IInv'
        OBVIOUS
    <2>1. Safe /\ (OneCommand => Single)
        BY IInvIs
    <2>2. Safe'
        BY <2>1, SafeStep
    <2>3. OneCommand => Single'
        BY <2>1, SingleStep
    <2>4. OneCommand' <=> OneCommand
        BY DEF OneCommand
    <2>5. (TypeOK /\ WithinBudget)'
        BY <2>2, SafeIs, PTL
    <2> QED BY <2>3, <2>4, <2>5 DEF IInv, Single
<1> QED BY <1>1, <1>2, PTL DEF Spec

\* The step budget spans the thread: no checkpoint counts more executed nodes
\* than max_steps, however often the run was resumed, retried or lost, and also
\* when commands overlap (_execute: the step counter of the state and the
\* attempts it carries over; retry keeps both).
THEOREM BudgetSpansThread == Spec => []StepBudget
<1>1. IInv => StepBudget
    <2> SUFFICES ASSUME IInv, NEW i \in DOMAIN rows PROVE Executed(rows[i]) <= rows[i].max
        BY DEF StepBudget
    <2>1. Safe
        BY IInvIs
    <2>2. rows[i] \in States /\ Within(rows[i], 0)
        BY <2>1 DEF Safe
    <2> QED BY <2>2, WithinFacts
<1> QED BY <1>1, InvariantHolds, PTL

\* One command at a time: a completed run has a result that was built from the
\* index its checkpoint names, unless the sources moved while the service read
\* them (_node_emit_result).
THEOREM ResultsAreAsChecked ==
    ASSUME OneCommand PROVE Spec => []PublishedAsChecked
<1>1. IInv => PublishedAsChecked
    BY DEF IInv
<1> QED BY <1>1, InvariantHolds, PTL

\* One command at a time: nothing is published past an interrupt that was not
\* answered "resume" (resume, retry).
THEOREM InterruptsAreAnswered ==
    ASSUME OneCommand PROVE Spec => []AnsweredBeforePublished
<1>1. IInv => AnsweredBeforePublished
    BY DEF IInv
<1> QED BY <1>1, InvariantHolds, PTL

\* One command at a time: a result is written once, a retry writes under a run
\* id of its own (retry: max(run_id) + 1).
THEOREM ResultsAreKept ==
    ASSUME OneCommand PROVE Spec => ResultsKept
<1> DEFINE Kept == \A r \in Runs : published[r] # NotPublished => published'[r] = published[r]
<1>1. IInv /\ [Next]_vars => [Kept]_vars
    <2> SUFFICES ASSUME IInv, [Next]_vars PROVE Kept
        OBVIOUS
    <2>1. Safe /\ Single
        BY IInvIs
    <2>2. CASE UNCHANGED published
        BY <2>2
    <2>3. ASSUME NEW c \in Clients, Serve(c) PROVE Kept
        BY <2>1, <2>3, ServeSingle
    <2>4. CASE Changes
        BY <2>2, <2>4 DEF Changes
    <2>5. ASSUME NEW c \in Clients, Hands(c) PROVE Kept
        BY <2>2, <2>5, HandsKeep
    <2>6. ASSUME NEW c \in Clients, Save(c) PROVE Kept
        BY <2>2, <2>6 DEF Save
    <2>7. ASSUME NEW c \in Clients, EmitChecked(c) PROVE Kept
        BY <2>2, <2>7 DEF EmitChecked
    <2>8. ASSUME NEW c \in Clients, Lose(c) PROVE Kept
        BY <2>2, <2>8 DEF Lose
    <2>9. CASE UNCHANGED vars
        BY <2>2, <2>9 DEF vars
    <2> QED BY <2>3, <2>4, <2>5, <2>6, <2>7, <2>8, <2>9, NextIs
<1> QED BY <1>1, InvariantHolds, PTL DEF Spec, ResultsKept

=============================================================================
