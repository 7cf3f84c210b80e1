-------------------------- MODULE RerankBudgetProofs --------------------------
(***************************************************************************)
(* Theorems of RerankBudget, for every set of requests, price and budget.  *)
(*                                                                         *)
(* The argument is IInv: what is reserved is one Amount for each request in *)
(* holding, holding loses a request only when its thread cannot have sent  *)
(* it or its charge is in cost, so every chargeable request is covered.    *)
(***************************************************************************)
EXTENDS RerankBudget, FiniteSetTheorems, TLAPS

\* Sets of requests are finite.
LEMMA Finite ==
    ASSUME NEW S \in SUBSET Requests
    PROVE  IsFiniteSet(S) /\ Cardinality(S) \in Nat
  BY FS_Subset, FS_CardinalityType, RerankAssumption

\* A multiple of the price is monotone in the number of requests.
LEMMA Monotone ==
    ASSUME NEW a \in Nat, NEW m \in Nat, NEW n \in Nat, m <= n
    PROVE  a * m \in Nat /\ a * m <= a * n
  <1>1. PICK d \in Nat : n = m + d
    <2>1. n - m \in Nat /\ n = m + (n - m)
      OBVIOUS
    <2> QED BY <2>1
  <1>2. a * n = a * m + a * d
    BY <1>1
  <1>3. a * d \in Nat /\ a * m \in Nat
    OBVIOUS
  <1> QED BY <1>2, <1>3

\* One more, or one fewer, request in holding is one Amount more or less.
LEMMA OneMore ==
    ASSUME NEW S \in SUBSET Requests, NEW r \in Requests, r \notin S
    PROVE  Amount * Cardinality(S \cup {r}) = Amount * Cardinality(S) + Amount
  <1>1. Cardinality(S \cup {r}) = Cardinality(S) + 1
    BY Finite, FS_AddElement
  <1>2. Cardinality(S) \in Nat /\ Amount \in Nat
    BY Finite, RerankAssumption
  <1>3. \A c \in Nat, a \in Nat : a * (c + 1) = a * c + a
    OBVIOUS
  <1> QED BY <1>1, <1>2, <1>3

LEMMA OneFewer ==
    ASSUME NEW S \in SUBSET Requests, NEW r \in S
    PROVE  Amount * Cardinality(S \ {r}) = Amount * Cardinality(S) - Amount
  <1>1. S \ {r} \in SUBSET Requests /\ r \in Requests /\ r \notin S \ {r}
        /\ S = (S \ {r}) \cup {r}
    OBVIOUS
  <1>2. Amount * Cardinality(S) = Amount * Cardinality(S \ {r}) + Amount
    BY <1>1, OneMore
  <1>3. Cardinality(S \ {r}) \in Nat /\ Amount \in Nat
    BY <1>1, Finite, RerankAssumption
  <1>4. Amount * Cardinality(S \ {r}) \in Nat
    <2>1. \A a \in Nat, c \in Nat : a * c \in Nat
      OBVIOUS
    <2> QED BY <2>1, <1>3
  <1> QED BY <1>2, <1>3, <1>4

\* The parts of IInv that are about the positions of callers and threads.
Placed == SingleFlight /\ Reserved /\ Threaded /\ Covered

LEMMA Initially == Init => IInv
  <1> SUFFICES ASSUME Init PROVE IInv
    OBVIOUS
  <1>1. /\ \A r \in Requests : caller[r] = "idle" /\ sender[r] = "none" /\ result[r] = None
        /\ started = {} /\ holding = {} /\ settled = {}
    BY DEF Init
  <1>2. TypeOK
    <2>1. caller \in [Requests -> {"idle", "reserved", "waiting", "late", "done"}]
      BY DEF Init
    <2>2. sender \in [Requests -> {"none", "ready", "checked", "sent", "failed", "answered", "ended"}]
      BY DEF Init
    <2>3. result \in [Requests -> {None, "ok", "error"}]
      BY DEF Init
    <2>4. cost \in Nat /\ reserved \in Int
      BY DEF Init
    <2>5. /\ uncertain \in BOOLEAN
          /\ latest \in Requests \cup {None} /\ cancelled \subseteq Requests
      BY Zenon DEF Init
    <2> QED BY <1>1, <2>1, <2>2, <2>3, <2>4, <2>5 DEF TypeOK
  <1>3. SingleFlight /\ Reserved
    BY <1>1 DEF SingleFlight, Flying, Reserved
  <1>4. Threaded
    BY <1>1, RerankAssumption DEF Threaded
  <1>5. Covered
    BY <1>1 DEF Covered, Chargeable
  <1>6. Accounted
    <2>1. Cardinality(holding) = 0
      BY FS_EmptySet DEF Init
    <2> QED BY <2>1, RerankAssumption DEF Init, Accounted
  <1> QED BY <1>2, <1>3, <1>4, <1>5, <1>6 DEF IInv

\* What giving a reservation back does to the accounts.
LEMMA Releasing ==
    ASSUME TypeOK, Accounted, NEW r \in holding,
           reserved' = reserved - Amount, holding' = holding \ {r},
           NEW u \in 0..Amount, cost' = cost + u
    PROVE  Accounted' /\ cost' \in Nat /\ reserved' \in Int
  <1>1. Amount * Cardinality(holding \ {r}) = Amount * Cardinality(holding) - Amount
    BY OneFewer DEF TypeOK
  <1> QED BY <1>1, RerankAssumption DEF TypeOK, Accounted

LEMMA Inductive == IInv /\ [Next]_vars => IInv'
  <1> SUFFICES ASSUME IInv, [Next]_vars PROVE IInv'
    OBVIOUS
  <1> USE RerankAssumption
  <1>p. TypeOK /\ Accounted /\ Placed
    BY DEF IInv, Placed
  <1>q. ASSUME TypeOK', Accounted', Placed' PROVE IInv'
    BY <1>q DEF IInv, Placed
  <1> DEFINE Parts == TypeOK' /\ Accounted' /\ Placed'
  <1>1. ASSUME NEW r \in Requests, Reserve(r) PROVE Parts
    <2>1. Accounted'
      <3>1. r \notin holding
        BY <1>1, <1>p DEF Reserve, Placed, Reserved, TypeOK
      <3>2. Amount * Cardinality(holding \cup {r}) = Amount * Cardinality(holding) + Amount
        BY <3>1, <1>p, OneMore DEF TypeOK
      <3> QED BY <3>2, <1>1, <1>p DEF Reserve, Affordable, Accounted, TypeOK
    <2>2. TypeOK'
      BY <1>1, <1>p DEF Reserve, TypeOK
    <2>3. Placed'
      BY <1>1, <1>p DEF Reserve, TypeOK, Placed, SingleFlight, Flying, Reserved, Threaded, Covered, Chargeable
    <2> QED BY <2>1, <2>2, <2>3
  <1>2. ASSUME NEW r \in Requests, TurnAway(r) PROVE Parts
    <2>1. Accounted' /\ reserved' \in Int
      <3>1. r \in holding
        BY <1>2, <1>p DEF TurnAway, Placed, Reserved, TypeOK
      <3> QED BY <3>1, <1>2, <1>p, Releasing, 0 \in 0..Amount, cost + 0 = cost DEF TurnAway, Release, TypeOK
    <2>2. TypeOK'
      BY <2>1, <1>2, <1>p DEF TurnAway, Release, TypeOK
    <2>3. Placed'
      BY <1>2, <1>p DEF TurnAway, Release, TypeOK, Placed, SingleFlight, Flying, Reserved, Threaded, Covered, Chargeable
    <2> QED BY <2>1, <2>2, <2>3
  <1>3. ASSUME NEW r \in Requests, Launch(r) PROVE Parts
    <2>1. TypeOK' /\ Accounted'
      BY <1>3, <1>p DEF Launch, money, TypeOK, Accounted
    <2>2. SingleFlight'
      BY <1>3, <1>p DEF Launch, Busy, TypeOK, Placed, SingleFlight, Flying
    <2>3. (Reserved /\ Threaded /\ Covered)'
      BY <1>3, <1>p DEF Launch, money, TypeOK, Placed, Flying, Reserved, Threaded, Covered, Chargeable
    <2> QED BY <2>1, <2>2, <2>3 DEF Placed
  <1>4. ASSUME NEW r \in Requests, NEW used \in 0..Amount, Settle(r, used) PROVE Parts
    <2>1. Accounted' /\ reserved' \in Int /\ cost' \in Nat
      <3>1. r \in holding
        BY <1>4, <1>p DEF Settle, Placed, Reserved, TypeOK
      <3> QED BY <3>1, <1>4, <1>p, Releasing DEF Settle
    <2>2. TypeOK'
      BY <2>1, <1>4, <1>p DEF Settle, TypeOK
    <2>3. Placed'
      BY <1>4, <1>p DEF Settle, TypeOK, Placed, SingleFlight, Flying, Reserved, Threaded, Covered, Chargeable
    <2> QED BY <2>1, <2>2, <2>3
  <1>5. ASSUME NEW r \in Requests, Unsettled(r) \/ GiveUp(r) PROVE Parts
    <2>1. TypeOK' /\ Accounted'
      BY <1>5, <1>p DEF Unsettled, GiveUp, money, TypeOK, Accounted
    <2>2. Placed'
      BY <1>5, <1>p DEF Unsettled, GiveUp, money, TypeOK, Placed, SingleFlight, Flying, Reserved, Threaded, Covered, Chargeable
    <2> QED BY <2>1, <2>2
  <1>6. ASSUME NEW r \in Requests, Failed(r) PROVE Parts
    <2>1. CASE r \in started
      <3>1. TypeOK' /\ Accounted'
        BY <2>1, <1>6, <1>p DEF Failed, money, TypeOK, Accounted
      <3>2. Placed'
        BY <2>1, <1>6, <1>p DEF Failed, money, TypeOK, Placed, SingleFlight, Flying, Reserved, Threaded, Covered, Chargeable
      <3> QED BY <3>1, <3>2
    <2>2. CASE r \notin started
      <3>1. Accounted' /\ reserved' \in Int
        <4>1. r \in holding
          BY <1>6, <1>p DEF Failed, Placed, Reserved, TypeOK
        <4> QED BY <4>1, <2>2, <1>6, <1>p, Releasing, 0 \in 0..Amount, cost + 0 = cost DEF Failed, Release, TypeOK
      <3>2. TypeOK'
        BY <3>1, <2>2, <1>6, <1>p DEF Failed, Release, TypeOK
      <3>3. Placed'
        BY <2>2, <1>6, <1>p DEF Failed, Release, TypeOK, Placed, SingleFlight, Flying, Reserved, Threaded, Covered, Chargeable
      <3> QED BY <3>1, <3>2, <3>3
    <2> QED BY <2>1, <2>2
  <1>7. ASSUME NEW r \in Requests, TimeOut(r) PROVE Parts
    <2>1. TypeOK' /\ Accounted'
      BY <1>7, <1>p DEF TimeOut, money, TypeOK, Accounted
    <2>2. Placed'
      BY <1>7, <1>p DEF TimeOut, money, TypeOK, Placed, SingleFlight, Flying, Reserved, Threaded, Covered, Chargeable
    <2> QED BY <2>1, <2>2
  <1>8. ASSUME Cancel PROVE Parts
    <2>1. TypeOK' /\ Accounted'
      BY <1>8, <1>p DEF Cancel, money, TypeOK, Accounted
    <2>2. Placed'
      BY <1>8, <1>p DEF Cancel, money, TypeOK, Placed, SingleFlight, Flying, Reserved, Threaded, Covered, Chargeable
    <2> QED BY <2>1, <2>2
  <1>9. ASSUME NEW r \in Requests, Thread(r) PROVE Parts
    <2>1. TypeOK' /\ Accounted'
      BY <1>9, <1>p DEF Thread, Check, Send, Land, Deliver, accounts, money, TypeOK, Accounted
    <2>2. CASE Check(r)
      BY <2>1, <2>2, <1>p DEF Check, accounts, money, TypeOK, Placed, SingleFlight, Flying, Reserved, Threaded, Covered, Chargeable
    <2>3. CASE Send(r)
      BY <2>1, <2>3, <1>p DEF Send, accounts, money, TypeOK, Placed, SingleFlight, Flying, Reserved, Threaded, Covered, Chargeable
    <2>4. CASE Land(r)
      BY <2>1, <2>4, <1>p DEF Land, accounts, money, TypeOK, Placed, SingleFlight, Flying, Reserved, Threaded, Covered, Chargeable
    <2>5. CASE Deliver(r)
      <3>1. PICK x \in {"ok", "error"} :
                /\ result' = [result EXCEPT ![r] = x]
                /\ (x = "ok" => r \in started)
        <4>1. CASE sender[r] = "failed"
          BY <4>1, <2>5 DEF Deliver
        <4>2. CASE sender[r] = "answered"
          BY <4>2, <2>5, <1>p DEF Deliver, TypeOK, Placed, Threaded
        <4> QED BY <4>1, <4>2, <2>5 DEF Deliver
      <3>2. (SingleFlight /\ Reserved /\ Covered)'
        BY <2>5, <1>p DEF Deliver, accounts, money, TypeOK, Placed, SingleFlight, Flying, Reserved, Covered, Chargeable
      <3>3. /\ started' = started /\ sender'[r] = "ended" /\ result'[r] = x
            /\ \A q \in Requests \ {r} : result'[q] = result[q] /\ sender'[q] = sender[q]
        <4>1. sender' = [sender EXCEPT ![r] = "ended"] /\ started' = started
          BY <2>5 DEF Deliver
        <4>2. r \in DOMAIN sender /\ r \in DOMAIN result /\ DOMAIN sender = Requests /\ DOMAIN result = Requests
          BY <1>p DEF TypeOK
        <4> QED BY <3>1, <4>1, <4>2
      <3>4. \A q \in Requests \ {r} :
                /\ sender[q] \in {"none", "ready", "checked", "failed"} => q \notin started
                /\ sender[q] \in {"sent", "answered"} => q \in started
                /\ sender[q] # "ended" <=> result[q] = None
                /\ result[q] = "ok" => q \in started
        BY <1>p DEF Placed, Threaded
      <3>5. Threaded'
        BY <3>1, <3>3, <3>4 DEF Threaded
      <3> QED BY <2>1, <3>2, <3>5 DEF Placed
    <2> QED BY <2>2, <2>3, <2>4, <2>5, <1>9 DEF Thread
  <1>10. CASE UNCHANGED vars
    BY <1>10 DEF vars, IInv, TypeOK, SingleFlight, Flying, Accounted, Reserved, Threaded, Covered, Chargeable
  <1>11. CASE Next
    BY <1>1, <1>2, <1>3, <1>4, <1>5, <1>6, <1>7, <1>8, <1>9, <1>11, <1>q DEF Next, Call
  <1> QED BY <1>10, <1>11

\* The inductive invariant, TypeOK among its parts, holds of every run of the
\* reranker (jev.py: _reserve, _request, _settle, close).
THEOREM InvariantHolds == Spec => []IInv
  BY Initially, Inductive, PTL DEF Spec

\* However many requests are made, late or lost, the budget covers what they
\* can cost (jev.py: _reserve, _request, _settle).
THEOREM BudgetIsSafe == Spec => []BudgetCovers
  <1>1. IInv => BudgetCovers
    <2> SUFFICES ASSUME IInv PROVE BudgetCovers
      OBVIOUS
    <2> DEFINE c == Cardinality(Chargeable)
               h == Cardinality(holding)
    <2>1. holding \in SUBSET Requests /\ Chargeable \in SUBSET holding
      BY DEF IInv, TypeOK, Covered
    <2>2. c \in Nat /\ h \in Nat /\ c <= h
      BY <2>1, Finite, FS_Subset
    <2>3. Amount * c \in Nat /\ Amount * c <= Amount * h
      <3> HIDE DEF c, h
      <3> QED BY <2>2, Monotone, RerankAssumption
    <2>4. cost \in Nat /\ reserved = Amount * h /\ cost + reserved <= Budget
      BY DEF IInv, TypeOK, Accounted
    <2>5. cost + Amount * c <= Budget
      <3> DEFINE ac == Amount * c
                 ah == Amount * h
      <3>1. ac \in Nat /\ ac <= ah /\ reserved = ah /\ reserved \in Int
        BY <2>3, <2>4 DEF IInv, TypeOK
      <3> HIDE DEF ac, ah
      <3>2. cost + ac <= Budget
        BY <3>1, <2>4, RerankAssumption
      <3> QED BY <3>2 DEF ac
    <2> QED BY <2>5 DEF BudgetCovers
  <1> QED BY <1>1, InvariantHolds, PTL

\* At most one request is on its way at any time, whatever became of its
\* caller (jev.py: _request).
THEOREM OneRequestAtATime == Spec => []SingleFlight
  <1>1. IInv => SingleFlight
    BY DEF IInv
  <1> QED BY <1>1, InvariantHolds, PTL
=============================================================================
