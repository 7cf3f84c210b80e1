---- MODULE FeedbackMemory ----
(* The confirmed terminology of a workspace (ui/feedback_memory.py) and the  *)
(* append-only event log it is replayed from before every use                *)
(* (memory/store.py).  One process writes the log; it may die in a write.    *)
EXTENDS Integers, Sequences, FiniteSets, SequencesExt

CONSTANTS
    Candidates,   \* the entries clients propose
    Term,         \* the term each of them maps
    Limit,        \* the entries a workspace may have active or pending: 50
    MaxEvents,    \* bound: events written to the log
    MaxTears      \* bound: writes that did not end

VARIABLES
    log,     \* the lines of the file, each the pieces written on it
    ended,   \* whether the last line has its newline
    acked,   \* the events whose append returned
    used     \* the events written and the tears among them

vars == <<log, ended, acked, used>>

Init == log = <<>> /\ ended = TRUE /\ acked = {} /\ used = [events |-> 0, tears |-> 0]

-----------------------------------------------------------------------------
(* Replay *)

\* A line is an event when it holds one whole piece of JSON and nothing else.
Parses(line) == Len(line) = 1 /\ line[1].whole

\* A line that does not parse is passed over at the end and fails the reload before it.
Corrupt == \E i \in 1 .. Len(log) - 1 : ~Parses(log[i])
Reloaded ==
    LET lines == SelectSeq(log, Parses) IN [i \in 1 .. Len(lines) |-> lines[i][1].event]

Nothing == [status |-> [c \in Candidates |-> "absent"], items |-> {}]

\* Events about entries that are not in the right state are passed over.
Apply(memory, event) ==
    CASE event.kind = "created" -> [memory EXCEPT !.status[event.on] = "pending"]
      [] event.kind = "confirmed" /\ memory.status[event.on] = "pending" ->
            [status |-> [memory.status EXCEPT ![event.on] = "superseded"],
             items |-> memory.items \union
                {[id |-> event.id, candidate |-> event.on, status |-> "active"]}]
      [] event.kind = "rejected" /\ memory.status[event.on] = "pending" ->
            [memory EXCEPT !.status[event.on] = "rejected"]
      [] event.kind \in {"revoked", "expired"} ->
            [memory EXCEPT !.items = {IF item.id = event.on /\ item.status = "active"
                                      THEN [item EXCEPT !.status = event.kind] ELSE item : item \in @}]
      [] OTHER -> memory

Memory == FoldLeft(Apply, Nothing, Reloaded)
Active == {item \in Memory.items : item.status = "active"}
Pending == {c \in Candidates : Memory.status[c] = "pending"}

-----------------------------------------------------------------------------
(* Appends *)

Written(piece) == IF ended THEN Append(log, <<piece>>) ELSE
    [log EXCEPT ![Len(log)] = Append(@, piece)]

\* The text of the event and its newline go to the end of the file, whatever it
\* ends with.  The write returns, or ends somewhere in the text, between two of its
\* characters, or before the newline.
AppendEvent(kind, on) ==
    LET event == [id |-> used.events, kind |-> kind, on |-> on] IN
    /\ used.events < MaxEvents
    /\ \/ /\ log' = Written([event |-> event, whole |-> TRUE]) /\ ended' = TRUE
          /\ acked' = acked \union {event}
          /\ used' = [used EXCEPT !.events = @ + 1]
       \/ /\ used.tears < MaxTears
          /\ \E whole \in BOOLEAN, newline \in BOOLEAN :
                /\ newline => whole
                /\ log' = Written([event |-> event, whole |-> whole]) /\ ended' = newline
          /\ acked' = acked
          /\ used' = [events |-> used.events + 1, tears |-> used.tears + 1]

\* Every action replays the log first, and is refused when that fails.
Propose(c) ==
    /\ ~Corrupt /\ Memory.status[c] = "absent"
    /\ Cardinality(Pending) + Cardinality(Active) < Limit
    /\ AppendEvent("created", c)
Approve(c) ==
    /\ ~Corrupt /\ c \in Pending
    /\ \A item \in Active : Term[item.candidate] # Term[c]
    /\ AppendEvent("confirmed", c)
Reject(c) == ~Corrupt /\ c \in Pending /\ AppendEvent("rejected", c)
Revoke(item) == ~Corrupt /\ item \in Active /\ AppendEvent("revoked", item.id)
Expire(item) == ~Corrupt /\ item \in Active /\ AppendEvent("expired", item.id)

Next ==
    \/ \E c \in Candidates : Propose(c) \/ Approve(c) \/ Reject(c)
    \/ \E item \in Active : Revoke(item) \/ Expire(item)
Spec == Init /\ [][Next]_vars

-----------------------------------------------------------------------------
(* Properties *)

\* What the comment in MemoryStore.reload promises of a torn final append, that it
\* is safely ignored and repaired by the next append: the log replays, and every
\* event whose append returned is among those replayed.
TornTailRepaired == ~Corrupt /\ acked \subseteq ToSet(Reloaded)

====
