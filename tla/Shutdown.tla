------------------------------- MODULE Shutdown -------------------------------
(***************************************************************************)
(* The background work of the product application and how it is shut down:  *)
(* BackgroundTasks (ui/lifecycle.py), its owners (ui/server.py,              *)
(* ui/investigation.py, ui/backend.py, ui/task_provider.py) and              *)
(* ProductApplication.close (ui/product.py).                                 *)
(*                                                                         *)
(* Each kind of work has a BackgroundTasks group of its own; one task of     *)
(* each kind runs at a time.  The module gives the steps; what an import and *)
(* its ingestion do, and the specification, is SourceIngestion.              *)
(***************************************************************************)
EXTENDS Naturals, Sequences

CONSTANTS
    Closers,   \* threads that call close
    None       \* nobody

\* Work is admitted by work already admitted, the requests of clients aside:
\* a client's request imports a source or starts an investigation, an import
\* leaves an ingestion behind, an investigation a run, whose provider calls
\* send from a thread of their own that may outlive them.
Tasks == {"http", "import", "ingest", "start", "run", "send"}
Caller == [import |-> "http", start |-> "http", ingest |-> "import",
           run |-> "start", send |-> "run"]
\* Operations run in their caller's thread (so do a run's calls).
Operations == {"import", "start"}

ASSUME ShutdownAssumption == None \notin Tasks \cup Closers

VARIABLES
    accepting,  \* the groups that admit work
    live,       \* the tasks admitted and not finished
    lock,       \* who holds the store lock
    closer,     \* each closer: the stage of close it is at, 0 outside
    entered,    \* the closer that holds the close lock
    closing, closed

shutdownVars == <<accepting, live, lock, closer, entered, closing, closed>>

-----------------------------------------------------------------------------
(* Admission.                                                              *)

\* The caller's thread is free to ask for t.
Called(t) ==
    t # "http" =>
        /\ Caller[t] \in live
        /\ t \in Operations => \A o \in Operations \cap live : Caller[o] # Caller[t]

\* Refused otherwise (BackgroundWorkStopped), which changes nothing.
Admit(t) ==
    /\ Called(t) /\ t \notin live /\ t \in accepting
    /\ live' = live \cup {t}
    /\ UNCHANGED <<accepting, lock, closer, entered, closing, closed>>

\* A caller may give up waiting for a sender, not for its own thread.
Finish(t) ==
    /\ t \in live /\ \A o \in Operations \cap live : Caller[o] # t
    /\ live' = live \ {t}
    /\ UNCHANGED <<accepting, lock, closer, entered, closing, closed>>

-----------------------------------------------------------------------------
(* ProductApplication.close                                                *)

Stop(t) == [do |-> "stop", of |-> t]
Wait(t) == [do |-> "wait", of |-> t]
Enter == [do |-> "enter", of |-> None]
CloseStores == [do |-> "close", of |-> None]

\* Mutants of Close: ingestion stops before the admitted imports have enqueued
\* theirs; a provider session is dropped with its run.
CloseEarly ==
    <<Stop("import"), Stop("start"), Stop("http"), Enter,
      Stop("ingest"), Wait("import"), Wait("ingest"),
      Wait("start"), Stop("run"), Wait("run"),
      Stop("send"), Wait("send"),
      Wait("http"), CloseStores>>
CloseWithoutSenders ==
    <<Stop("import"), Stop("start"), Stop("http"), Enter,
      Wait("import"), Stop("ingest"), Wait("ingest"),
      Wait("start"), Stop("run"), Wait("run"),
      Wait("http"), CloseStores>>
\* The owners close in the order they registered: the investigation service,
\* with its runs and then their provider sessions, and the server.
Close ==
    <<Stop("import"), Stop("start"), Stop("http"), Enter,
      Wait("import"), Stop("ingest"), Wait("ingest"),
      Wait("start"), Stop("run"), Wait("run"),
      Stop("send"), Wait("send"),
      Wait("http"), CloseStores>>

At(c, what) == closer[c] # 0 /\ Close[closer[c]].do = what
Of(c) == Close[closer[c]].of
Advance(c) == closer' = [closer EXCEPT ![c] = @ + 1]

\* Nobody calls close again once it has succeeded.
Begin(c) ==
    /\ closer[c] = 0 /\ ~closed
    /\ Advance(c) /\ closing' = TRUE
    /\ UNCHANGED <<accepting, live, lock, entered, closed>>

StopAccepting(c) ==
    /\ At(c, "stop") /\ accepting' = accepting \ {Of(c)}
    /\ Advance(c)
    /\ UNCHANGED <<live, lock, entered, closing, closed>>

\* A second close of a closed application returns at once.
EnterClose(c) ==
    /\ At(c, "enter") /\ entered = None
    /\ IF closed THEN closer' = [closer EXCEPT ![c] = 0] /\ UNCHANGED entered
                 ELSE Advance(c) /\ entered' = c
    /\ UNCHANGED <<accepting, live, lock, closing, closed>>

WaitFor(c) ==
    /\ At(c, "wait") /\ Of(c) \notin live
    /\ Advance(c)
    /\ UNCHANGED <<accepting, live, lock, entered, closing, closed>>

CloseStore(c) ==
    /\ At(c, "close") /\ lock = None
    /\ closed' = TRUE /\ entered' = None
    /\ closer' = [closer EXCEPT ![c] = 0]
    /\ UNCHANGED <<accepting, live, lock, closing>>

\* BackgroundShutdownTimeout: the deadline passes while the closer waits.
Waits(c) ==
    \/ At(c, "enter") /\ entered # None
    \/ At(c, "wait") /\ Of(c) \in live
    \/ At(c, "close") /\ lock # None
\* Mutant of TimesOut: the close lock is kept.
TimesOutLocked(c) ==
    /\ Waits(c)
    /\ closer' = [closer EXCEPT ![c] = 0]
    /\ UNCHANGED <<accepting, live, lock, entered, closing, closed>>
TimesOut(c) ==
    /\ Waits(c)
    /\ closer' = [closer EXCEPT ![c] = 0]
    /\ entered' = IF entered = c THEN None ELSE entered
    /\ UNCHANGED <<accepting, live, lock, closing, closed>>

Closing(c) == Begin(c) \/ StopAccepting(c) \/ EnterClose(c) \/ WaitFor(c) \/ CloseStore(c)

-----------------------------------------------------------------------------

ShutdownInit ==
    /\ accepting = Tasks /\ live = {} /\ lock = None
    /\ closer = [c \in Closers |-> 0] /\ entered = None
    /\ closing = FALSE /\ closed = FALSE

\* The process ends, its daemon threads with it, and is started again.
Renewed ==
    /\ accepting' = Tasks /\ live' = {} /\ lock' = None
    /\ closer' = [c \in Closers |-> 0] /\ entered' = None
    /\ closing' = FALSE /\ closed' = FALSE

ShutdownTypeOK ==
    /\ accepting \subseteq Tasks /\ live \subseteq Tasks
    /\ lock \in Tasks \cup {None} /\ entered \in Closers \cup {None}
    /\ closer \in [Closers -> 0..Len(Close)]
    /\ closing \in BOOLEAN /\ closed \in BOOLEAN

\* The stores are closed under nobody: no admitted request, ingestion, run or
\* provider transport is alive when close has closed them, whatever timed out
\* and was tried again before (product.py: close).
ClosedIsQuiet == closed => live = {}

\* What was admitted may finish what it began: shutting down refuses requests,
\* imports and investigations, never the ingestion of an import that was
\* admitted, the run of a started investigation or a call of a running one
\* (product.py: "Admitted imports may still enqueue ingestion").
FollowedThrough ==
    \A t \in Tasks \ {"http", "import", "start"} : Caller[t] \in live => t \in accepting

\* A close that is tried again after timeouts ends.
CloseEnds == closing ~> closed \/ ~closing

-----------------------------------------------------------------------------
(* What makes ClosedIsQuiet and FollowedThrough inductive.                  *)

\* What a closer has passed is so, whatever other closers do: a group it has
\* stopped admits nothing any more, one it has waited for is empty for good,
\* and past the close lock it holds it.
PassedIsDone ==
    \A c \in Closers : \A k \in 1..(closer[c] - 1) :
        /\ Close[k].do \in {"stop", "wait"} => Close[k].of \notin accepting
        /\ Close[k].do = "wait" => Close[k].of \notin live
        /\ Close[k].do = "enter" => entered = c

\* Also after the closer that stopped it timed out: a group that others hand
\* over to is stopped only when these are stopped and empty.
CallersFirst ==
    \A t \in Tasks \ {"http", "import", "start"} :
        t \notin accepting => Caller[t] \notin accepting \cup live

ShutdownInv ==
    /\ ShutdownTypeOK /\ PassedIsDone /\ CallersFirst
    /\ closed => accepting = {} /\ live = {}
=============================================================================
