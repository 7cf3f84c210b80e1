---- MODULE ProofReview ----
(* The review statements a reviewer posts over one task investigation, and   *)
(* the source proof a CONTINUE captures for them (ui/task_review.py).  Two   *)
(* SQLite files take part: the review journal (statements and audits) and    *)
(* the relation sidecar (assessments, their life, comparisons).  One process *)
(* posts under its product lock; others may write both files in between.     *)
EXTENDS Integers, Sequences, FiniteSets, SequencesExt

CONSTANTS
    None,             \* no post in hand
    NoFile,           \* the sidecar does not exist
    Unreadable,       \* the sidecar is there, its rows cannot be read
    Requests,         \* request ids of this process's clients
    Targets,          \* the steps a client continues from
    Supports,         \* what the assessors may support of a run
    MaxCapabilities,  \* _MAX_REVIEW_CAPABILITIES
    MaxPosts,         \* bound: posts that get past the checks
    MaxEvents,        \* bound: writes by others, and source changes
    MaxFaults,        \* bound: failed reads and writes
    MaxCrashes        \* bound: restarts of the process

\* The relation steps of a run in the order they are captured: two assessments,
\* and the comparison of their dates.
Items == {"identity", "revision", "dates"}
Assessed == {"identity", "revision"}
Order(step) == CASE step = "identity" -> <<"identity">>
                 [] step = "revision" -> <<"identity", "revision">>
                 [] step = "dates" -> <<"identity", "revision", "dates">>
Needs(step) == ToSet(Order(step))

\* The lifecycle events of an item that was put: it starts active.
Events == {"ACTIVE", "STALE", "RETRACTED"}
Histories == [Items -> {<<>>} \cup {h \in Seq(Events) : h # <<>> /\ h[1] = "ACTIVE"}]

\* The sidecar, and what its head says of it.  A file without its tables has
\* the head of one that cannot be read.
Heads == Histories \cup {NoFile, Unreadable}

\* What a request says, and a CONTINUE in hand: a CONTINUE writes from "open" on.
Bodies == [request : Requests, step : Targets, action : {"CONTINUE", "REVIEW"},
           expected : 0 .. MaxPosts + MaxEvents]
Continues == {b \in Bodies : b.action = "CONTINUE"}
Underway == {"open", "capture", "cas", "guard", "locked", "receipt"}
Hands == [pc : Underway \cup {"rebuild", "begin", "block", "blocked", "repair"},
          body : Continues, head : Heads, before : Histories,
          todo : Seq(Items)]

ASSUME ProofReviewAssumption ==
    /\ None \notin Requests \cup Hands
    /\ NoFile \notin Histories \cup {Unreadable} /\ Unreadable \notin Histories
    /\ Targets \subseteq Items /\ \A items \in Supports : items \subseteq Items
    /\ {MaxPosts, MaxEvents, MaxFaults, MaxCrashes} \subseteq Nat
    /\ MaxCapabilities \in Nat \ {0}

VARIABLES
    sidecar,     \* NoFile, Unreadable before it has tables, or every item's events
    statements,  \* the review statements, a revision each
    audits,      \* PENDING, COMMITTED and FAILED marks of the posts
    issued,      \* the live capabilities: what their views were bound to
    remembered,  \* whether this process keeps a projection of the run
    current,     \* whether the sources are those of the run
    run,         \* what the assessors find, and whether a later proof spoils the run
    post,        \* the post in hand
    told,        \* requests a client was told are committed
    intact,      \* requests this process left pending, with a mark of the proof
                 \* as it was, and nobody disturbed since
    used         \* what was spent of the bounds

vars == <<sidecar, statements, audits, issued, remembered, current, run, post, told, intact, used>>

NoRows == [item \in Items |-> <<>>]
Rows == IF sidecar \in Histories THEN sidecar ELSE NoRows
Revision == Len(statements)

Phases == {"PENDING", "FAILED", "COMMITTED"}

Of(request) == {i \in 1 .. Revision : statements[i].body.request = request}
Marks(request, phases) ==
    {k \in DOMAIN audits : audits[k].body.request = request /\ audits[k].phase \in phases}
Marked(request, phase) == Marks(request, {phase}) # {}
FirstPending(request) == audits[Min(Marks(request, {"PENDING"}))]
LastMark(request) == audits[Max(Marks(request, Phases))]

Bounds == {"posts", "events", "faults", "crashes"}
Spend(what) == used' = [used EXCEPT ![what] = @ + 1]
MayFail == used.faults < MaxFaults
Fault == MayFail /\ Spend("faults")
Steady == UNCHANGED used

\* The head a look at the sidecar may show: a failed read is not told from a file
\* that is no sidecar.  Such a failure lasts or passes; none is counted alone.
Shown == {sidecar} \cup (IF MayFail /\ sidecar # NoFile THEN {Unreadable} ELSE {})
Binding(head) == [revision |-> Revision, head |-> head]

\* The loader refuses a run whose relations changed, unless the process still
\* has the projection it read before.
Available == current /\ (remembered \/ run.lenient \/ sidecar = NoFile)

Init ==
    /\ sidecar = NoFile
    /\ statements = <<>> /\ audits = <<>>
    /\ issued = {} /\ remembered = FALSE /\ current = TRUE
    /\ run \in [supported : Supports, lenient : BOOLEAN]
    /\ post = None
    /\ told = {} /\ intact = {}
    /\ used = [what \in Bounds |-> 0]

-----------------------------------------------------------------------------
(* Views and admission *)

\* A view binds a fresh capability to what it shows; old ones expire or make room.
Get ==
    /\ post = None /\ Available
    /\ \E kept \in SUBSET issued, head \in Shown :
        /\ Cardinality(kept) < MaxCapabilities
        /\ issued' = kept \union {Binding(head)}
    /\ remembered' = TRUE
    /\ UNCHANGED <<sidecar, statements, audits, current, run, post, told, intact, used>>

\* The capability was bound before the proofs were captured: it is still good for
\* the exact pending request, if the last mark shows the proof as it is shown now.
Recovers(body, capability, head) ==
    /\ body.action = "CONTINUE"
    /\ capability.revision = Revision
    /\ Marked(body.request, "PENDING") /\ Marked(body.request, "FAILED")
    /\ capability.head = FirstPending(body.request).head
    /\ LastMark(body.request).head = head

Admitted(body, capability, head) ==
    /\ Of(body.request) = {}
    /\ Marked(body.request, "PENDING") => FirstPending(body.request).body = body
    /\ body.expected = Revision
    /\ capability = Binding(head) \/ Recovers(body, capability, head)

\* A statement of this very body, whose proof has not moved since, asked for
\* with the capability of one of its pending marks.
Again(body, capability, head) ==
    /\ body.action = "CONTINUE"
    /\ \E i \in Of(body.request) :
        statements[i].body = body /\ statements[i].status = "RECORDED" /\ statements[i].head = head
    /\ \E k \in Marks(body.request, {"PENDING"}) :
        capability = [revision |-> body.expected, head |-> audits[k].head]

\* Mutant of MayRepair: a committed statement is repaired too.
MayRepairAgain(body, capability, head) == Again(body, capability, head)
MayRepair(body, capability, head) ==
    Again(body, capability, head) /\ ~Marked(body.request, "COMMITTED")

InHand(pc, body, head) == [pc |-> pc, body |-> body, head |-> head, before |-> NoRows, todo |-> <<>>]

Admit(pc, body, head) ==
    /\ post = None /\ Available
    /\ used.posts < MaxPosts /\ Spend("posts")
    /\ post' = InHand(pc, body, head)
    /\ remembered' = TRUE
    /\ UNCHANGED <<sidecar, statements, audits, issued, current, run, told, intact>>

PostContinue(body, capability, head) ==
    body.action = "CONTINUE" /\ Admitted(body, capability, head) /\ Admit("rebuild", body, head)
PostRepair(body, capability, head) ==
    MayRepair(body, capability, head) /\ Admit("repair", body, head)

\* A review or a withdrawal is one statement and captures nothing.
PostReview(body, capability, head) ==
    /\ body.action = "REVIEW" /\ Admitted(body, capability, head)
    /\ post = None /\ Available
    /\ used.posts < MaxPosts /\ Spend("posts")
    /\ statements' = Append(statements, [body |-> body, status |-> "RECORDED", head |-> head])
    /\ remembered' = TRUE
    /\ UNCHANGED <<sidecar, audits, issued, current, run, post, told, intact>>

\* What was committed is answered as committed again.
PostReplay(body, capability, head) ==
    /\ post = None /\ Available
    /\ Again(body, capability, head) /\ Marked(body.request, "COMMITTED")
    /\ told' = told \union {body.request}
    /\ remembered' = TRUE
    /\ UNCHANGED <<sidecar, statements, audits, issued, current, run, post, intact, used>>

-----------------------------------------------------------------------------
(* The steps of a CONTINUE *)

At(pc) == post # None /\ post.pc = pc
Goto(pc) == post' = [post EXCEPT !.pc = pc]
Mark(phase, head) == audits' = Append(audits, [body |-> post.body, phase |-> phase, head |-> head])
Kept == UNCHANGED <<issued, remembered, current, run>>
FilesKept == UNCHANGED <<sidecar, statements>>

\* Mutant of FailedHead: the head of the journal payload.
FailedHeadOfJournal(head) == post.head
\* The head the FAILED mark of an attempt carries: the proof as it was shown.
FailedHead(head) == head

\* The attempt ends without a mark.
Lost ==
    /\ post' = None /\ intact' = intact \ {post.body.request}
    /\ UNCHANGED audits

\* The attempt ends with a FAILED mark, unless that cannot be written either.  A
\* mark that could not read the proof does not answer for it.
Failed(head) ==
    /\ \/ /\ post' = None /\ Mark("FAILED", FailedHead(head))
          /\ intact' = IF FailedHead(head) = Unreadable THEN intact \ {post.body.request} ELSE intact
       \/ MayFail /\ Lost
    /\ UNCHANGED told /\ FilesKept /\ Kept
FailedAsShown == \E head \in Shown : Failed(head)

\* A change of the proof disturbs every other request.
Disturbs(except) == intact' = IF sidecar' = sidecar THEN intact ELSE intact \intersect except

\* Everything the step depends on is assessed again from the current sources.
Rebuild ==
    /\ At("rebuild")
    /\ \/ Fault /\ Failed(post.head)
       \/ \E head \in Shown \ {post.head} : Failed(head) /\ Steady
       \/ /\ post.head \in Shown
          /\ Goto(IF Needs(post.body.step) \subseteq run.supported THEN "begin" ELSE "block")
          /\ UNCHANGED <<audits, told, intact>> /\ FilesKept /\ Kept /\ Steady

\* The journal takes a statement at its expected revision, once for a request.
Appendable == Of(post.body.request) = {} /\ post.body.expected = Revision
Record(status) ==
    statements' = Append(statements, [body |-> post.body, status |-> status, head |-> post.head])

\* A blocked request leaves a statement, then a FAILED mark.
Block ==
    /\ At("block")
    /\ \/ Appendable /\ Record("BLOCKED") /\ Goto("blocked") /\ Steady
       \/ ~Appendable /\ post' = None /\ UNCHANGED statements /\ Steady
       \/ Fault /\ post' = None /\ UNCHANGED statements
    /\ UNCHANGED <<sidecar, audits, told, intact>> /\ Kept
Blocked == At("blocked") /\ Failed(post.head) /\ Steady

\* The proof is noted as it is, if it can be read; a request gets its PENDING mark
\* before it adds to it.
Begin ==
    /\ At("begin")
    /\ \/ sidecar \notin {NoFile, Unreadable, post.head} /\ FailedAsShown /\ Steady
       \/ /\ Fault \/ (sidecar = Unreadable /\ Steady)
          /\ post' = None /\ UNCHANGED <<audits, told, intact>> /\ FilesKept /\ Kept
       \/ /\ sidecar \in {NoFile, post.head} \ {Unreadable}
          /\ Mark("PENDING", post.head)
          /\ intact' = IF Marked(post.body.request, "PENDING") THEN intact
                       ELSE intact \union {post.body.request}
          /\ post' = [post EXCEPT !.pc = "open", !.before = Rows]
          /\ UNCHANGED told /\ FilesKept /\ Kept /\ Steady

\* Connecting makes the file, and nothing in it.
Connect ==
    /\ sidecar = NoFile /\ sidecar' = Unreadable
    /\ Disturbs({post.body.request})
    /\ UNCHANGED <<statements, audits, post, told>> /\ Kept /\ Steady

\* A file without tables gets them, in one transaction.
Initialize ==
    /\ sidecar # NoFile /\ sidecar' = Rows
    /\ post' = [post EXCEPT !.pc = "capture", !.todo = Order(post.body.step)]
    /\ Disturbs({post.body.request})
    /\ UNCHANGED <<statements, audits, told>> /\ Kept /\ Steady

\* Without a directory the request is blocked; any other failure ends it.
OpenFails ==
    \/ /\ sidecar = NoFile /\ Fault
       /\ Mark("FAILED", sidecar) /\ Goto("block")
       /\ UNCHANGED <<told, intact>> /\ FilesKept /\ Kept
    \/ Fault /\ FailedAsShown

Open == At("open") /\ (Connect \/ Initialize \/ OpenFails)

\* An item that is there stays as it is, in whatever state.
Put(item) == sidecar' = IF Rows[item] = <<>> THEN [Rows EXCEPT ![item] = <<"ACTIVE">>] ELSE Rows

Capture ==
    /\ At("capture") /\ post.todo # <<>>
    /\ \/ /\ Put(Head(post.todo))
          /\ post' = [post EXCEPT !.todo = Tail(@)]
          /\ Disturbs({post.body.request})
          /\ UNCHANGED <<statements, audits, told>> /\ Kept /\ Steady
       \/ Fault /\ FailedAsShown

Alive(rows, item) == rows[item] # <<>> /\ Last(rows[item]) = "ACTIVE"
Proved(rows, step) == \A item \in Needs(step) : Alive(rows, item)

ReadBack ==
    /\ At("capture") /\ post.todo = <<>>
    /\ \/ Proved(Rows, post.body.step) /\ Goto("cas") /\ Steady
          /\ UNCHANGED <<audits, told, intact>> /\ FilesKept /\ Kept
       \/ ~Proved(Rows, post.body.step) /\ FailedAsShown /\ Steady
       \/ Fault /\ FailedAsShown

CheckRevision ==
    /\ At("cas")
    /\ \/ Revision = post.body.expected /\ Goto("guard") /\ Steady
          /\ UNCHANGED <<audits, told, intact>> /\ FilesKept /\ Kept
       \/ Revision # post.body.expected /\ FailedAsShown /\ Steady
       \/ Fault /\ Lost /\ UNCHANGED told /\ FilesKept /\ Kept

\* Mutant of Delta: events added to a row that was there pass.
DeltaOfRows(before, after, step) ==
    \A item \in Items : before[item] # after[item] => before[item] # <<>> \/ item \in Needs(step)
\* Only the rows this request was to add may be new, each with its first event.
Delta(before, after, step) ==
    \A item \in Items : before[item] # after[item] =>
        before[item] = <<>> /\ item \in Needs(step) /\ Len(after[item]) = 1

\* From here to the end of the attempt a write transaction keeps others off the proof.
Guard ==
    /\ At("guard")
    /\ \/ /\ Delta(post.before, Rows, post.body.step)
          /\ post' = [post EXCEPT !.pc = "locked", !.head = sidecar]
          /\ UNCHANGED <<audits, told, intact>> /\ FilesKept /\ Kept /\ Steady
       \/ ~Delta(post.before, Rows, post.body.step) /\ Failed(sidecar) /\ Steady
       \/ Fault /\ FailedAsShown

Receipt ==
    /\ At("locked")
    /\ \/ Appendable /\ Record("RECORDED") /\ Goto("receipt")
          /\ UNCHANGED <<sidecar, audits, told, intact>> /\ Kept /\ Steady
       \/ ~Appendable /\ Failed(post.head) /\ Steady
       \/ Fault /\ Failed(post.head)

Commit ==
    /\ At("receipt")
    /\ \/ /\ Mark("COMMITTED", post.head)
          /\ told' = told \union {post.body.request}
          /\ post' = None /\ UNCHANGED intact /\ FilesKept /\ Kept /\ Steady
       \/ Fault /\ Failed(post.head)

\* A repair writes the missing mark, if it can, and nothing else.
Repair ==
    /\ At("repair")
    /\ \/ Mark("COMMITTED", post.head) /\ told' = told \union {post.body.request} /\ Steady
       \/ UNCHANGED <<audits, told, used>>
    /\ post' = None
    /\ UNCHANGED intact /\ FilesKept /\ Kept

-----------------------------------------------------------------------------
(* Others *)

\* Mutant of Locked: the transaction begins with the receipt.
LockedForReceipt == At("receipt")
Locked == At("locked") \/ At("receipt")
Outside == used.events < MaxEvents /\ Spend("events")

\* The lifecycle of an assessment: a stale one may still be retracted.
Age(item) ==
    /\ Outside /\ ~Locked /\ Rows[item] # <<>> /\ Last(Rows[item]) # "RETRACTED"
    /\ \E event \in {"STALE", "RETRACTED"} \ {Last(Rows[item])} :
        sidecar' = [Rows EXCEPT ![item] = Append(@, event)]
    /\ Disturbs({})
    /\ UNCHANGED <<statements, audits, issued, remembered, current, run, post, told>>

PutOutside(item) ==
    /\ Outside /\ ~Locked /\ Rows[item] = <<>>
    /\ \A premise \in Needs(item) \ {item} : Rows[premise] # <<>>
    /\ Put(item)
    /\ Disturbs({})
    /\ UNCHANGED <<statements, audits, issued, remembered, current, run, post, told>>

\* Another process records a review of the run.
StateOutside ==
    /\ Outside
    /\ statements' = Append(statements,
        [body |-> [request |-> None, step |-> "identity", action |-> "REVIEW", expected |-> Revision],
         status |-> "RECORDED", head |-> sidecar])
    /\ UNCHANGED <<sidecar, audits, issued, remembered, current, run, post, told, intact>>

\* The workspace's sources change, or come back, between two posts.
ChangeSources ==
    /\ Outside /\ post = None
    /\ current' = ~current
    /\ UNCHANGED <<sidecar, statements, audits, issued, remembered, run, post, told, intact>>

\* Capabilities and projections are the process's own.
Restart ==
    /\ used.crashes < MaxCrashes /\ Spend("crashes")
    /\ post' = None /\ issued' = {} /\ remembered' = FALSE /\ intact' = {}
    /\ UNCHANGED <<sidecar, statements, audits, current, run, told>>

Post ==
    \E body \in Bodies, capability \in issued, head \in Shown :
        \/ PostContinue(body, capability, head) \/ PostReview(body, capability, head)
        \/ PostRepair(body, capability, head) \/ PostReplay(body, capability, head)
Continue ==
    \/ Rebuild \/ Block \/ Blocked \/ Begin \/ Open \/ Capture \/ ReadBack
    \/ CheckRevision \/ Guard \/ Receipt \/ Commit \/ Repair
Next ==
    \/ Get \/ Post \/ Continue
    \/ \E item \in Assessed : Age(item)
    \/ \E item \in Items : PutOutside(item)
    \/ StateOutside \/ ChangeSources \/ Restart
Spec == Init /\ [][Next]_vars

-----------------------------------------------------------------------------
(* Properties *)

\* A CONTINUE statement is recorded only while every proof its step needs is
\* alive, and carries the proof as it is at that instant: an assessment retracted
\* after it was read back cannot slip in before the statement.
ReceiptOnLiveProof ==
    [][\A i \in Revision + 1 .. Len(statements)' :
        LET s == statements'[i] IN
        s.body.action = "CONTINUE" /\ s.status = "RECORDED" =>
            s.head = sidecar' /\ Proved(sidecar', s.body.step)]_vars

\* The journal is a chain, whatever others recorded while a proof was captured;
\* and a request is committed once, on the statement recorded for it and with the
\* proof of that statement, through failed marks, repairs, retries and restarts;
\* and what a client was told is so.
OneCommitment ==
    /\ \A i \in 1 .. Revision : statements[i].body.expected = i - 1
    /\ \A request \in Requests :
        /\ Cardinality(Of(request)) <= 1
        /\ Cardinality(Marks(request, {"COMMITTED"})) <= 1
        /\ \A k \in Marks(request, {"COMMITTED"}) : \E i \in Of(request) :
            statements[i].status = "RECORDED" /\ statements[i].body.action = "CONTINUE"
            /\ statements[i].head = audits[k].head
        /\ request \in told => Marked(request, "COMMITTED")

\* A pending request that failed here, whose failure was marked with the proof as
\* it was and with nobody else touching the proof since, is accepted again as it
\* was sent, with the capability it was sent with, as soon as the proof is read:
\* carried on, on a sidecar that has its tables, or its missing mark repaired.
\* Excepted are attempts that ended without a mark or with one that could not
\* read the proof: the code refuses these until the view is refreshed, and
\* where the sidecar was left without tables, until another writer made them.
RetryHonoured ==
    post = None /\ Available => \A request \in intact :
        LET pending == FirstPending(request)
            body == pending.body
            capability == [revision |-> body.expected, head |-> pending.head]
        IN capability \in issued =>
            /\ Of(request) = {} /\ Revision = body.expected =>
                  sidecar # Unreadable /\ Admitted(body, capability, sidecar)
            /\ (\E i \in Of(request) : statements[i].status = "RECORDED")
                 /\ ~Marked(request, "COMMITTED") => MayRepair(body, capability, sidecar)

Statements ==
    [body : [request : Requests \cup {None}, step : Items, action : {"CONTINUE", "REVIEW"},
             expected : Nat],
     status : {"RECORDED", "BLOCKED"}, head : Heads]

\* Type correctness of the two files, of what the process keeps and of the post.
TypeOK ==
    /\ sidecar \in Heads
    /\ statements \in Seq(Statements)
    /\ audits \in Seq([body : Continues, phase : Phases, head : Heads])
    /\ issued \subseteq [revision : Nat, head : Heads]
    /\ remembered \in BOOLEAN /\ current \in BOOLEAN
    /\ run \in [supported : Supports, lenient : BOOLEAN]
    /\ post \in Hands \cup {None}
    /\ told \subseteq Requests /\ intact \subseteq Requests
    /\ used \in [Bounds -> Nat]

\* A request is not recorded before its proof is guarded, and not committed
\* before its mark is written, by the post in hand.
OnceInHand ==
    post # None =>
        /\ post.pc \in (Underway \ {"receipt"}) \cup {"rebuild", "begin", "block"} =>
              Of(post.body.request) = {}
        /\ At("receipt") \/ At("repair") =>
              /\ ~Marked(post.body.request, "COMMITTED")
              /\ \E i \in Of(post.body.request) :
                    statements[i].status = "RECORDED" /\ statements[i].body.action = "CONTINUE"
                    /\ statements[i].head = post.head

\* Proofs only grow while one is captured: what is no longer alive since it was
\* read back has more events than the request may have added.
Captured ==
    post # None =>
        /\ sidecar = NoFile => post.head = NoFile
        /\ post.pc \in Underway \ {"open"} => sidecar \in Histories
        /\ post.pc \in Underway => \A item \in Items : Len(post.before[item]) <= Len(Rows[item])
        /\ At("cas") \/ At("guard") => \A item \in Needs(post.body.step) :
              Alive(Rows, item) \/ Len(Rows[item]) > Len(post.before[item])
        /\ Locked => sidecar = post.head /\ Proved(sidecar, post.body.step)

\* One body for each pending request, whoever sends it again.
OneBody ==
    \A request \in Requests : Marked(request, "PENDING") =>
        /\ \A i \in Of(request) : statements[i].body = FirstPending(request).body
        /\ post # None /\ post.body.request = request => post.body = FirstPending(request).body

\* A request nobody disturbed is in hand, or its last mark shows the proof as it
\* is, which is also that of its statement.
Undisturbed ==
    /\ \A request \in intact :
        /\ Marked(request, "PENDING")
        /\ \A i \in Of(request) : statements[i].status = "RECORDED" => statements[i].head = sidecar
        /\ \/ post # None /\ post.body.request = request /\ post.pc \in Underway
           \/ Marked(request, "FAILED") /\ LastMark(request).head = sidecar /\ sidecar # Unreadable
           \/ Marked(request, "COMMITTED")
    /\ post # None /\ post.pc \in {"rebuild", "begin", "block", "blocked"} =>
          post.head \in {sidecar, Unreadable} \/ intact = {}

\* The inductive invariant.
IInv == TypeOK /\ OneCommitment /\ OnceInHand /\ Captured /\ OneBody /\ Undisturbed

====
