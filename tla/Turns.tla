-------------------------------- MODULE Turns --------------------------------
(***************************************************************************)
(* The turn pipeline of wax/workers/main.py: a webhook stores a message    *)
(* and a Work; worker loops claim Works, fold related ones in, run the     *)
(* tutor, put the reply in the outbox (the deliveries table) and send it;  *)
(* the recovery loop sweeps up messages nobody linked, retries unsent      *)
(* deliveries and revives Works that failed for a transient reason.        *)
(*                                                                         *)
(* Each worker turn, and each recovery cycle, is ONE database transaction  *)
(* (db/session.py, session_scope): what it writes is buffered in tx[p] or  *)
(* rec and becomes visible when it commits.  What it sends leaves at once. *)
(* Rows taken FOR UPDATE SKIP LOCKED are the "locked" sets.                *)
(***************************************************************************)
EXTENDS Integers, FiniteSets

CONSTANTS
    Messages,           \* inbound student messages, each stored once
    Workers,            \* the worker_loop tasks (two in the code)
    Principals,         \* students
    Conversations,      \* a student has one per channel
    PrincipalOf,        \* Conversations -> Principals
    ConversationOf,     \* Messages -> Conversations
    NoWork,
    MaxAttempts,        \* works.max_attempts (5 in the code)
    MaxTries,           \* deliveries.max_attempts (5 in the code)
    TurnResults,        \* how a tutor turn may end: "reply", "silent", "error"
    SendResults,        \* how a send may end: "acked", "unacked", "refused"
    MayAge,             \* bound: messages that may stay unlinked past the grace
    MayProtect,         \* bound: principals the rate guard may slow down
    MaxAborts,          \* bound: transactions rolled back, in total
    MaxRevivals         \* bound: failed Works revived, in total

ASSUME TurnsAssumption ==
    /\ IsFiniteSet(Messages)
    /\ PrincipalOf \in [Conversations -> Principals]
    /\ ConversationOf \in [Messages -> Conversations]
    /\ NoWork \notin Messages \X {"inbound", "recovery"}
    /\ MaxAttempts \in Nat \ {0}
    /\ MaxTries \in Nat \ {0}
    /\ TurnResults \subseteq {"reply", "silent", "error"}
    /\ SendResults \subseteq {"acked", "unacked", "refused"}
    /\ MayAge \subseteq Messages
    /\ MayProtect \subseteq Principals
    /\ MaxAborts \in Nat
    /\ MaxRevivals \in Nat

\* A message has the Work its webhook stored and, if the sweep finds it
\* unlinked, one more.
Works == Messages \X {"inbound", "recovery"}
Kinds == {"reply", "apology"}
Deliveries == Works \X Kinds

Owner(w) == PrincipalOf[ConversationOf[w[1]]]

\* Recovery Works take their target from Message.metadata, where the
\* handlers never put one: only inbound Works can address the student.
HasTarget(w) == w[2] = "inbound"

InboundPriority == 50
RecoveryPriority == 40

VARIABLES
    clock,      \* created_at of the next Work
    work,       \* the works table
    mail,       \* the deliveries table: [Works -> [Kinds -> row]]
    linked,     \* messages whose work_id is set
    aged,       \* messages older than the sweep's grace period
    tx,         \* the open transaction of each worker
    rec,        \* the open transaction of the recovery loop
    received,   \* [Works -> [Kinds -> Nat]], copies the student received
    lost,       \* ... of which the tables never learn: the channel did not
                \* acknowledge them, or the transaction was rolled back later
    aborts,     \* rolled back transactions (bounded)
    revivals    \* revived Works (bounded)

tables == <<clock, work, mail, linked>>
bounds == <<aborts, revivals>>
vars == <<tables, aged, tx, rec, received, lost, bounds>>

WorkStatus == {"absent", "queued", "running", "retrying", "completed", "failed"}
MailStatus == {"absent", "pending", "failed", "delivered"}
Phases == {"idle", "claimed", "coalesced", "gated", "linked", "sending"}

\* waiting: next_retry_at lies in the future.  transient: error_class is one
\* the resuscitation query selects.  into: result_payload.coalesced_into.
WorkRow == [status : WorkStatus, attempt : Nat, priority : Nat, born : Nat,
            waiting : BOOLEAN, transient : BOOLEAN, into : Works \cup {NoWork}]
MailRow == [status : MailStatus, tries : Nat, waiting : BOOLEAN]

NoRow == [status |-> "absent", attempt |-> 0, priority |-> 0, born |-> 0,
          waiting |-> FALSE, transient |-> FALSE, into |-> NoWork]
NoMail == [k \in Kinds |-> [status |-> "absent", tries |-> 0, waiting |-> FALSE]]

\* row and mail are the session's uncommitted versions of the claimed Work
\* and its deliveries; dirty marks the deliveries it has written.  unlinked:
\* the copy it has read of the Work's message carries no work_id; linking: it
\* has written the work_id and holds that row.
Tx == [phase : Phases, cur : Works \cup {NoWork}, row : WorkRow,
       locked : SUBSET Works, folded : SUBSET Works,
       unlinked : BOOLEAN, linking : BOOLEAN,
       mail : [Kinds -> MailRow], todo : SUBSET Kinds, dirty : SUBSET Kinds]
IdleTx == [phase |-> "idle", cur |-> NoWork, row |-> NoRow,
           locked |-> {}, folded |-> {}, unlinked |-> FALSE, linking |-> FALSE,
           mail |-> NoMail, todo |-> {}, dirty |-> {}]

\* The recovery cycle: messages it has locked, deliveries it has locked and
\* not yet tried, and the outcomes of those it has.
Rec == [phase : {"idle", "swept", "mailing"}, orphans : SUBSET Messages,
        batch : SUBSET Deliveries, acked : SUBSET Deliveries,
        failed : SUBSET Deliveries]
IdleRec == [phase |-> "idle", orphans |-> {}, batch |-> {},
            acked |-> {}, failed |-> {}]

TypeOK ==
    /\ clock \in Nat
    /\ work \in [Works -> WorkRow]
    /\ mail \in [Works -> [Kinds -> MailRow]]
    /\ linked \subseteq Messages
    /\ aged \subseteq Messages
    /\ tx \in [Workers -> Tx]
    /\ rec \in Rec
    /\ received \in [Works -> [Kinds -> Nat]]
    /\ lost \in [Works -> [Kinds -> Nat]]
    /\ aborts \in 0..MaxAborts
    /\ revivals \in 0..MaxRevivals

Init ==
    /\ clock = 0
    /\ work = [w \in Works |-> NoRow]
    /\ mail = [w \in Works |-> NoMail]
    /\ linked = {}
    /\ aged = {}
    /\ tx = [p \in Workers |-> IdleTx]
    /\ rec = IdleRec
    /\ received = [w \in Works |-> [k \in Kinds |-> 0]]
    /\ lost = [w \in Works |-> [k \in Kinds |-> 0]]
    /\ aborts = 0
    /\ revivals = 0

-----------------------------------------------------------------------------
(* The environment: webhooks, time. *)

\* A webhook stores the message and its Work in one transaction; a duplicate
\* delivery of the event changes nothing (ON CONFLICT DO NOTHING).
Accept(m) ==
    LET w == <<m, "inbound">> IN
    /\ work[w].status = "absent"
    /\ clock' = clock + 1
    /\ work' = [work EXCEPT ![w] = [NoRow EXCEPT
                    !.status = "queued", !.priority = InboundPriority, !.born = clock]]
    /\ UNCHANGED <<mail, linked, aged, tx, rec, received, lost, bounds>>

\* The message outlives the grace period without a work_id.
Age(m) ==
    /\ m \in MayAge \ (aged \cup linked)
    /\ work[<<m, "inbound">>].status # "absent"
    /\ aged' = aged \cup {m}
    /\ UNCHANGED <<tables, tx, rec, received, lost, bounds>>

\* next_retry_at passes.
WorkDue(w) ==
    /\ work[w].status = "retrying" /\ work[w].waiting
    /\ work' = [work EXCEPT ![w].waiting = FALSE]
    /\ UNCHANGED <<clock, mail, linked, aged, tx, rec, received, lost, bounds>>

MailDue(w, k) ==
    /\ mail[w][k].status = "failed" /\ mail[w][k].waiting
    /\ mail' = [mail EXCEPT ![w][k].waiting = FALSE]
    /\ UNCHANGED <<clock, work, linked, aged, tx, rec, received, lost, bounds>>

-----------------------------------------------------------------------------
(* A worker's turn. *)

\* (variant) rows are read without a lock
NoLocks == {}

LockedWorks == UNION {tx[p].locked : p \in Workers}

Claimable == {w \in Works :
    \/ work[w].status = "queued"
    \/ work[w].status = "retrying" /\ ~work[w].waiting}

Before(v, w) ==
    \/ work[v].priority < work[w].priority
    \/ work[v].priority = work[w].priority /\ work[v].born < work[w].born

\* (variant) the claim does not count the attempt
ClaimedRowUncounted(w) == [work[w] EXCEPT !.status = "running"]

ClaimedRow(w) == [work[w] EXCEPT !.status = "running", !.attempt = @ + 1]

Claim(p) ==
    /\ tx[p].phase = "idle"
    /\ \E w \in Claimable \ LockedWorks :
        /\ \A v \in Claimable \ LockedWorks : ~Before(v, w)
        /\ tx' = [tx EXCEPT ![p] = [IdleTx EXCEPT
                    !.phase = "claimed", !.cur = w, !.row = ClaimedRow(w),
                    !.locked = {w}]]
    /\ UNCHANGED <<tables, aged, rec, received, lost, bounds>>

\* Open Works of the same conversation: all of them are locked, those that
\* score as related to w (any of them, here) are folded in.  A delayed or
\* folding turn also loads the messages of the conversation; one that does
\* not reads its own only in Link, and what it may do then is less.
Siblings(w) == {v \in Works \ LockedWorks :
    /\ v # w
    /\ ConversationOf[v[1]] = ConversationOf[w[1]]
    /\ work[v].status \in {"queued", "retrying"}}

Coalesce(p) ==
    /\ tx[p].phase = "claimed"
    /\ \E related \in SUBSET Siblings(tx[p].cur) :
        tx' = [tx EXCEPT ![p].phase = "coalesced",
                         ![p].locked = @ \cup Siblings(tx[p].cur),
                         ![p].folded = related,
                         ![p].unlinked = tx[p].cur[1] \notin linked]
    /\ UNCHANGED <<tables, aged, rec, received, lost, bounds>>

\* decide_durable holds the principal_workloads row until the turn commits.
PastGate(p) == tx[p].phase \in {"gated", "linked", "sending"}

\* (variant) the workload row is read without FOR UPDATE
GateUnlocked(p) == TRUE

GateOpen(p) == \A q \in Workers \ {p} :
    PastGate(q) => Owner(tx[q].cur) # Owner(tx[p].cur)

Lowered(priority) == IF priority + 50 < 200 THEN priority + 50 ELSE 200

Gate(p) ==
    /\ tx[p].phase = "coalesced"
    /\ GateOpen(p)
    /\ \/ tx' = [tx EXCEPT ![p].phase = "gated"]
       \/ /\ Owner(tx[p].cur) \in MayProtect
          /\ tx' = [tx EXCEPT ![p].phase = "gated", ![p].row.priority = Lowered(@)]
    /\ UNCHANGED <<tables, aged, rec, received, lost, bounds>>

\* The claimed Work's message gets its work_id if the copy read earlier, without
\* a lock, had none.  The update waits for a sweep that holds the message and
\* then overwrites the link the sweep has committed.  It is skipped when the
\* World directory fails.
Link(p) ==
    /\ tx[p].phase = "gated"
    /\ \E linking \in {FALSE, tx[p].unlinked} :
        /\ linking => tx[p].cur[1] \notin rec.orphans
        /\ tx' = [tx EXCEPT ![p].phase = "linked", ![p].unlinked = FALSE,
                            ![p].linking = linking]
    /\ UNCHANGED <<tables, aged, rec, received, lost, bounds>>

Pending(rows) == {k \in Kinds : rows[k].status = "pending"}

\* (variant) the reply is not put in the outbox
PostedNever(w, k) == mail[w]

\* A Delivery is added once per idempotency key, and only with a target.
Posted(w, k) ==
    IF HasTarget(w) /\ mail[w][k].status = "absent"
    THEN [mail[w] EXCEPT ![k].status = "pending"]
    ELSE mail[w]

Added(w, k) == IF Posted(w, k) = mail[w] THEN {} ELSE {k}

\* The tutor returned a reply, possibly an empty one: the Work is completed
\* and, if there is something to say and someone to say it to, posted.
Complete(p, result) ==
    LET w == tx[p].cur
        rows == IF result = "reply" THEN Posted(w, "reply") ELSE mail[w]
    IN tx' = [tx EXCEPT ![p].phase = "sending", ![p].row.status = "completed",
                        ![p].mail = rows, ![p].todo = Pending(rows),
                        ![p].dirty = IF result = "reply" THEN Added(w, "reply") ELSE {}]

\* (variant) one attempt too few
MayRetryOnceLess(row) == row.attempt + 1 < MaxAttempts

MayRetry(row) == row.attempt < MaxAttempts

\* The turn raised.  While attempts remain it is retried after a backoff and
\* whatever is pending for the Work is sent; else an apology is posted, which
\* only the recovery loop will send.
Fail(p, transient) ==
    LET w == tx[p].cur IN
    IF MayRetry(tx[p].row)
    THEN tx' = [tx EXCEPT ![p].phase = "sending",
                          ![p].row = [@ EXCEPT !.status = "retrying", !.waiting = TRUE,
                                               !.transient = transient],
                          ![p].mail = mail[w], ![p].todo = Pending(mail[w])]
    ELSE tx' = [tx EXCEPT ![p].phase = "sending",
                          ![p].row = [@ EXCEPT !.status = "failed",
                                               !.transient = transient],
                          ![p].mail = Posted(w, "apology"),
                          ![p].dirty = Added(w, "apology")]

Answer(p) ==
    /\ tx[p].phase = "linked"
    /\ \/ \E result \in TurnResults \ {"error"} : Complete(p, result)
       \/ "error" \in TurnResults /\ \E transient \in BOOLEAN : Fail(p, transient)
    /\ UNCHANGED <<tables, aged, rec, received, lost, bounds>>

\* The row of a delivery after one attempt of _attempt_deliveries.
Attempted(row, result) ==
    IF result = "acked" THEN [row EXCEPT !.status = "delivered"]
    ELSE [row EXCEPT !.status = "failed", !.tries = @ + 1]

\* What the student receives, and what of it the channel leaves in doubt.
Counted(w, k, result) ==
    /\ received' = IF result = "refused" THEN received
                   ELSE [received EXCEPT ![w][k] = @ + 1]
    /\ lost' = IF result = "unacked" THEN [lost EXCEPT ![w][k] = @ + 1] ELSE lost

\* A written delivery row that the recovery loop has locked: the flush waits.
FlushBlocked(p) ==
    \E k \in tx[p].dirty : <<tx[p].cur, k>> \in rec.batch \cup rec.acked \cup rec.failed

Send(p, k, result) ==
    LET w == tx[p].cur IN
    /\ tx[p].phase = "sending"
    /\ k \in tx[p].todo
    /\ ~FlushBlocked(p)
    /\ tx' = [tx EXCEPT ![p].mail[k] = Attempted(@, result),
                        ![p].todo = @ \ {k},
                        ![p].dirty = @ \cup {k}]
    /\ Counted(w, k, result)
    /\ UNCHANGED <<tables, aged, rec, bounds>>

\* (variant) a folded Work is marked but stays open
CommittedWorkOpen(p) ==
    [w \in Works |->
        IF w = tx[p].cur THEN tx[p].row
        ELSE IF w \in tx[p].folded THEN [work[w] EXCEPT !.into = tx[p].cur]
        ELSE work[w]]

CommittedWork(p) ==
    [w \in Works |->
        IF w = tx[p].cur THEN tx[p].row
        ELSE IF w \in tx[p].folded
             THEN [work[w] EXCEPT !.status = "completed", !.into = tx[p].cur]
        ELSE work[w]]

\* The session writes the columns it changed: attempt only after a failure.
Flushed(old, new) ==
    [old EXCEPT !.status = new.status,
                !.tries = IF new.status = "failed" THEN new.tries ELSE @]

CommittedMail(p) ==
    [mail EXCEPT ![tx[p].cur] =
        [k \in Kinds |-> IF k \in tx[p].dirty THEN Flushed(@[k], tx[p].mail[k])
                         ELSE @[k]]]

Commit(p) ==
    /\ tx[p].phase = "sending"
    /\ tx[p].todo = {}
    /\ ~FlushBlocked(p)
    /\ work' = CommittedWork(p)
    /\ mail' = CommittedMail(p)
    /\ linked' = IF tx[p].linking THEN linked \cup {tx[p].cur[1]} ELSE linked
    /\ tx' = [tx EXCEPT ![p] = IdleTx]
    /\ UNCHANGED <<clock, aged, rec, received, lost, bounds>>

\* What this turn has sent and got an acknowledgement for.
Acked(p) == {k \in tx[p].dirty : tx[p].mail[k].status = "delivered"}

\* A database error, a crash or a shutdown: everything but the sends is undone,
\* the attempt counted by the claim included.
Abort(p) ==
    LET w == tx[p].cur IN
    /\ tx[p].phase # "idle"
    /\ aborts < MaxAborts
    /\ aborts' = aborts + 1
    /\ lost' = [lost EXCEPT ![w] =
                [k \in Kinds |-> IF k \in Acked(p) THEN @[k] + 1 ELSE @[k]]]
    /\ tx' = [tx EXCEPT ![p] = IdleTx]
    /\ UNCHANGED <<tables, aged, rec, received, revivals>>

-----------------------------------------------------------------------------
(* The recovery loop's cycle. *)

\* (variant) the sweep does not skip messages a turn is linking
MessageNeverLocked(m) == FALSE

MessageLocked(m) == \E p \in Workers : tx[p].linking /\ tx[p].cur[1] = m

Sweep ==
    /\ rec.phase = "idle"
    /\ rec' = [rec EXCEPT !.phase = "swept",
                          !.orphans = {m \in aged \ linked : ~MessageLocked(m)}]
    /\ UNCHANGED <<tables, aged, tx, received, lost, bounds>>

MailLocked(w, k) == \E p \in Workers : tx[p].cur = w /\ k \in tx[p].dirty

\* (variant) delivered rows are selected again
RetriableDelivered(w, k) ==
    /\ mail[w][k].status # "absent"
    /\ mail[w][k].tries < MaxTries
    /\ ~mail[w][k].waiting

Retriable(w, k) ==
    /\ mail[w][k].status \in {"pending", "failed"}
    /\ mail[w][k].tries < MaxTries
    /\ ~mail[w][k].waiting

Take ==
    /\ rec.phase = "swept"
    /\ rec' = [rec EXCEPT !.phase = "mailing",
                          !.batch = {d \in Deliveries :
                                Retriable(d[1], d[2]) /\ ~MailLocked(d[1], d[2])}]
    /\ UNCHANGED <<tables, aged, tx, received, lost, bounds>>

Resend(d, result) ==
    /\ rec.phase = "mailing"
    /\ d \in rec.batch
    /\ rec' = [rec EXCEPT
                !.batch = @ \ {d},
                !.acked = IF result = "acked" THEN @ \cup {d} ELSE @,
                !.failed = IF result = "acked" THEN @ ELSE @ \cup {d}]
    /\ Counted(d[1], d[2], result)
    /\ UNCHANGED <<tables, aged, tx, bounds>>

\* (variants) the try is not counted; the row is left "sending"
RetriedUncounted(d) == [mail[d[1]][d[2]] EXCEPT
    !.status = IF d \in rec.acked THEN "delivered" ELSE "failed", !.waiting = TRUE]
RetriedSending(d) == [mail[d[1]][d[2]] EXCEPT !.status = "sending", !.tries = @ + 1]

\* The row of a delivery the cycle has tried: attempt_one counts every try.
Retried(d) ==
    IF d \in rec.acked
    THEN [mail[d[1]][d[2]] EXCEPT !.status = "delivered", !.tries = @ + 1]
    ELSE [mail[d[1]][d[2]] EXCEPT !.status = "failed", !.tries = @ + 1, !.waiting = TRUE]

Revivable == {w \in Works :
    /\ work[w].status = "failed"
    /\ work[w].transient
    /\ mail[w]["reply"].status # "delivered"}

\* Every fifth cycle revives what it can; all cycles commit once, at the end.
CommitCycle(revived) ==
    /\ rec.phase = "mailing"
    /\ rec.batch = {}
    /\ revivals + Cardinality(revived) <= MaxRevivals
    /\ revivals' = revivals + Cardinality(revived)
    /\ clock' = IF rec.orphans = {} THEN clock ELSE clock + 1
    /\ work' = [w \in Works |->
            IF w[1] \in rec.orphans /\ w[2] = "recovery"
            THEN [NoRow EXCEPT !.status = "queued", !.priority = RecoveryPriority,
                               !.born = clock]
            ELSE IF w \in revived
                 THEN [work[w] EXCEPT !.status = "retrying", !.waiting = FALSE]
            ELSE work[w]]
    /\ linked' = linked \cup rec.orphans
    /\ mail' = [w \in Works |-> [k \in Kinds |->
            IF <<w, k>> \in rec.acked \cup rec.failed THEN Retried(<<w, k>>)
            ELSE mail[w][k]]]
    /\ rec' = IdleRec
    /\ UNCHANGED <<aged, tx, received, lost, aborts>>

AbortCycle ==
    /\ rec.phase # "idle"
    /\ aborts < MaxAborts
    /\ aborts' = aborts + 1
    /\ lost' = [w \in Works |-> [k \in Kinds |->
            IF <<w, k>> \in rec.acked THEN lost[w][k] + 1 ELSE lost[w][k]]]
    /\ rec' = IdleRec
    /\ UNCHANGED <<tables, aged, tx, received, revivals>>

-----------------------------------------------------------------------------
WorkerStep(p) ==
    \/ Claim(p) \/ Coalesce(p) \/ Gate(p) \/ Link(p) \/ Answer(p)
    \/ \E k \in Kinds, result \in SendResults : Send(p, k, result)
    \/ Commit(p)

CycleStep ==
    \/ Sweep
    \/ Take
    \/ \E d \in Deliveries, result \in SendResults : Resend(d, result)
    \/ \E revived \in {{}, Revivable} : CommitCycle(revived)

TimeStep ==
    \/ \E w \in Works : WorkDue(w)
    \/ \E w \in Works, k \in Kinds : MailDue(w, k)

Next ==
    \/ \E m \in Messages : Accept(m) \/ Age(m)
    \/ TimeStep
    \/ \E p \in Workers : WorkerStep(p) \/ Abort(p)
    \/ CycleStep
    \/ AbortCycle

Spec == Init /\ [][Next]_vars

\* The loops never stop and clocks advance; rollbacks need not happen.
FairSpec ==
    /\ Spec
    /\ \A p \in Workers : WF_vars(WorkerStep(p))
    /\ WF_vars(CycleStep)
    /\ WF_vars(TimeStep)

-----------------------------------------------------------------------------
(* Safety. *)

\* No two open transactions hold the same Work, whether claimed or only
\* looked at as a sibling (FOR UPDATE SKIP LOCKED in claim_next and
\* find_coalescable_works), so no Work is answered by two turns at once.
LocksExclusive ==
    \A p, q \in Workers : p # q => tx[p].locked \cap tx[q].locked = {}

\* What a turn holds stays open underneath it: until it commits, every Work
\* it claimed or may fold in is still queued or retrying for everyone else.
\* "running" is never committed, whatever fails in a turn, so recover_orphans
\* and reclaim_stale_works (workers/main.py) find nothing to do.
HeldIsOpen ==
    /\ \A p \in Workers : \A w \in tx[p].locked :
            work[w].status \in {"queued", "retrying"}
    /\ \A w \in Works : work[w].status # "running"

\* The rows locked by decide_durable run the turns of one student one after
\* another: past the gate, two open turns belong to different students.
TurnsSerialized ==
    \A p, q \in Workers :
        p # q /\ PastGate(p) /\ PastGate(q) => Owner(tx[p].cur) # Owner(tx[q].cur)

\* What a worker's transaction is between its steps: nothing when it is idle,
\* else the claimed Work is among the rows it holds and so is all it folds in.
\* With LocksExclusive, HeldIsOpen and TurnsSerialized this is inductive.
TxShape ==
    \A p \in Workers :
        /\ tx[p].phase = "idle" => tx[p].locked = {}
        /\ tx[p].phase # "idle" => tx[p].cur \in tx[p].locked
        /\ tx[p].folded \subseteq tx[p].locked \ {tx[p].cur}
        /\ tx[p].phase = "sending" =>
                tx[p].row.status \in {"completed", "retrying", "failed"}

\* The sweep stored a recovery Work for m.
Recovered(m) == work[<<m, "recovery">>].status # "absent"

\* A message is swept at most once, and never while a turn is writing its
\* link.  A turn that read the message before the sweep may still take it over
\* afterwards, so that both Works answer it; but only from the sweep: a turn
\* never overwrites the link of another turn.
SweptOnce ==
    /\ \A m \in rec.orphans : m \notin linked /\ ~MessageLocked(m)
    /\ \A m \in Messages : Recovered(m) => m \in linked
    /\ \A p \in Workers :
            (tx[p].unlinked \/ tx[p].linking) /\ tx[p].cur[1] \in linked =>
                Recovered(tx[p].cur[1])

\* The outbox agrees with the ledger: a reply is stored exactly with the
\* completion of its own Work, an apology only once attempts were used up.
OutboxAgrees ==
    \A w \in Works :
        /\ mail[w]["reply"].status # "absent" =>
                work[w].status = "completed" /\ work[w].into = NoWork
        /\ mail[w]["apology"].status # "absent" => work[w].attempt >= MaxAttempts
        /\ work[w].status = "failed" /\ HasTarget(w) =>
                mail[w]["apology"].status # "absent"

\* A folded Work was completed by another Work of the same conversation, and
\* has neither a reply nor a later turn of its own.
FoldedIsClosed ==
    \A w \in Works : work[w].into # NoWork =>
        /\ work[w].status = "completed"
        /\ work[w].into # w
        /\ ConversationOf[work[w].into[1]] = ConversationOf[w[1]]
        /\ mail[w]["reply"].status = "absent"

\* The turn of a revived Work sends the apology too while it is pending, be
\* the recovery loop sending it or not, and writes its own outcome over the
\* loop's: such an apology may be acknowledged once more.
SentBesides(w, k) ==
    IF k = "apology" /\ mail[w][k].status # "absent" /\ work[w].status # "failed"
    THEN 1 ELSE 0

\* The student gets a message twice only if an earlier send was received
\* without an acknowledgement, was undone by a rollback, or was an apology for
\* a Work revived since.  A send that was acknowledged and committed is not
\* repeated, however often the retry loop runs.
DuplicatesExplained ==
    \A w \in Works, k \in Kinds :
        received[w][k] <= 1 + lost[w][k] + SentBesides(w, k)

\* The student has heard about w, or still will: w is open, or has a reply or
\* an apology in the outbox.
Told(w) ==
    \/ work[w].status \notin {"completed", "failed"}
    \/ \E k \in Kinds : mail[w][k].status # "absent"

\* The Works told about, and with a Work all that were folded into it.
Accounted(S) == \A w \in Works : Told(w) \/ work[w].into \in S => w \in S
InHand == {w \in Works : \A S \in SUBSET Works : Accounted(S) => w \in S}

\* "Accepted messages are never discarded" (work/recovery.py:6): as long as
\* the tutor never answers with nothing, no Work of a message is closed and
\* the student left without a word.
NeverDiscarded == \A m \in Messages : <<m, "inbound">> \in InHand

-----------------------------------------------------------------------------
(* Turns implements WorkLedger. *)

LedgerState(w) ==
    IF work[w].status \in {"queued", "running", "retrying"}
    THEN "open" ELSE work[w].status

Ledger == INSTANCE WorkLedger WITH
    Work <- Works,
    state <- [w \in Works |-> LedgerState(w)],
    folded <- [w \in Works |-> work[w].into],
    posted <- {w \in Works : mail[w]["reply"].status # "absent"}

\* Every step of the pipeline is a step of the ledger or changes nothing in it.
ImplementsLedger == Ledger!Spec

-----------------------------------------------------------------------------
(* Liveness. *)

\* Every accepted message's Work ends: it is answered, folded in or given up.
\* (A row that is there stays, so "absent" is only before it.)
EveryWorkEnds ==
    \A w \in Works :
        []<>(work[w].status \in {"absent", "completed", "failed"})

\* What is put in the outbox is delivered or tried max_attempts times.
MailSettles ==
    \A w \in Works, k \in Kinds :
        []<>\/ mail[w][k].status \in {"absent", "delivered"}
            \/ mail[w][k].tries >= MaxTries
=============================================================================
