----------------------------- MODULE Interaction -----------------------------
(***************************************************************************)
(* One interaction (buttons or a list sent to the student) from its        *)
(* creation to its continuation: wax/interaction/service.py as the webhook *)
(* handlers and the recovery loop use it.                                  *)
(*                                                                         *)
(* A tap is handled in one transaction: find_by_callback loads the row,    *)
(* consume takes its lock and decides, and the handler adds the Work that  *)
(* continues the conversation.  The locking SELECT returns the object the  *)
(* session has already loaded, with the attributes it had then, so consume *)
(* decides on the status that was found ("seen"), not on the locked one.   *)
(***************************************************************************)
EXTENDS Naturals, FiniteSets

CONSTANTS
    Taps,           \* callback events, each with its own event id
    Expiries,       \* what create may give the row: "none" and "ahead"
    MaxHandlers,    \* taps handled at the same time
    MaxAborts       \* bound: transactions rolled back

\* expires_at is NULL ("none"), in the future ("ahead") or has passed ("past").
\* Only a caller that passes expires_in_seconds gets an expiry; the tutor, the
\* one caller there is, passes none.
ASSUME InteractionAssumption ==
    /\ Expiries \subseteq {"none", "ahead"}
    /\ MaxHandlers \in Nat \ {0}
    /\ MaxAborts \in Nat

VARIABLES
    status,     \* of the interactions row
    choice,     \* consumed_choice_id: the tap whose choice it is, or "none"
    expiry,     \* expires_at against the clock
    tap,        \* the transaction of each tap
    sweep,      \* the recovery loop: "idle" or "holding" the row it expires
    works,      \* continuations: [reason, tap]
    aborts      \* rolled back transactions (bounded)

vars == <<status, choice, expiry, tap, sweep, works, aborts>>

Statuses == {"pending", "consumed", "expired"}
Reasons == {"choice", "expired_on_tap", "timeout"}

\* late: consume's "now" was past expires_at.  outcome: what consume returned.
Tap == [phase : {"new", "found", "timed", "locked", "done"}, seen : Statuses,
        late : BOOLEAN, outcome : Statuses \cup {"none", "already_consumed"}]
NewTap == [phase |-> "new", seen |-> "pending", late |-> FALSE, outcome |-> "none"]

TypeOK ==
    /\ status \in Statuses
    /\ choice \in Taps \cup {"none"}
    /\ expiry \in Expiries \cup {"past"}
    /\ tap \in [Taps -> Tap]
    /\ sweep \in {"idle", "holding"}
    /\ works \subseteq [reason : Reasons, tap : Taps \cup {"none"}]
    /\ aborts \in 0..MaxAborts

Init ==
    /\ status = "pending"
    /\ choice = "none"
    /\ expiry \in Expiries
    /\ tap = [t \in Taps |-> NewTap]
    /\ sweep = "idle"
    /\ works = {}
    /\ aborts = 0

Expire ==
    /\ expiry = "ahead"
    /\ expiry' = "past"
    /\ UNCHANGED <<status, choice, tap, sweep, works, aborts>>

-----------------------------------------------------------------------------
(* A tap. *)

InFlight == {t \in Taps : tap[t].phase \in {"found", "timed", "locked"}}

\* The event is stored (a second delivery of it conflicts and stops there) and
\* the row is loaded.
Find(t) ==
    /\ tap[t].phase = "new"
    /\ Cardinality(InFlight) < MaxHandlers
    /\ tap' = [tap EXCEPT ![t].phase = "found", ![t].seen = status]
    /\ UNCHANGED <<status, choice, expiry, sweep, works, aborts>>

\* consume looks at the clock before it asks for the lock.
Time(t) ==
    /\ tap[t].phase = "found"
    /\ tap' = [tap EXCEPT ![t].phase = "timed", ![t].late = (expiry = "past")]
    /\ UNCHANGED <<status, choice, expiry, sweep, works, aborts>>

TapHolds == \E t \in Taps : tap[t].phase = "locked"

Outcome(seen, late) ==
    IF seen = "consumed" THEN "already_consumed"
    ELSE IF seen = "expired" \/ late THEN "expired" ELSE "consumed"

Lock(t) ==
    /\ tap[t].phase = "timed"
    /\ ~TapHolds
    /\ sweep = "idle"
    /\ tap' = [tap EXCEPT ![t].phase = "locked",
                          ![t].outcome = Outcome(tap[t].seen, tap[t].late)]
    /\ UNCHANGED <<status, choice, expiry, sweep, works, aborts>>

\* (variants) what consume returned is stored; no continuation is enqueued
WrittenOutcome(t) == tap[t].outcome
ContinuedNever(t) == {}

\* The column is written when consume changed the attribute it had loaded.
Written(t) ==
    IF tap[t].outcome \in {"consumed", "expired"} /\ tap[t].outcome # tap[t].seen
    THEN tap[t].outcome ELSE status

Continued(t) ==
    CASE tap[t].outcome = "consumed" -> {[reason |-> "choice", tap |-> t]}
      [] tap[t].outcome = "expired" -> {[reason |-> "expired_on_tap", tap |-> t]}
      [] OTHER -> {}

Commit(t) ==
    /\ tap[t].phase = "locked"
    /\ status' = Written(t)
    /\ choice' = IF tap[t].outcome = "consumed" THEN t ELSE choice
    /\ works' = works \cup Continued(t)
    /\ tap' = [tap EXCEPT ![t].phase = "done"]
    /\ UNCHANGED <<expiry, sweep, aborts>>

\* The handler fails; the platform delivers the event again.
Abort(t) ==
    /\ t \in InFlight
    /\ aborts < MaxAborts
    /\ aborts' = aborts + 1
    /\ tap' = [tap EXCEPT ![t] = NewTap]
    /\ UNCHANGED <<status, choice, expiry, sweep, works>>

-----------------------------------------------------------------------------
(* expire_due in the recovery cycle: skips a row that is locked, holds the   *)
(* one it expires until the cycle commits.                                   *)

SweepLock ==
    /\ sweep = "idle"
    /\ status = "pending" /\ expiry = "past"
    /\ ~TapHolds
    /\ sweep' = "holding"
    /\ UNCHANGED <<status, choice, expiry, tap, works, aborts>>

\* (variant) the row is found again by the next cycle
SweptStatusKept == status

SweptStatus == "expired"

SweepCommit ==
    /\ sweep = "holding"
    /\ status' = SweptStatus
    /\ works' = works \cup {[reason |-> "timeout", tap |-> "none"]}
    /\ sweep' = "idle"
    /\ UNCHANGED <<choice, expiry, tap, aborts>>

SweepAbort ==
    /\ sweep = "holding"
    /\ aborts < MaxAborts
    /\ aborts' = aborts + 1
    /\ sweep' = "idle"
    /\ UNCHANGED <<status, choice, expiry, tap, works>>

-----------------------------------------------------------------------------
Handle(t) == Time(t) \/ Lock(t) \/ Commit(t)

Next ==
    \/ Expire
    \/ \E t \in Taps : Find(t) \/ Handle(t) \/ Abort(t)
    \/ SweepLock \/ SweepCommit \/ SweepAbort

Spec == Init /\ [][Next]_vars

\* Time passes an expiry that was set, the recovery loop runs and an open
\* transaction ends; the student need not tap.
FairSpec ==
    /\ Spec
    /\ WF_vars(Expire)
    /\ WF_vars(SweepLock) /\ WF_vars(SweepCommit)
    /\ \A t \in Taps : WF_vars(Handle(t))

-----------------------------------------------------------------------------
ChoiceWorks == {w \in works : w.reason = "choice"}

\* Whatever closes the interaction continues the conversation: a consumed row
\* has the Work of the choice it shows, an expired one a Work that says so.
ClosedIsContinued ==
    /\ status = "consumed" => [reason |-> "choice", tap |-> choice] \in works
    /\ status = "expired" =>
            \E w \in works : w.reason \in {"expired_on_tap", "timeout"}

\* A timeout is announced once: after it, no cycle finds the row again, not
\* even when a tap that had loaded it earlier writes it afterwards.
TimeoutOnce ==
    (\E w \in works : w.reason = "timeout") => status # "pending" /\ sweep = "idle"

\* "Atomically consume", with a row lock "to defeat double-tap / dual-worker
\* races" (interaction/service.py:126-128): one choice is acted on, once.
ConsumedOnce == Cardinality(ChoiceWorks) <= 1

\* An interaction that was given an expiry is followed up even if the student
\* never answers it (recovery loop, workers/main.py:957-961).  Without one it
\* may stay pending for good, and every interaction the tutor presents is
\* without one.
ExpiryContinues == expiry # "none" ~> works # {}
=============================================================================
