-------------------------- MODULE InteractionProofs --------------------------
(***************************************************************************)
(* Theorems about module Interaction, for any taps, handlers and aborts.   *)
(*                                                                         *)
(* consume decides on the status its session had loaded, so nothing ties   *)
(* what a tap writes to the row it has locked.  What is inductive is       *)
(* weaker: a locked tap's outcome follows from the status it saw.          *)
(***************************************************************************)
EXTENDS Interaction, TLAPS

\* What consume returned follows from the status found and its clock, and
\* whoever holds the row holds it alone.
Decided ==
    \A t \in Taps : tap[t].phase = "locked" =>
        tap[t].outcome = Outcome(tap[t].seen, tap[t].late) /\ sweep = "idle"

Inv == TypeOK /\ Decided /\ ClosedIsContinued /\ TimeoutOnce

-----------------------------------------------------------------------------
\* The status a committing tap leaves: its outcome if that closes the row and
\* is not what it had seen, and otherwise the status as it is.
LEMMA TapWrites ==
  ASSUME TypeOK, Decided, NEW t \in Taps, tap[t].phase = "locked"
  PROVE  \/ /\ tap[t].outcome = "consumed" /\ Written(t) = "consumed"
            /\ Continued(t) = {[reason |-> "choice", tap |-> t]}
         \/ /\ tap[t].outcome = "expired" /\ Written(t) \in {"expired", status}
            /\ Continued(t) = {[reason |-> "expired_on_tap", tap |-> t]}
         \/ /\ tap[t].outcome = "already_consumed" /\ Written(t) = status
            /\ Continued(t) = {}
<1>1. tap[t].seen \in Statuses /\ tap[t].late \in BOOLEAN
  BY DEF TypeOK, Tap
<1>2. tap[t].outcome = Outcome(tap[t].seen, tap[t].late)
  BY DEF Decided
<1>3. CASE tap[t].seen = "consumed"
  BY <1>2, <1>3 DEF Outcome, Written, Continued
<1>4. CASE tap[t].seen = "expired"
  BY <1>2, <1>4 DEF Outcome, Written, Continued
<1>5. CASE tap[t].seen = "pending"
  BY <1>1, <1>2, <1>5 DEF Outcome, Written, Continued
<1> QED
  BY <1>1, <1>3, <1>4, <1>5 DEF Statuses

\* A step that leaves the row and its continuations alone keeps both closed
\* rows continued and, if it does not begin a sweep, the timeout final.
LEMMA RowAlone ==
  ASSUME Inv, UNCHANGED <<status, choice, works>>, sweep' \in {sweep, "idle"}
  PROVE  ClosedIsContinued' /\ TimeoutOnce'
  BY DEF Inv, ClosedIsContinued, TimeoutOnce

\* A step of one tap that is then not locked decides nothing.
LEMMA TapUndecided ==
  ASSUME TypeOK, Decided, NEW t \in Taps, NEW row,
         tap' = [tap EXCEPT ![t] = row], row.phase # "locked", sweep' = sweep
  PROVE  Decided'
  BY DEF TypeOK, Decided

-----------------------------------------------------------------------------
\* The inductive invariant holds of an interaction that does not exist yet.
THEOREM InitInv == Init => Inv
<1> SUFFICES ASSUME Init PROVE Inv
  OBVIOUS
<1>1. NewTap \in Tap /\ NewTap.phase = "new"
  BY DEF NewTap, Tap, Statuses
<1>2. TypeOK
  <2>1. tap \in [Taps -> Tap]
    BY <1>1 DEF Init
  <2>2. status \in Statuses /\ aborts \in 0..MaxAborts
    BY InteractionAssumption DEF Init, Statuses
  <2>3. expiry \in Expiries \cup {"past"}
    BY DEF Init
  <2> QED
    BY <2>1, <2>2, <2>3 DEF Init, TypeOK
<1>3. Decided
  BY <1>1 DEF Init, Decided
<1>4. ClosedIsContinued /\ TimeoutOnce
  BY DEF Init, ClosedIsContinued, TimeoutOnce
<1> QED
  BY <1>2, <1>3, <1>4 DEF Inv

\* No tap, sweep, turn or loss of a session breaks it.
THEOREM StepInv == Inv /\ [Next]_vars => Inv'
<1> SUFFICES ASSUME Inv, [Next]_vars PROVE Inv'
  OBVIOUS
<1> USE DEF Inv
<1>1. CASE Expire
  <2>1. TypeOK' /\ Decided'
    BY <1>1 DEF Expire, TypeOK, Decided
  <2> QED
    BY <1>1, <2>1, RowAlone DEF Expire
<1>2. ASSUME NEW t \in Taps, Find(t) PROVE Inv'
  <2>1. TypeOK' /\ Decided'
    BY <1>2 DEF Find, TypeOK, Decided, Tap
  <2> QED
    BY <1>2, <2>1, RowAlone DEF Find
<1>3. ASSUME NEW t \in Taps, Time(t) PROVE Inv'
  <2>1. TypeOK' /\ Decided'
    BY <1>3 DEF Time, TypeOK, Decided, Tap
  <2> QED
    BY <1>3, <2>1, RowAlone DEF Time
<1>4. ASSUME NEW t \in Taps, Lock(t) PROVE Inv'
  <2>1. Outcome(tap[t].seen, tap[t].late) \in Statuses \cup {"already_consumed"}
    BY DEF Outcome, Statuses
  <2>2. TypeOK'
    BY <1>4, <2>1 DEF Lock, TypeOK, Tap
  <2>3. Decided'
    BY <1>4 DEF Lock, TypeOK, Decided, Tap
  <2> QED
    BY <1>4, <2>2, <2>3, RowAlone DEF Lock
<1>5. ASSUME NEW t \in Taps, Commit(t) PROVE Inv'
  <2>1. tap[t].phase = "locked"
    BY <1>5 DEF Commit
  <2>2. /\ Written(t) \in Statuses
        /\ Continued(t) \subseteq [reason : Reasons, tap : Taps \cup {"none"}]
    BY <2>1, TapWrites DEF TypeOK, Statuses, Reasons
  <2>3. TypeOK'
    BY <1>5, <2>2 DEF Commit, TypeOK, Tap
  <2>4. Decided'
    BY <1>5 DEF Commit, TypeOK, Decided, Tap
  <2>5. sweep = "idle" /\ sweep' = "idle"
    BY <1>5, <2>1 DEF Decided, Commit
  <2>6. CASE /\ tap[t].outcome = "consumed" /\ Written(t) = "consumed"
             /\ Continued(t) = {[reason |-> "choice", tap |-> t]}
    <3>1. status' = "consumed" /\ choice' = t
          /\ works' = works \cup {[reason |-> "choice", tap |-> t]}
      BY <1>5, <2>6 DEF Commit
    <3> QED
      BY <2>3, <2>4, <2>5, <3>1 DEF ClosedIsContinued, TimeoutOnce
  <2>7. CASE /\ tap[t].outcome = "expired" /\ Written(t) \in {"expired", status}
             /\ Continued(t) = {[reason |-> "expired_on_tap", tap |-> t]}
    <3>1. status' \in {"expired", status} /\ choice' = choice
          /\ works' = works \cup {[reason |-> "expired_on_tap", tap |-> t]}
      BY <1>5, <2>7 DEF Commit
    <3>2. ClosedIsContinued'
      BY <3>1 DEF ClosedIsContinued
    <3>3. TimeoutOnce'
      BY <2>5, <3>1 DEF TimeoutOnce
    <3> QED
      BY <2>3, <2>4, <3>2, <3>3
  <2>8. CASE /\ tap[t].outcome = "already_consumed" /\ Written(t) = status
             /\ Continued(t) = {}
    <3>1. UNCHANGED <<status, choice, works>>
      BY <1>5, <2>8 DEF Commit
    <3> QED
      BY <2>3, <2>4, <2>5, <3>1, RowAlone
  <2> QED
    BY <2>1, <2>6, <2>7, <2>8, TapWrites
<1>6. ASSUME NEW t \in Taps, Abort(t) PROVE Inv'
  <2>1. NewTap \in Tap /\ NewTap.phase = "new"
    BY DEF NewTap, Tap, Statuses
  <2>2. aborts' \in 0..MaxAborts
    BY <1>6, InteractionAssumption DEF Abort, TypeOK
  <2>3. TypeOK'
    BY <1>6, <2>1, <2>2 DEF Abort, TypeOK
  <2>4. Decided'
    BY <1>6, <2>1, TapUndecided DEF Abort
  <2> QED
    BY <1>6, <2>3, <2>4, RowAlone DEF Abort
<1>7. CASE SweepLock
  <2>1. TypeOK'
    BY <1>7 DEF SweepLock, TypeOK
  <2>2. Decided'
    BY <1>7 DEF SweepLock, TapHolds, Decided
  <2>3. ClosedIsContinued' /\ TimeoutOnce'
    BY <1>7 DEF SweepLock, ClosedIsContinued, TimeoutOnce
  <2> QED
    BY <2>1, <2>2, <2>3
<1>8. CASE SweepCommit
  <2>1. TypeOK'
    BY <1>8 DEF SweepCommit, SweptStatus, TypeOK, Statuses, Reasons
  <2>2. Decided'
    BY <1>8 DEF SweepCommit, Decided
  <2>3. status' = "expired" /\ sweep' = "idle"
        /\ [reason |-> "timeout", tap |-> "none"] \in works'
    BY <1>8 DEF SweepCommit, SweptStatus
  <2>4. ClosedIsContinued'
    <3>1. [reason |-> "timeout", tap |-> "none"].reason = "timeout"
      OBVIOUS
    <3> QED
      BY <2>3, <3>1 DEF ClosedIsContinued
  <2>5. TimeoutOnce'
    BY <2>3 DEF TimeoutOnce
  <2> QED
    BY <2>1, <2>2, <2>4, <2>5
<1>9. CASE SweepAbort
  <2>1. TypeOK' /\ Decided'
    BY <1>9, InteractionAssumption DEF SweepAbort, TypeOK, Decided
  <2> QED
    BY <1>9, <2>1, RowAlone DEF SweepAbort
<1>10. CASE UNCHANGED vars
  <2>1. TypeOK' /\ Decided'
    BY <1>10 DEF vars, TypeOK, Decided
  <2> QED
    BY <1>10, <2>1, RowAlone DEF vars
<1> QED
  BY <1>1, <1>2, <1>3, <1>4, <1>5, <1>6, <1>7, <1>8, <1>9, <1>10 DEF Next, Handle

\* Inv holds in every reachable state.
THEOREM InvHolds == Spec => []Inv
  BY InitInv, StepInv, PTL DEF Spec

\* Every variable of Interaction keeps its type.
THEOREM TypeCorrect == Spec => []TypeOK
<1>1. Inv => TypeOK
  BY DEF Inv
<1> QED
  BY <1>1, InvHolds, PTL

\* An interaction that is closed, by a tap or by the recovery loop, has the
\* Work that continues the conversation (interaction/service.py:118).
THEOREM ClosedContinues == Spec => []ClosedIsContinued
<1>1. Inv => ClosedIsContinued
  BY DEF Inv
<1> QED
  BY <1>1, InvHolds, PTL

\* After its timeout no cycle finds the interaction again
\* (interaction/service.py:168).
THEOREM TimeoutIsFinal == Spec => []TimeoutOnce
<1>1. Inv => TimeoutOnce
  BY DEF Inv
<1> QED
  BY <1>1, InvHolds, PTL
=============================================================================
