--------------------------- MODULE SchedulerProofs ---------------------------
(***************************************************************************)
(* Theorems about module Scheduler, for any actions, workers and bounds.   *)
(*                                                                         *)
(* That an action fires once is not a matter of its status: a cancel may   *)
(* overwrite it and a late mark may fail a Work that is completed.  What   *)
(* is inductive is that an action that fired has no Work left to run and   *)
(* none can be made for it: a row the recovery loop holds is nobody        *)
(* else's, and it claims only rows all of whose Works have failed.         *)
(***************************************************************************)
EXTENDS Scheduler, FiniteSetTheorems, TLAPS

\* An open turn runs a Work that was made; while it has not failed that Work is
\* queued.
TurnsRun ==
    \A p \in Workers :
        /\ turn[p].phase # "idle" =>
              /\ turn[p].action \in Actions /\ turn[p].work \in Serial
              /\ works[turn[p].action][turn[p].work] # "absent"
        /\ turn[p].phase \in {"running", "written"} =>
              works[turn[p].action][turn[p].work] = "queued"

\* No two of them run the same Work.
Apart ==
    \A p, q \in Workers :
        /\ turn[p].phase \in {"running", "written"} /\ turn[q].phase \in {"running", "written"}
        /\ turn[p].action = turn[q].action /\ turn[p].work = turn[q].work
        => p = q

TurnsOK == TurnsRun /\ Apart

NoneQueued(a) == \A n \in Serial : works[a][n] # "queued"

\* The Works of a row were made one after the other; a queued one is the row's,
\* and a row that fired is closed and has none.
RowOK(a) ==
    /\ \E k \in 0..MaxWorks : \A n \in Serial : works[a][n] = "absent" <=> n > k
    /\ \A n \in Serial : works[a][n] = "queued" => action[a].work = n
    /\ action[a].status \in {"absent", "pending"} => NoneQueued(a)
    /\ action[a].status \notin {"completed", "cancelled"} => fired[a] = 0
    /\ fired[a] # 0 => NoneQueued(a)
    /\ \A n \in Serial : works[a][n] = "completed" => fired[a] # 0
    /\ fired[a] <= 1

\* A row the recovery loop holds is open, and no other transaction holds it;
\* one it has claimed has no Work left to run.
CycleOK ==
    /\ \A a \in cycle.stuck : action[a].status = "executing"
    /\ \A a \in cycle.claimed : action[a].status \in {"pending", "executing"} /\ NoneQueued(a)
    /\ \A a \in Actions : CycleHolds(a) => ~TurnHolds(a) /\ ~CancelHolds(a)
    /\ cancel.phase # "idle" => cancel.action \in Actions

\* Every Work that failed, or is about to be marked, has cost a failure.
Failed(a) == {n \in Serial :
    \/ works[a][n] = "failed"
    \/ \E p \in Workers : turn[p].phase = "failing" /\ turn[p].action = a /\ turn[p].work = n}

FailuresOK == \A a \in Actions : Cardinality(Failed(a)) <= failures

Inv == TypeOK /\ TurnsOK /\ (\A a \in Actions : RowOK(a)) /\ CycleOK /\ FailuresOK

-----------------------------------------------------------------------------
\* The sets of failed Works are finite, and shrinking keeps the count.
LEMMA FailedFinite ==
  ASSUME NEW S \in SUBSET Serial, NEW T \in SUBSET S
  PROVE  /\ IsFiniteSet(S) /\ Cardinality(S) \in Nat /\ Cardinality(T) \in Nat
         /\ Cardinality(T) <= Cardinality(S)
<1>1. MaxWorks \in Nat /\ IsFiniteSet(Serial)
  BY SchedulerAssumption, FS_Interval DEF Serial
<1>2. IsFiniteSet(S) /\ IsFiniteSet(T)
  BY <1>1, FS_Subset
<1> QED
  BY <1>2, FS_Subset, FS_CardinalityType

\* A step that fails no Work and costs no failure back keeps the count.
LEMMA FailuresKept ==
  ASSUME Inv, failures' \in Nat, failures <= failures',
         \A a \in Actions : Failed(a)' \subseteq Failed(a)
  PROVE  FailuresOK'
<1> SUFFICES ASSUME NEW a \in Actions PROVE Cardinality(Failed(a)') <= failures'
  BY DEF FailuresOK
<1>1. Failed(a) \in SUBSET Serial /\ Failed(a)' \in SUBSET Failed(a)
  BY DEF Failed
<1>2. Cardinality(Failed(a)) \in Nat /\ Cardinality(Failed(a)') \in Nat
      /\ Cardinality(Failed(a)') <= Cardinality(Failed(a))
  BY <1>1, FailedFinite
<1>3. Cardinality(Failed(a)) <= failures /\ failures \in Nat
  BY SchedulerAssumption DEF Inv, FailuresOK, TypeOK
<1> QED
  BY <1>2, <1>3

\* The Work made for a claimed row: every earlier one has failed, so there is
\* one, and it is the next.
LEMMA MadeIsNext ==
  ASSUME Inv, NEW a \in Actions, a \in cycle.claimed
  PROVE  \E k \in 0..(MaxWorks - 1) :
            /\ Made(a) = k + 1 /\ Made(a) \in Serial
            /\ \A n \in Serial : works[a][n] = "absent" <=> n > k
<1>0. MaxWorks \in Nat /\ MaxFailures \in Nat /\ MaxWorks > MaxFailures
  BY SchedulerAssumption
<1>1. PICK k \in 0..MaxWorks : \A n \in Serial : works[a][n] = "absent" <=> n > k
  BY DEF Inv, RowOK
<1>2. NoneQueued(a) /\ fired[a] = 0
  BY DEF Inv, CycleOK, RowOK
<1>3. \A n \in 1..k : n \in Serial /\ works[a][n] = "failed"
  <2> SUFFICES ASSUME NEW n \in 1..k PROVE n \in Serial /\ works[a][n] = "failed"
    OBVIOUS
  <2>1. n \in Serial /\ ~(n > k)
    BY <1>0 DEF Serial
  <2>2. works[a][n] # "absent" /\ works[a][n] # "queued" /\ works[a][n] # "completed"
    BY <1>1, <1>2, <2>1 DEF NoneQueued, Inv, RowOK
  <2>3. works[a][n] \in {"absent", "queued", "completed", "failed"}
    BY <2>1 DEF Inv, TypeOK
  <2> QED
    BY <2>1, <2>2, <2>3
<1>4. 1..k \subseteq Failed(a)
  BY <1>3 DEF Failed
<1>5. Cardinality(1..k) = k
  BY <1>0, FS_Interval
<1>6. k <= failures
  <2>1. Failed(a) \in SUBSET Serial
    BY DEF Failed
  <2>2. Cardinality(Failed(a)) \in Nat /\ k <= Cardinality(Failed(a))
    BY <1>4, <1>5, <2>1, FailedFinite
  <2>3. failures \in Nat /\ Cardinality(Failed(a)) <= failures
    BY <1>0 DEF Inv, FailuresOK, TypeOK
  <2> QED
    BY <2>2, <2>3
<1>7. k \in 0..(MaxWorks - 1) /\ k + 1 \in Serial
  BY <1>0, <1>6 DEF Inv, TypeOK, Serial
<1>8. \A n \in Serial :
        (works[a][n] = "absent" /\ \A i \in 1..(n - 1) : works[a][i] # "absent") <=> n = k + 1
  <2> SUFFICES ASSUME NEW n \in Serial
               PROVE  (works[a][n] = "absent" /\ \A i \in 1..(n - 1) : works[a][i] # "absent")
                         <=> n = k + 1
    OBVIOUS
  <2>1. CASE n = k + 1
    <3>1. works[a][n] = "absent"
      BY <1>1, <2>1
    <3>2. \A i \in 1..(n - 1) : works[a][i] # "absent"
      BY <1>3, <2>1
    <3> QED
      BY <2>1, <3>1, <3>2
  <2>2. CASE n > k + 1
    <3>1. k + 1 \in 1..(n - 1) /\ works[a][k + 1] = "absent"
      BY <1>1, <1>7, <2>2 DEF Serial
    <3> QED
      BY <2>2, <3>1
  <2>3. CASE n < k + 1
    <3>1. ~(n > k)
      BY <2>3 DEF Serial
    <3> QED
      BY <1>1, <2>3, <3>1 DEF Serial
  <2> QED
    BY <2>1, <2>2, <2>3 DEF Serial
<1>9. Made(a) = k + 1
  BY <1>7, <1>8 DEF Made
<1> QED
  BY <1>1, <1>7, <1>9

-----------------------------------------------------------------------------
\* A row whose Works, work_id and turns are left alone stays sound when it is
\* scheduled or cancelled.
LEMMA RowKept ==
  ASSUME NEW a \in Actions, RowOK(a), works'[a] = works[a], fired'[a] = fired[a],
         action'[a].work = action[a].work,
         \/ action'[a].status \in {action[a].status, "cancelled"}
         \/ action[a].status = "absent" /\ action'[a].status = "pending"
  PROVE  RowOK(a)'
  BY DEF RowOK, NoneQueued

\* Open turns that only move on, or end, still run Works that were made.
LEMMA TurnsKept ==
  ASSUME TurnsOK, UNCHANGED works,
         \A p \in Workers :
            \/ turn'[p].phase = "idle"
            \/ /\ turn[p].phase # "idle"
               /\ turn'[p].action = turn[p].action /\ turn'[p].work = turn[p].work
               /\ turn'[p].phase \in {"running", "written"} =>
                     turn[p].phase \in {"running", "written"}
  PROVE  TurnsOK'
<1>1. Apart'
  BY DEF TurnsOK, Apart
<1>2. ASSUME NEW p \in Workers
      PROVE  /\ turn'[p].phase # "idle" =>
                   /\ turn'[p].action \in Actions /\ turn'[p].work \in Serial
                   /\ works'[turn'[p].action][turn'[p].work] # "absent"
             /\ turn'[p].phase \in {"running", "written"} =>
                   works'[turn'[p].action][turn'[p].work] = "queued"
  BY DEF TurnsOK, TurnsRun
<1> QED
  BY <1>1, <1>2 DEF TurnsOK, TurnsRun

\* A step that takes no row the recovery loop holds, nor changes its status.
LEMMA CycleKept ==
  ASSUME CycleOK, UNCHANGED <<works, cycle>>,
         \A a \in Actions : CycleHolds(a) =>
            /\ action'[a].status = action[a].status
            /\ TurnHolds(a)' => TurnHolds(a)
            /\ CancelHolds(a)' => CancelHolds(a),
         cycle \in Cycle,
         cancel'.phase # "idle" => cancel'.action \in Actions
  PROVE  CycleOK'
<1>1. cycle.stuck \subseteq Actions /\ cycle.claimed \subseteq Actions
  BY DEF Cycle
<1>2. \A a \in Actions : CycleHolds(a) => ~TurnHolds(a)' /\ ~CancelHolds(a)'
  BY DEF CycleOK
<1>3. \A a \in cycle.stuck : action'[a].status = "executing"
  BY <1>1 DEF CycleOK, CycleHolds
<1>4. \A a \in cycle.claimed : action'[a].status \in {"pending", "executing"} /\ NoneQueued(a)'
  BY <1>1 DEF CycleOK, CycleHolds, NoneQueued
<1> QED
  BY <1>2, <1>3, <1>4 DEF CycleOK, CycleHolds

\* A step of the tables' readers: no Work fails, no turn does.
LEMMA FailuresAlone ==
  ASSUME Inv, UNCHANGED works, failures' \in {failures, failures + 1},
         \A p \in Workers : turn'[p].phase = "failing" => turn'[p] = turn[p]
  PROVE  FailuresOK'
<1>1. failures \in Nat /\ failures' \in Nat /\ failures <= failures'
  BY SchedulerAssumption DEF Inv, TypeOK
<1>2. \A a \in Actions : Failed(a)' \subseteq Failed(a)
  BY DEF Failed
<1> QED
  BY <1>1, <1>2, FailuresKept

-----------------------------------------------------------------------------
\* Nothing is scheduled at the start.
THEOREM InitInv == Init => Inv
<1> SUFFICES ASSUME Init PROVE Inv
  OBVIOUS
<1>0. MaxFailures \in Nat /\ MaxWorks \in Nat
  BY SchedulerAssumption
<1>1. TypeOK
  <2>1. action \in [Actions -> ActionRow]
    BY DEF Init, NewAction, ActionRow
  <2>2. turn \in [Workers -> Turn]
    BY DEF Init, IdleTurn, Turn
  <2>3. cycle \in Cycle /\ cancel \in Cancel
    BY DEF Init, IdleCycle, Cycle, IdleCancel, Cancel
  <2>4. works \in [Actions -> [Serial -> {"absent", "queued", "completed", "failed"}]]
    BY DEF Init
  <2>5. fired \in [Actions -> Nat] /\ failures \in 0..MaxFailures
    BY <1>0 DEF Init
  <2> QED
    BY <2>1, <2>2, <2>3, <2>4, <2>5 DEF TypeOK
<1>2. TurnsOK
  BY DEF Init, TurnsOK, TurnsRun, Apart, IdleTurn
<1>3. ASSUME NEW a \in Actions PROVE RowOK(a)
  <2>1. \A n \in Serial : works[a][n] = "absent" /\ n > 0
    BY <1>0 DEF Init, Serial
  <2>2. fired[a] = 0
    BY DEF Init
  <2> QED
    BY <1>0, <2>1, <2>2 DEF RowOK, NoneQueued
<1>4. CycleOK
  BY DEF Init, CycleOK, CycleHolds, IdleCycle, IdleCancel
<1>5. FailuresOK
  <2> SUFFICES ASSUME NEW a \in Actions PROVE Cardinality(Failed(a)) <= failures
    BY DEF FailuresOK
  <2>1. Failed(a) = {}
    BY DEF Init, Failed, IdleTurn
  <2>2. Cardinality({}) = 0
    BY FS_EmptySet
  <2>3. Cardinality(Failed(a)) = 0 /\ failures = 0
    BY <2>1, <2>2 DEF Init
  <2> QED
    BY <2>3
<1> QED
  BY <1>1, <1>2, <1>3, <1>4, <1>5 DEF Inv

\* No turn and no step of the recovery cycle breaks the invariant.
THEOREM StepInv == Inv /\ [Next]_vars => Inv'
<1> SUFFICES ASSUME Inv, [Next]_vars PROVE Inv'
  OBVIOUS
<1> USE DEF Inv
<1>0. MaxFailures \in Nat /\ MaxWorks \in Nat /\ MayCancel \subseteq Actions
      /\ failures \in 0..MaxFailures /\ cycle \in Cycle
  BY SchedulerAssumption DEF TypeOK
<1>1. ASSUME NEW a \in Actions, Schedule(a) PROVE Inv'
  <2>1. TypeOK'
    BY <1>1 DEF Schedule, TypeOK, NewAction, ActionRow
  <2>2. TurnsOK'
    BY <1>1, TurnsKept DEF Schedule
  <2>3. ASSUME NEW b \in Actions PROVE RowOK(b)'
    <3>1. CASE b = a
      <4>1. action'[a].status = "pending" /\ action'[a].work = 0
        BY <1>1 DEF Schedule, NewAction, TypeOK
      <4>2. NoneQueued(a) /\ fired[a] = 0
        BY <1>1 DEF Schedule, RowOK
      <4> QED
        BY <1>1, <3>1, <4>1, <4>2 DEF Schedule, RowOK, NoneQueued
    <3>2. CASE b # a
      <4>1. action'[b] = action[b]
        BY <1>1, <3>2 DEF Schedule, TypeOK
      <4> QED
        BY <1>1, <4>1, RowKept DEF Schedule
    <3> QED
      BY <3>1, <3>2
  <2>4. CycleOK'
    <3>1. ~CycleHolds(a)
      BY <1>1 DEF Schedule, CycleOK, CycleHolds
    <3>2. \A b \in Actions : CycleHolds(b) => action'[b] = action[b]
      BY <1>1, <3>1 DEF Schedule, TypeOK
    <3> QED
      BY <1>0, <1>1, <3>2, CycleKept DEF Schedule, CycleOK, TurnHolds, CancelHolds
  <2>5. FailuresOK'
    BY <1>1, FailuresAlone DEF Schedule
  <2> QED
    BY <2>1, <2>2, <2>3, <2>4, <2>5
<1>2. ASSUME NEW a \in Actions, Pass(a) PROVE Inv'
  <2>0. action[a] \in ActionRow
    BY DEF TypeOK
  <2>1. \E row \in ActionRow : /\ action' = [action EXCEPT ![a] = row]
                              /\ row.status = action[a].status /\ row.work = action[a].work
    <3>1. CASE action' = [action EXCEPT ![a].due = TRUE]
      <4>1. action' = [action EXCEPT ![a] = [action[a] EXCEPT !.due = TRUE]]
        BY <3>1
      <4>2. [action[a] EXCEPT !.due = TRUE] \in ActionRow
        BY <2>0 DEF ActionRow
      <4> QED
        BY <2>0, <4>1, <4>2 DEF ActionRow
    <3>2. CASE action' = [action EXCEPT ![a].overdue = TRUE]
      <4>1. action' = [action EXCEPT ![a] = [action[a] EXCEPT !.overdue = TRUE]]
        BY <3>2
      <4>2. [action[a] EXCEPT !.overdue = TRUE] \in ActionRow
        BY <2>0 DEF ActionRow
      <4> QED
        BY <2>0, <4>1, <4>2 DEF ActionRow
    <3> QED
      BY <1>2, <3>1, <3>2 DEF Pass
  <2>2. TypeOK' /\ \A b \in Actions :
          action'[b].status = action[b].status /\ action'[b].work = action[b].work
    BY <1>2, <2>1 DEF Pass, TypeOK
  <2>3. TurnsOK'
    BY <1>2, TurnsKept DEF Pass
  <2>4. \A b \in Actions : RowOK(b)'
    BY <1>2, <2>2, RowKept DEF Pass
  <2>5. CycleOK'
    BY <1>0, <1>2, <2>2, CycleKept DEF Pass, CycleOK, TurnHolds, CancelHolds
  <2>6. FailuresOK'
    BY <1>2, FailuresAlone DEF Pass
  <2> QED
    BY <2>2, <2>3, <2>4, <2>5, <2>6
<1>3. ASSUME NEW a \in Actions, CancelRead(a) PROVE Inv'
  <2>1. TypeOK'
    BY <1>3 DEF CancelRead, TypeOK, Cancel
  <2>2. cancel' = [phase |-> "read", action |-> a]
    BY <1>3 DEF CancelRead
  <2>3. TurnsOK'
    BY <1>3, TurnsKept DEF CancelRead
  <2>4. \A b \in Actions : RowOK(b)'
    BY <1>3, RowKept DEF CancelRead
  <2>5. CycleOK'
    BY <1>0, <1>3, <2>2, CycleKept DEF CancelRead, TurnHolds, CancelHolds
  <2>6. FailuresOK'
    BY <1>3, FailuresAlone DEF CancelRead
  <2> QED
    BY <2>1, <2>3, <2>4, <2>5, <2>6
<1>4. CASE LockStuck
  <2>1. cycle' = [cycle EXCEPT !.phase = "locked",
                               !.stuck = {a \in Actions :
                    /\ action[a].status = "executing" /\ action[a].overdue
                    /\ ~TurnHolds(a) /\ ~CancelHolds(a)}]
    BY <1>4 DEF LockStuck
  <2>2. TypeOK'
    BY <1>4 DEF LockStuck, TypeOK, Cycle
  <2>3. TurnsOK'
    BY <1>4, TurnsKept DEF LockStuck
  <2>4. \A b \in Actions : RowOK(b)'
    BY <1>4, RowKept DEF LockStuck
  <2>5. CycleOK'
    <3>1. cycle'.claimed = cycle.claimed
          /\ \A a \in cycle'.stuck : action[a].status = "executing"
                                     /\ ~TurnHolds(a) /\ ~CancelHolds(a)
      BY <1>0, <2>1 DEF Cycle
    <3>2. UNCHANGED <<action, works, turn, cancel>>
      BY <1>4 DEF LockStuck
    <3>3. \A a \in Actions : CycleHolds(a)' => ~TurnHolds(a)' /\ ~CancelHolds(a)'
      BY <3>1, <3>2 DEF CycleOK, CycleHolds, TurnHolds, CancelHolds
    <3> QED
      BY <3>1, <3>2, <3>3 DEF CycleOK, NoneQueued
  <2>6. FailuresOK'
    BY <1>4, FailuresAlone DEF LockStuck
  <2> QED
    BY <2>2, <2>3, <2>4, <2>5, <2>6
<1>5. CASE Wake
  <2>1. cycle' = [cycle EXCEPT !.phase = "claimed",
                               !.claimed = {a \in Actions :
                    \/ Reset(a)
                    \/ Due(a) /\ ~TurnHolds(a) /\ ~CancelHolds(a)}]
    BY <1>5 DEF Wake
  <2>2. TypeOK'
    BY <1>5 DEF Wake, TypeOK, Cycle
  <2>3. TurnsOK'
    BY <1>5, TurnsKept DEF Wake
  <2>4. \A b \in Actions : RowOK(b)'
    BY <1>5, RowKept DEF Wake
  <2>5. CycleOK'
    <3>0. cycle'.stuck = cycle.stuck
          /\ cycle'.claimed = {a \in Actions :
                \/ Reset(a)
                \/ Due(a) /\ ~TurnHolds(a) /\ ~CancelHolds(a)}
      BY <1>0, <2>1 DEF Cycle
    <3>1. ASSUME NEW a \in cycle'.claimed
          PROVE  a \in Actions /\
                    (Reset(a) \/ (Due(a) /\ ~TurnHolds(a) /\ ~CancelHolds(a)))
      BY ONLY <3>0, <3>1
    <3>2. UNCHANGED <<action, works, turn, cancel>>
      BY <1>5 DEF Wake
    <3>3. ASSUME NEW a \in Actions, Reset(a)
          PROVE  action[a].status = "executing" /\ NoneQueued(a)
      <4>1. action[a].status = "executing"
        BY <3>3 DEF Reset, CycleOK
      <4>2. ASSUME NEW n \in Serial, works[a][n] = "queued" PROVE FALSE
        <5>1. action[a].work = n /\ n # 0
          BY <4>2 DEF RowOK, Serial
        <5> QED
          BY <3>3, <4>2, <5>1 DEF Reset
      <4> QED
        BY <4>1, <4>2 DEF NoneQueued
    <3>4. ASSUME NEW a \in Actions, Due(a)
          PROVE  action[a].status = "pending" /\ NoneQueued(a)
      BY <3>4 DEF Due, RowOK
    <3>5. \A a \in Actions : CycleHolds(a)' => ~TurnHolds(a)' /\ ~CancelHolds(a)'
      BY <3>0, <3>1, <3>2 DEF CycleOK, CycleHolds, TurnHolds, CancelHolds, Reset
    <3> QED
      BY <3>0, <3>1, <3>2, <3>3, <3>4, <3>5 DEF CycleOK, NoneQueued
  <2>6. FailuresOK'
    BY <1>5, FailuresAlone DEF Wake
  <2> QED
    BY <2>2, <2>3, <2>4, <2>5, <2>6
<1>6. CASE CommitCycle
  <2>1. \A a \in Actions : action'[a] = IF a \in cycle.claimed
                    THEN [action[a] EXCEPT !.status = "executing", !.work = Made(a)]
                    ELSE action[a]
    BY <1>6 DEF CommitCycle
  <2>2. \A a \in Actions : works'[a] = IF a \in cycle.claimed
                    THEN [works[a] EXCEPT ![Made(a)] = "queued"] ELSE works[a]
    BY <1>6 DEF CommitCycle
  <2>3. UNCHANGED <<turn, cancel, fired, failures>> /\ cycle' = IdleCycle
    BY <1>6 DEF CommitCycle
  <2>4. TypeOK'
    <3>1. ASSUME NEW a \in Actions PROVE action'[a] \in ActionRow
      <4>1. action[a] \in ActionRow
        BY DEF TypeOK
      <4>2. CASE a \in cycle.claimed
        <5>1. Made(a) \in Serial
          BY <4>2, MadeIsNext
        <5> QED
          BY <2>1, <4>1, <4>2, <5>1 DEF ActionRow
      <4> QED
        BY <2>1, <4>1, <4>2
    <3>2. ASSUME NEW a \in Actions
          PROVE  works'[a] \in [Serial -> {"absent", "queued", "completed", "failed"}]
      BY <2>2 DEF TypeOK
    <3>3. action' \in [Actions -> ActionRow]
          /\ works' \in [Actions -> [Serial -> {"absent", "queued", "completed", "failed"}]]
      BY <1>6, <3>1, <3>2 DEF CommitCycle
    <3>4. cycle' \in Cycle
      BY <2>3 DEF IdleCycle, Cycle
    <3> QED
      BY <2>3, <3>3, <3>4 DEF TypeOK
  <2>5. \A a \in Actions, n \in Serial :
           \/ works'[a][n] = works[a][n]
           \/ a \in cycle.claimed /\ n = Made(a) /\ works'[a][n] = "queued"
    BY <2>2 DEF TypeOK
  <2>6. TurnsOK'
    BY <2>3, <2>5 DEF TurnsOK, TurnsRun, Apart
  <2>7. ASSUME NEW a \in Actions PROVE RowOK(a)'
    <3>1. CASE a \notin cycle.claimed
      BY <2>1, <2>2, <2>3, <3>1, RowKept
    <3>2. CASE a \in cycle.claimed
      <4>1. PICK k \in 0..(MaxWorks - 1) :
               /\ Made(a) = k + 1 /\ Made(a) \in Serial
               /\ \A n \in Serial : works[a][n] = "absent" <=> n > k
        BY <3>2, MadeIsNext
      <4>2. \A n \in Serial : works'[a][n] = IF n = k + 1 THEN "queued" ELSE works[a][n]
        BY <2>2, <3>2, <4>1 DEF TypeOK
      <4>3. action'[a].status = "executing" /\ action'[a].work = k + 1
        BY <2>1, <3>2, <4>1 DEF TypeOK, ActionRow
      <4>4. NoneQueued(a) /\ fired[a] = 0 /\ fired'[a] = 0
        BY <2>3, <3>2 DEF CycleOK, RowOK
      <4>5. \A n \in Serial : works'[a][n] = "absent" <=> n > k + 1
        BY <4>1, <4>2 DEF Serial
      <4>6. \A n \in Serial : works'[a][n] = "queued" => action'[a].work = n
        BY <4>2, <4>3, <4>4 DEF NoneQueued
      <4>7. \A n \in Serial : works'[a][n] = "completed" => fired'[a] # 0
        BY <2>3, <4>2 DEF RowOK
      <4>8. k + 1 \in 0..MaxWorks
        BY <1>0
      <4> QED
        BY <4>3, <4>4, <4>5, <4>6, <4>7, <4>8 DEF RowOK
    <3> QED
      BY <3>1, <3>2
  <2>8. CycleOK'
    BY <2>3 DEF CycleOK, CycleHolds, IdleCycle
  <2>9. FailuresOK'
    <3>1. \A a \in Actions : Failed(a)' \subseteq Failed(a)
      BY <2>3, <2>5 DEF Failed
    <3> QED
      BY <1>0, <2>3, <3>1, FailuresKept
  <2> QED
    BY <2>4, <2>6, <2>7, <2>8, <2>9
<1>7. CASE AbortCycle
  <2>1. cycle' = IdleCycle /\ failures' = failures + 1 /\ failures < MaxFailures
        /\ UNCHANGED <<action, works, turn, cancel, fired>>
    BY <1>7 DEF AbortCycle
  <2>2. TypeOK'
    BY <1>0, <2>1 DEF TypeOK, IdleCycle, Cycle
  <2>3. TurnsOK'
    BY <2>1, TurnsKept
  <2>4. \A b \in Actions : RowOK(b)'
    BY <2>1, RowKept
  <2>5. CycleOK'
    BY <2>1 DEF CycleOK, CycleHolds, IdleCycle
  <2>6. FailuresOK'
    BY <2>1, FailuresAlone
  <2> QED
    BY <2>2, <2>3, <2>4, <2>5, <2>6
<1>8. ASSUME NEW p \in Workers, NEW a \in Actions, NEW n \in Serial, Claim(p, a, n)
      PROVE  Inv'
  <2>1. \A q \in Workers : turn'[q] = IF q = p
           THEN [phase |-> "running", action |-> a, work |-> n] ELSE turn[q]
    BY <1>8 DEF Claim, TypeOK
  <2>2. UNCHANGED <<action, works, cycle, cancel, fired, failures>> /\ works[a][n] = "queued"
        /\ turn[p].phase = "idle" /\ ~Held(a, n)
    BY <1>8 DEF Claim
  <2>3. TypeOK'
    BY <1>8 DEF Claim, TypeOK, Turn
  <2>4. TurnsOK'
    BY <2>1, <2>2 DEF TurnsOK, TurnsRun, Apart, Held
  <2>5. \A b \in Actions : RowOK(b)'
    BY <2>2, RowKept
  <2>6. CycleOK'
    <3>1. \A b \in Actions : TurnHolds(b)' => TurnHolds(b)
      BY <2>1 DEF TurnHolds
    <3> QED
      BY <1>0, <2>2, <3>1, CycleKept DEF CycleOK, CancelHolds
  <2>7. FailuresOK'
    BY <2>1, <2>2, FailuresAlone
  <2> QED
    BY <2>3, <2>4, <2>5, <2>6, <2>7
<1>9. ASSUME NEW p \in Workers, Write(p) PROVE Inv'
  <2>0. turn[p] \in Turn /\ turn[p].phase = "running"
    BY <1>9 DEF Write, TypeOK
  <2>1. \A q \in Workers : turn'[q] = IF q = p
           THEN [turn[p] EXCEPT !.phase = "written"] ELSE turn[q]
    BY <1>9 DEF Write, TypeOK
  <2>2. UNCHANGED <<action, works, cycle, cancel, fired, failures>>
        /\ ~CycleHolds(turn[p].action)
    BY <1>9 DEF Write
  <2>3. TypeOK'
    BY <1>9, <2>0 DEF Write, TypeOK, Turn
  <2>4. TurnsOK'
    BY <2>0, <2>1, <2>2, TurnsKept DEF Turn
  <2>5. \A b \in Actions : RowOK(b)'
    BY <2>2, RowKept
  <2>6. CycleOK'
    <3>1. \A b \in Actions : TurnHolds(b)' => TurnHolds(b) \/ b = turn[p].action
      BY <2>0, <2>1 DEF TurnHolds, Turn
    <3> QED
      BY <1>0, <2>2, <3>1, CycleKept DEF CycleOK, CancelHolds
  <2>7. FailuresOK'
    BY <2>0, <2>1, <2>2, FailuresAlone DEF Turn
  <2> QED
    BY <2>3, <2>4, <2>5, <2>6, <2>7
<1>10. ASSUME NEW p \in Workers, Commit(p) PROVE Inv'
  <2> DEFINE a == turn[p].action
             n == turn[p].work
  <2>0. turn[p] \in Turn /\ turn[p].phase = "written" /\ a \in Actions /\ n \in Serial
        /\ works[a][n] = "queued" /\ TurnHolds(a)
    BY <1>10 DEF Commit, TypeOK, TurnsOK, TurnsRun, TurnHolds
  <2>1. \A q \in Workers : turn'[q] = IF q = p THEN IdleTurn ELSE turn[q]
    BY <1>10 DEF Commit, TypeOK
  <2>2. \A b \in Actions, m \in Serial :
          works'[b][m] = IF b = a /\ m = n THEN "completed" ELSE works[b][m]
    BY <1>10, <2>0 DEF Commit, TypeOK
  <2>3. \A b \in Actions :
          /\ action'[b] = IF b = a THEN [action[a] EXCEPT !.status = "completed"] ELSE action[b]
          /\ fired'[b] = IF b = a THEN fired[a] + 1 ELSE fired[b]
    BY <1>10, <2>0 DEF Commit, Completed, TypeOK
  <2>4. UNCHANGED <<cycle, cancel, failures>>
    BY <1>10 DEF Commit
  <2>5. fired[a] = 0 /\ action[a].work = n
    BY <2>0 DEF RowOK, NoneQueued
  <2>6. TypeOK'
    <3>1. action' \in [Actions -> ActionRow]
      BY <1>10, <2>0 DEF Commit, Completed, TypeOK, ActionRow
    <3>2. turn' \in [Workers -> Turn]
      BY <1>10 DEF Commit, TypeOK, IdleTurn, Turn
    <3>3. works' \in [Actions -> [Serial -> {"absent", "queued", "completed", "failed"}]]
      BY <1>10 DEF Commit, TypeOK
    <3>4. fired' \in [Actions -> Nat]
      BY <1>10, <2>0 DEF Commit, TypeOK
    <3> QED
      BY <2>4, <3>1, <3>2, <3>3, <3>4 DEF TypeOK
  <2>7. TurnsOK'
    <3>0. Apart'
      BY <2>1 DEF TurnsOK, Apart, IdleTurn
    <3> SUFFICES ASSUME NEW q \in Workers, turn'[q].phase # "idle"
                 PROVE  /\ turn'[q].action \in Actions /\ turn'[q].work \in Serial
                        /\ works'[turn'[q].action][turn'[q].work] # "absent"
                        /\ turn'[q].phase \in {"running", "written"} =>
                              works'[turn'[q].action][turn'[q].work] = "queued"
      BY <3>0 DEF TurnsOK, TurnsRun
    <3>1. q # p /\ turn'[q] = turn[q]
      BY <2>1 DEF IdleTurn
    <3>2. ~(turn[q].phase \in {"running", "written"} /\ turn[q].action = a /\ turn[q].work = n)
      BY <2>0, <3>1 DEF TurnsOK, Apart
    <3> QED
      BY <2>2, <3>1, <3>2 DEF TurnsOK, TurnsRun
  <2>8. ASSUME NEW b \in Actions PROVE RowOK(b)'
    <3>1. CASE b # a
      BY <2>2, <2>3, <3>1 DEF RowOK, NoneQueued
    <3>2. CASE b = a
      <4>1. action'[a].status = "completed" /\ action'[a].work = n /\ fired'[a] = 1
        BY <2>0, <2>3, <2>5 DEF TypeOK, ActionRow
      <4>2. \A m \in Serial : works'[a][m] # "queued"
        BY <2>0, <2>2, <2>5 DEF RowOK
      <4>3. \A m \in Serial : works'[a][m] = "absent" <=> works[a][m] = "absent"
        BY <2>0, <2>2
      <4>4. \E k \in 0..MaxWorks : \A m \in Serial : works'[a][m] = "absent" <=> m > k
        BY <2>0, <4>3 DEF RowOK
      <4> QED
        BY <3>2, <4>1, <4>2, <4>4 DEF RowOK, NoneQueued
    <3> QED
      BY <3>1, <3>2
  <2>9. CycleOK'
    <3>1. \A b \in Actions : TurnHolds(b)' => TurnHolds(b)
      BY <2>1 DEF TurnHolds, IdleTurn
    <3>2. ~CycleHolds(a)
      BY <2>0 DEF CycleOK
    <3>3. \A b \in Actions : CycleHolds(b) => action'[b] = action[b]
      BY <2>3, <3>2
    <3>4. \A b \in Actions : NoneQueued(b) => NoneQueued(b)'
      BY <2>2 DEF NoneQueued
    <3>5. cycle.stuck \subseteq Actions /\ cycle.claimed \subseteq Actions
      BY <1>0 DEF Cycle
    <3> QED
      BY <2>4, <3>1, <3>3, <3>4, <3>5 DEF CycleOK, CycleHolds, CancelHolds
  <2>10. FailuresOK'
    <3>1. \A b \in Actions : Failed(b)' \subseteq Failed(b)
      BY <2>1, <2>2 DEF Failed, IdleTurn
    <3> QED
      BY <1>0, <2>4, <3>1, FailuresKept
  <2> QED
    BY <2>6, <2>7, <2>8, <2>9, <2>10
<1>11. ASSUME NEW p \in Workers, Fail(p) PROVE Inv'
  <2> DEFINE a == turn[p].action
             n == turn[p].work
  <2>0. turn[p] \in Turn /\ turn[p].phase \in {"running", "written"}
        /\ a \in Actions /\ n \in Serial
    BY <1>11 DEF Fail, TypeOK, TurnsOK, TurnsRun
  <2>1. \A q \in Workers : turn'[q] = IF q = p
           THEN [turn[p] EXCEPT !.phase = "failing"] ELSE turn[q]
    BY <1>11 DEF Fail, TypeOK
  <2>2. UNCHANGED <<action, works, cycle, cancel, fired>> /\ failures' = failures + 1
        /\ failures < MaxFailures
    BY <1>11 DEF Fail
  <2>3. TypeOK'
    <3>1. turn' \in [Workers -> Turn]
      BY <1>11, <2>0 DEF Fail, TypeOK, Turn
    <3> QED
      BY <1>0, <2>2, <3>1 DEF TypeOK
  <2>4. TurnsOK'
    BY <2>0, <2>1, <2>2, TurnsKept DEF Turn
  <2>5. \A b \in Actions : RowOK(b)'
    BY <2>2, RowKept
  <2>6. CycleOK'
    <3>1. \A b \in Actions : TurnHolds(b)' => TurnHolds(b)
      BY <2>0, <2>1 DEF TurnHolds, Turn
    <3> QED
      BY <1>0, <2>2, <3>1, CycleKept DEF CycleOK, CancelHolds
  <2>7. FailuresOK'
    <3> SUFFICES ASSUME NEW b \in Actions PROVE Cardinality(Failed(b)') <= failures'
      BY DEF FailuresOK
    <3>1. Failed(b)' \subseteq Failed(b) \cup {n}
      BY <2>0, <2>1, <2>2 DEF Failed, Turn
    <3>2. Failed(b) \in SUBSET Serial /\ Failed(b) \cup {n} \in SUBSET Serial
      BY <2>0 DEF Failed
    <3>3. IsFiniteSet(Failed(b)) /\ Cardinality(Failed(b)) \in Nat
          /\ Cardinality(Failed(b)') \in Nat
          /\ Cardinality(Failed(b)') <= Cardinality(Failed(b) \cup {n})
      BY <3>1, <3>2, FailedFinite
    <3>4. Cardinality(Failed(b) \cup {n}) =
             IF n \in Failed(b) THEN Cardinality(Failed(b)) ELSE Cardinality(Failed(b)) + 1
      BY <3>3, FS_AddElement
    <3>5. Cardinality(Failed(b)) <= failures /\ failures \in Nat
      BY <1>0 DEF FailuresOK
    <3> QED
      BY <2>2, <3>3, <3>4, <3>5
  <2> QED
    BY <2>3, <2>4, <2>5, <2>6, <2>7
<1>12. ASSUME NEW p \in Workers, Mark(p) PROVE Inv'
  <2> DEFINE a == turn[p].action
             n == turn[p].work
  <2>0. turn[p] \in Turn /\ turn[p].phase = "failing" /\ a \in Actions /\ n \in Serial
        /\ works[a][n] # "absent" /\ ~Held(a, n)
    BY <1>12 DEF Mark, TypeOK, TurnsOK, TurnsRun
  <2>1. \A q \in Workers : turn'[q] = IF q = p THEN IdleTurn ELSE turn[q]
    BY <1>12 DEF Mark, TypeOK
  <2>2. \A b \in Actions, m \in Serial :
          works'[b][m] = IF b = a /\ m = n THEN "failed" ELSE works[b][m]
    BY <1>12, <2>0 DEF Mark, TypeOK
  <2>3. UNCHANGED <<action, cycle, cancel, fired, failures>>
    BY <1>12 DEF Mark
  <2>4. TypeOK'
    <3>1. turn' \in [Workers -> Turn]
      BY <1>12 DEF Mark, TypeOK, IdleTurn, Turn
    <3>2. works' \in [Actions -> [Serial -> {"absent", "queued", "completed", "failed"}]]
      BY <1>12 DEF Mark, TypeOK
    <3> QED
      BY <2>3, <3>1, <3>2 DEF TypeOK
  <2>5. TurnsOK'
    <3>0. Apart'
      BY <2>1 DEF TurnsOK, Apart, IdleTurn
    <3> SUFFICES ASSUME NEW q \in Workers, turn'[q].phase # "idle"
                 PROVE  /\ turn'[q].action \in Actions /\ turn'[q].work \in Serial
                        /\ works'[turn'[q].action][turn'[q].work] # "absent"
                        /\ turn'[q].phase \in {"running", "written"} =>
                              works'[turn'[q].action][turn'[q].work] = "queued"
      BY <3>0 DEF TurnsOK, TurnsRun
    <3>1. q # p /\ turn'[q] = turn[q]
      BY <2>1 DEF IdleTurn
    <3>2. ~(turn[q].phase \in {"running", "written"} /\ turn[q].action = a /\ turn[q].work = n)
      BY <2>0 DEF Held
    <3> QED
      BY <2>2, <3>1, <3>2 DEF TurnsOK, TurnsRun
  <2>6. ASSUME NEW b \in Actions PROVE RowOK(b)'
    <3>1. \A m \in Serial : /\ works'[b][m] = "absent" <=> works[b][m] = "absent"
                            /\ works'[b][m] = "queued" => works[b][m] = "queued"
                            /\ works'[b][m] = "completed" => works[b][m] = "completed"
      BY <2>0, <2>2
    <3>2. \E k \in 0..MaxWorks : \A m \in Serial : works'[b][m] = "absent" <=> m > k
      BY <3>1 DEF RowOK
    <3> QED
      BY <2>3, <3>1, <3>2 DEF RowOK, NoneQueued
  <2>7. CycleOK'
    <3>1. \A b \in Actions : TurnHolds(b)' => TurnHolds(b)
      BY <2>1 DEF TurnHolds, IdleTurn
    <3>2. \A b \in Actions : NoneQueued(b) => NoneQueued(b)'
      BY <2>2 DEF NoneQueued
    <3>3. cycle.stuck \subseteq Actions /\ cycle.claimed \subseteq Actions
      BY <1>0 DEF Cycle
    <3> QED
      BY <2>3, <3>1, <3>2, <3>3 DEF CycleOK, CycleHolds, CancelHolds
  <2>8. FailuresOK'
    <3>1. \A b \in Actions : Failed(b)' \subseteq Failed(b)
      BY <2>0, <2>1, <2>2 DEF Failed, IdleTurn
    <3> QED
      BY <1>0, <2>3, <3>1, FailuresKept
  <2> QED
    BY <2>4, <2>5, <2>6, <2>7, <2>8
<1>13. ASSUME NEW p \in Workers, Abort(p) PROVE Inv'
  <2>1. \A q \in Workers : turn'[q] = IF q = p THEN IdleTurn ELSE turn[q]
    BY <1>13 DEF Abort, TypeOK
  <2>2. UNCHANGED <<action, works, cycle, cancel, fired>> /\ failures' = failures + 1
        /\ failures < MaxFailures
    BY <1>13 DEF Abort
  <2>3. TypeOK'
    <3>1. turn' \in [Workers -> Turn]
      BY <1>13 DEF Abort, TypeOK, IdleTurn, Turn
    <3> QED
      BY <1>0, <2>2, <3>1 DEF TypeOK
  <2>4. TurnsOK'
    BY <2>1, <2>2, TurnsKept DEF IdleTurn
  <2>5. \A b \in Actions : RowOK(b)'
    BY <2>2, RowKept
  <2>6. CycleOK'
    <3>1. \A b \in Actions : TurnHolds(b)' => TurnHolds(b)
      BY <2>1 DEF TurnHolds, IdleTurn
    <3> QED
      BY <1>0, <2>2, <3>1, CycleKept DEF CycleOK, CancelHolds
  <2>7. FailuresOK'
    BY <2>1, <2>2, FailuresAlone DEF IdleTurn
  <2> QED
    BY <2>3, <2>4, <2>5, <2>6, <2>7
<1>14. CASE CancelWrite
  <2>1. UNCHANGED <<action, works, turn, cycle, fired, failures>>
        /\ cancel' = [cancel EXCEPT !.phase = "written"] /\ cancel.phase = "read"
        /\ ~CycleHolds(cancel.action) /\ cancel \in Cancel
    BY <1>14 DEF CancelWrite, TypeOK
  <2>2. cancel'.action = cancel.action /\ cancel' \in Cancel
    BY <2>1 DEF Cancel
  <2>3. TypeOK'
    BY <2>1, <2>2 DEF TypeOK
  <2>4. TurnsOK'
    BY <2>1, TurnsKept
  <2>5. \A b \in Actions : RowOK(b)'
    BY <2>1, RowKept
  <2>6. CycleOK'
    BY <1>0, <2>1, <2>2, CycleKept DEF CycleOK, TurnHolds, CancelHolds
  <2>7. FailuresOK'
    BY <2>1, FailuresAlone
  <2> QED
    BY <2>3, <2>4, <2>5, <2>6, <2>7
<1>15. CASE CancelCommit
  <2> DEFINE a == cancel.action
  <2>0. a \in Actions /\ CancelHolds(a) /\ ~CycleHolds(a)
    BY <1>15 DEF CancelCommit, CycleOK, CancelHolds
  <2>1. UNCHANGED <<works, turn, cycle, fired, failures>> /\ cancel' = IdleCancel
    BY <1>15 DEF CancelCommit
  <2>2. \A b \in Actions :
          action'[b] = IF b = a THEN [action[a] EXCEPT !.status = "cancelled"] ELSE action[b]
    BY <1>15, <2>0 DEF CancelCommit, TypeOK
  <2>3. TypeOK'
    <3>1. action' \in [Actions -> ActionRow]
      BY <1>15, <2>0 DEF CancelCommit, TypeOK, ActionRow
    <3> QED
      BY <2>1, <3>1 DEF TypeOK, IdleCancel, Cancel
  <2>4. TurnsOK'
    BY <2>1, TurnsKept
  <2>5. ASSUME NEW b \in Actions PROVE RowOK(b)'
    <3>1. action'[b].work = action[b].work
          /\ action'[b].status \in {action[b].status, "cancelled"}
      BY <2>2 DEF TypeOK, ActionRow
    <3> QED
      BY <2>1, <3>1, RowKept
  <2>6. CycleOK'
    BY <1>0, <2>0, <2>1, <2>2, CycleKept DEF CycleOK, TurnHolds, CancelHolds, IdleCancel
  <2>7. FailuresOK'
    BY <2>1, FailuresAlone
  <2> QED
    BY <2>3, <2>4, <2>5, <2>6, <2>7
<1>16. CASE CancelAbort
  <2>1. UNCHANGED <<action, works, turn, cycle, fired>> /\ cancel' = IdleCancel
        /\ failures' = failures + 1 /\ failures < MaxFailures
    BY <1>16 DEF CancelAbort
  <2>2. TypeOK'
    BY <1>0, <2>1 DEF TypeOK, IdleCancel, Cancel
  <2>3. TurnsOK'
    BY <2>1, TurnsKept
  <2>4. \A b \in Actions : RowOK(b)'
    BY <2>1, RowKept
  <2>5. CycleOK'
    BY <1>0, <2>1, CycleKept DEF CycleOK, TurnHolds, CancelHolds, IdleCancel
  <2>6. FailuresOK'
    BY <2>1, FailuresAlone
  <2> QED
    BY <2>2, <2>3, <2>4, <2>5, <2>6
<1>17. CASE UNCHANGED vars
  <2>1. UNCHANGED <<action, works, turn, cycle, cancel, fired, failures>>
    BY <1>17 DEF vars
  <2>2. TypeOK'
    BY <2>1 DEF TypeOK
  <2>3. TurnsOK'
    BY <2>1, TurnsKept
  <2>4. \A b \in Actions : RowOK(b)'
    BY <2>1, RowKept
  <2>5. CycleOK'
    BY <1>0, <2>1, CycleKept DEF CycleOK, TurnHolds, CancelHolds
  <2>6. FailuresOK'
    BY <2>1, FailuresAlone
  <2> QED
    BY <2>2, <2>3, <2>4, <2>5, <2>6
<1> QED
  BY <1>1, <1>2, <1>3, <1>4, <1>5, <1>6, <1>7, <1>8, <1>9, <1>10, <1>11, <1>12,
     <1>13, <1>14, <1>15, <1>16, <1>17 DEF Next, CycleStep, TurnStep

\* Inv holds in every reachable state.
THEOREM InvHolds == Spec => []Inv
  BY InitInv, StepInv, PTL DEF Spec

\* Every variable of Scheduler keeps its type: a Work can be made for every row
\* the recovery loop claims.
THEOREM TypeCorrect == Spec => []TypeOK
<1>1. Inv => TypeOK
  BY DEF Inv
<1> QED
  BY <1>1, InvHolds, PTL

\* An action has at most one Work to run, the one in its work_id
\* (scheduler/service.py:280).
THEOREM OneWorkWaits == Spec => []OneOpenWork
<1>1. Inv => OneOpenWork
  BY DEF Inv, RowOK, NoneQueued, OneOpenWork
<1> QED
  BY <1>1, InvHolds, PTL

\* No second turn of an action commits (workers/main.py:563).
THEOREM FiresOnce == Spec => []FiredOnce
<1>1. Inv => FiredOnce
  BY DEF Inv, RowOK, FiredOnce
<1> QED
  BY <1>1, InvHolds, PTL

\* An action cancelled before it got a Work never gets one.
THEOREM CancelledStays == Spec => CancelledUnclaimedIsFinal
<1>1. ASSUME Inv, [Next]_vars, NEW a \in Actions,
             action[a].status = "cancelled", action[a].work = 0
      PROVE  action'[a].status = "cancelled" /\ action'[a].work = 0
  <2>1. action \in [Actions -> ActionRow] /\ action[a] \in ActionRow
        /\ cycle.claimed \subseteq Actions
    BY <1>1 DEF Inv, TypeOK, Cycle
  <2>2. ASSUME NEW b \in Actions, Schedule(b) \/ Pass(b)
        PROVE  action'[a].status = "cancelled" /\ action'[a].work = 0
    BY <1>1, <2>1, <2>2 DEF Schedule, Pass, ActionRow
  <2>3. CASE CommitCycle
    <3>1. a \notin cycle.claimed
      BY <1>1 DEF Inv, CycleOK
    <3> QED
      BY <1>1, <2>3, <3>1 DEF CommitCycle
  <2>4. ASSUME NEW p \in Workers, Commit(p)
        PROVE  action'[a].status = "cancelled" /\ action'[a].work = 0
    <3>1. turn[p].action \in Actions /\ turn[p].work \in Serial
          /\ works[turn[p].action][turn[p].work] = "queued"
      BY <1>1, <2>4 DEF Commit, Inv, TurnsOK, TurnsRun
    <3>2. turn[p].action # a
      BY <1>1, <3>1 DEF Inv, RowOK, Serial
    <3> QED
      BY <1>1, <2>1, <2>4, <3>2 DEF Commit
  <2>5. CASE CancelCommit
    BY <1>1, <2>1, <2>5 DEF CancelCommit, ActionRow
  <2>6. CASE UNCHANGED action
    BY <1>1, <2>6
  <2> QED
    BY <1>1, <2>2, <2>3, <2>4, <2>5, <2>6
       DEF Next, CycleStep, TurnStep, CancelRead, LockStuck, Wake, AbortCycle, Claim, Write,
           Mark, Fail, Abort, CancelWrite, CancelAbort, vars
<1>2. Inv /\ [Next]_vars =>
        [\A a \in Actions :
            action[a].status = "cancelled" /\ action[a].work = 0 =>
                action'[a].status = "cancelled" /\ action'[a].work = 0]_vars
  BY <1>1
<1> QED
  BY <1>2, InvHolds, PTL DEF Spec, CancelledUnclaimedIsFinal
=============================================================================
