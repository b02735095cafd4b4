------------------------------ MODULE Scheduler ------------------------------
(***************************************************************************)
(* Scheduled wakes: wax/scheduler/service.py, the scheduler part of the    *)
(* recovery loop and process_scheduled_action (wax/workers/main.py).       *)
(*                                                                         *)
(* The recovery loop locks actions that are due, marks them executing and  *)
(* gives each a Work; a worker runs the Work and completes both.  An       *)
(* action found executing long after its time with no active Work is made  *)
(* pending again.  The student's tutor may cancel an action meanwhile, in  *)
(* a transaction of its own that reads the row without locking it.         *)
(***************************************************************************)
EXTENDS Naturals

CONSTANTS
    Actions,        \* rows of scheduled_actions
    Workers,        \* worker_loop tasks
    MaxWorks,       \* bound: Works made for one action
    MaxFailures,    \* bound: turns and transactions that fail, in total
    MayCancel       \* bound: the actions a tutor may try to cancel

ASSUME SchedulerAssumption ==
    /\ MaxFailures \in Nat
    /\ MaxWorks \in Nat /\ MaxWorks > MaxFailures
    /\ MayCancel \subseteq Actions

VARIABLES
    action,     \* the scheduled_actions table
    works,      \* the works made for each action, in order: their status
    turn,       \* the open turn of each worker
    cycle,      \* the open transaction of the recovery loop
    cancel,     \* the open transaction of a cancelling tutor
    fired,      \* turns of each action that committed
    failures    \* failed turns and transactions (bounded)

vars == <<action, works, turn, cycle, cancel, fired, failures>>

Serial == 1..MaxWorks

\* due: execute_at has passed.  overdue: it did more than 300 seconds ago.
\* work: the Work in work_id, 0 if none.
ActionRow == [status : {"absent", "pending", "executing", "completed", "cancelled"},
              due : BOOLEAN, overdue : BOOLEAN, work : Serial \cup {0}]
NewAction == [status |-> "pending", due |-> FALSE, overdue |-> FALSE, work |-> 0]

Turn == [phase : {"idle", "running", "written", "failing"},
         action : Actions \cup {0}, work : Serial \cup {0}]
IdleTurn == [phase |-> "idle", action |-> 0, work |-> 0]

Cycle == [phase : {"idle", "locked", "claimed"},
          stuck : SUBSET Actions, claimed : SUBSET Actions]
IdleCycle == [phase |-> "idle", stuck |-> {}, claimed |-> {}]

Cancel == [phase : {"idle", "read", "written"}, action : Actions \cup {0}]
IdleCancel == [phase |-> "idle", action |-> 0]

TypeOK ==
    /\ action \in [Actions -> ActionRow]
    /\ works \in [Actions -> [Serial -> {"absent", "queued", "completed", "failed"}]]
    /\ turn \in [Workers -> Turn]
    /\ cycle \in Cycle
    /\ cancel \in Cancel
    /\ fired \in [Actions -> Nat]
    /\ failures \in 0..MaxFailures

Init ==
    /\ action = [a \in Actions |-> [NewAction EXCEPT !.status = "absent"]]
    /\ works = [a \in Actions |-> [n \in Serial |-> "absent"]]
    /\ turn = [p \in Workers |-> IdleTurn]
    /\ cycle = IdleCycle
    /\ cancel = IdleCancel
    /\ fired = [a \in Actions |-> 0]
    /\ failures = 0

-----------------------------------------------------------------------------
(* Scheduling and time. *)

Schedule(a) ==
    /\ action[a].status = "absent"
    /\ action' = [action EXCEPT ![a] = NewAction]
    /\ UNCHANGED <<works, turn, cycle, cancel, fired, failures>>

Pass(a) ==
    /\ action[a].status # "absent"
    /\ \/ ~action[a].due /\ action' = [action EXCEPT ![a].due = TRUE]
       \/ /\ action[a].due /\ ~action[a].overdue
          /\ action' = [action EXCEPT ![a].overdue = TRUE]
    /\ UNCHANGED <<works, turn, cycle, cancel, fired, failures>>

-----------------------------------------------------------------------------
(* Row locks on scheduled_actions. *)

\* (variant) the recovery loop reads the rows without FOR UPDATE
CycleTakesNoLock(a) == FALSE

CycleHolds(a) == a \in cycle.stuck \cup cycle.claimed

TurnHolds(a) == \E p \in Workers : turn[p].phase = "written" /\ turn[p].action = a

CancelHolds(a) == cancel.phase = "written" /\ cancel.action = a

-----------------------------------------------------------------------------
(* The recovery loop: recover_stuck_executing, due_actions,                *)
(* create_work_for_action, in one transaction.                             *)

LockStuck ==
    /\ cycle.phase = "idle"
    /\ cycle' = [cycle EXCEPT !.phase = "locked",
                              !.stuck = {a \in Actions :
                    /\ action[a].status = "executing" /\ action[a].overdue
                    /\ ~TurnHolds(a) /\ ~CancelHolds(a)}]
    /\ UNCHANGED <<action, works, turn, cancel, fired, failures>>

\* (variants) the Work of a stuck action is not looked at; nothing is reset
ResetAnyWork(a) == a \in cycle.stuck
ResetNothing(a) == FALSE

\* A stuck action is made pending again unless its Work is still active.
Reset(a) ==
    /\ a \in cycle.stuck
    /\ action[a].work # 0 => works[a][action[a].work] # "queued"

Due(a) == action[a].status = "pending" /\ action[a].due

Wake ==
    /\ cycle.phase = "locked"
    /\ cycle' = [cycle EXCEPT !.phase = "claimed",
                              !.claimed = {a \in Actions :
                    \/ Reset(a)
                    \/ Due(a) /\ ~TurnHolds(a) /\ ~CancelHolds(a)}]
    /\ UNCHANGED <<action, works, turn, cancel, fired, failures>>

\* The Work made for a claimed action: the next one of its row.
Made(a) == CHOOSE n \in Serial :
    works[a][n] = "absent" /\ \A i \in 1..(n - 1) : works[a][i] # "absent"

CommitCycle ==
    /\ cycle.phase = "claimed"
    /\ action' = [a \in Actions |-> IF a \in cycle.claimed
                    THEN [action[a] EXCEPT !.status = "executing", !.work = Made(a)]
                    ELSE action[a]]
    /\ works' = [a \in Actions |-> IF a \in cycle.claimed
                    THEN [works[a] EXCEPT ![Made(a)] = "queued"] ELSE works[a]]
    /\ cycle' = IdleCycle
    /\ UNCHANGED <<turn, cancel, fired, failures>>

AbortCycle ==
    /\ cycle.phase # "idle"
    /\ failures < MaxFailures
    /\ failures' = failures + 1
    /\ cycle' = IdleCycle
    /\ UNCHANGED <<action, works, turn, cancel, fired>>

-----------------------------------------------------------------------------
(* process_scheduled_action. *)

Held(a, n) == \E p \in Workers :
    turn[p].phase \in {"running", "written"} /\ turn[p].action = a /\ turn[p].work = n

Claim(p, a, n) ==
    /\ turn[p].phase = "idle"
    /\ works[a][n] = "queued"
    /\ ~Held(a, n)
    /\ turn' = [turn EXCEPT ![p] = [phase |-> "running", action |-> a, work |-> n]]
    /\ UNCHANGED <<action, works, cycle, cancel, fired, failures>>

\* The tutor has answered: complete() writes the action's row, waiting for
\* whoever holds it; whatever its status was.
Write(p) ==
    /\ turn[p].phase = "running"
    /\ ~CycleHolds(turn[p].action)
    /\ ~TurnHolds(turn[p].action)
    /\ ~CancelHolds(turn[p].action)
    /\ turn' = [turn EXCEPT ![p].phase = "written"]
    /\ UNCHANGED <<action, works, cycle, cancel, fired, failures>>

\* (variants) only the Work is completed; a status no query looks for
CompletedWorkOnly(row) == row
CompletedAsDone(row) == [row EXCEPT !.status = "done"]

Completed(row) == [row EXCEPT !.status = "completed"]

Commit(p) ==
    LET a == turn[p].action IN
    /\ turn[p].phase = "written"
    /\ works' = [works EXCEPT ![a][turn[p].work] = "completed"]
    /\ action' = [action EXCEPT ![a] = Completed(@)]
    /\ fired' = [fired EXCEPT ![a] = @ + 1]
    /\ turn' = [turn EXCEPT ![p] = IdleTurn]
    /\ UNCHANGED <<cycle, cancel, failures>>

\* The turn raised: _mark_work_terminal first rolls back, which frees the Work
\* for another worker, ...
Fail(p) ==
    /\ turn[p].phase \in {"running", "written"}
    /\ failures < MaxFailures
    /\ failures' = failures + 1
    /\ turn' = [turn EXCEPT ![p].phase = "failing"]
    /\ UNCHANGED <<action, works, cycle, cancel, fired>>

\* ... then marks the Work failed by primary key, whatever happened to it since.
\* The action stays executing.
Mark(p) ==
    LET a == turn[p].action
        n == turn[p].work
    IN
    /\ turn[p].phase = "failing"
    /\ ~Held(a, n)
    /\ works' = [works EXCEPT ![a][n] = "failed"]
    /\ turn' = [turn EXCEPT ![p] = IdleTurn]
    /\ UNCHANGED <<action, cycle, cancel, fired, failures>>

\* A crash, a shutdown or a failed commit.
Abort(p) ==
    /\ turn[p].phase # "idle"
    /\ failures < MaxFailures
    /\ failures' = failures + 1
    /\ turn' = [turn EXCEPT ![p] = IdleTurn]
    /\ UNCHANGED <<action, works, cycle, cancel, fired>>

-----------------------------------------------------------------------------
(* SchedulerService.cancel, in a tutor's turn. *)

CancelRead(a) ==
    /\ cancel.phase = "idle"
    /\ a \in MayCancel
    /\ action[a].status \in {"pending", "executing"}
    /\ cancel' = [phase |-> "read", action |-> a]
    /\ UNCHANGED <<action, works, turn, cycle, fired, failures>>

CancelWrite ==
    /\ cancel.phase = "read"
    /\ ~CycleHolds(cancel.action)
    /\ ~TurnHolds(cancel.action)
    /\ cancel' = [cancel EXCEPT !.phase = "written"]
    /\ UNCHANGED <<action, works, turn, cycle, fired, failures>>

CancelCommit ==
    /\ cancel.phase = "written"
    /\ action' = [action EXCEPT ![cancel.action].status = "cancelled"]
    /\ cancel' = IdleCancel
    /\ UNCHANGED <<works, turn, cycle, fired, failures>>

CancelAbort ==
    /\ cancel.phase # "idle"
    /\ failures < MaxFailures
    /\ failures' = failures + 1
    /\ cancel' = IdleCancel
    /\ UNCHANGED <<action, works, turn, cycle, fired>>

-----------------------------------------------------------------------------
CycleStep == LockStuck \/ Wake \/ CommitCycle

TurnStep(p) ==
    \/ \E a \in Actions, n \in Serial : Claim(p, a, n)
    \/ Write(p) \/ Commit(p) \/ Mark(p)

Next ==
    \/ \E a \in Actions : Schedule(a) \/ Pass(a) \/ CancelRead(a)
    \/ CycleStep \/ AbortCycle
    \/ \E p \in Workers : TurnStep(p) \/ Fail(p) \/ Abort(p)
    \/ CancelWrite \/ CancelCommit \/ CancelAbort

Spec == Init /\ [][Next]_vars

\* Clocks advance, the loops run and an open transaction ends.  A write that
\* waits for a row gets it before the next cycle does (strong fairness): the
\* database queues it, and the loop sleeps between cycles and skips locked rows.
FairSpec ==
    /\ Spec
    /\ \A a \in Actions : WF_vars(Pass(a))
    /\ WF_vars(CycleStep)
    /\ \A p \in Workers : WF_vars(TurnStep(p)) /\ SF_vars(Write(p)) /\ SF_vars(Mark(p))
    /\ SF_vars(CancelWrite) /\ WF_vars(CancelCommit)

-----------------------------------------------------------------------------
\* An action never has two Works waiting to run, however often it is claimed,
\* recovered or cancelled; the one that waits is the one in its work_id.
OneOpenWork ==
    \A a \in Actions, n \in Serial :
        works[a][n] = "queued" => action[a].work = n /\ action[a].status # "pending"

\* An action fires once: no second turn of it commits, not even when the turn
\* that failed marks the Work after another worker has completed it.
FiredOnce == \A a \in Actions : fired[a] <= 1

\* An action cancelled before it got a Work never gets one.
CancelledUnclaimedIsFinal ==
    [][\A a \in Actions :
        action[a].status = "cancelled" /\ action[a].work = 0 =>
            action'[a].status = "cancelled" /\ action'[a].work = 0]_vars

\* A scheduled action is not forgotten: unless cancelled it completes, whatever
\* crashed or failed on the way.
EveryActionEnds ==
    \A a \in Actions :
        action[a].status = "pending" ~> action[a].status \in {"completed", "cancelled"}
=============================================================================
