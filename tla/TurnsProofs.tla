----------------------------- MODULE TurnsProofs -----------------------------
(***************************************************************************)
(* Proofs about Turns for any number of messages, workers, students and    *)
(* conversations and any bounds.                                           *)
(***************************************************************************)
EXTENDS Turns, FiniteSetTheorems, TLAPS

(* Types of what the actions build. *)

\* The empty rows, the idle transactions and what happens to a delivery row
\* are well typed.
LEMMA RowTypes ==
    /\ NoRow \in WorkRow
    /\ NoMail \in [Kinds -> MailRow]
    /\ IdleTx \in Tx
    /\ IdleRec \in Rec
  <1>1. NoRow \in WorkRow
    BY DEF NoRow, WorkRow, WorkStatus
  <1>2. NoMail \in [Kinds -> MailRow]
    BY DEF NoMail, MailRow, MailStatus, Kinds
  <1>3. IdleTx \in Tx
    BY <1>1, <1>2 DEF IdleTx, Tx, Phases, Kinds
  <1>4. IdleRec \in Rec
    BY DEF IdleRec, Rec
  <1> QED
    BY <1>1, <1>2, <1>3, <1>4

\* There are finitely many Works, so revived Works can be counted.
LEMMA WorksFinite ==
    ASSUME NEW S \in SUBSET Works
    PROVE  Cardinality(S) \in Nat
  <1>1. IsFiniteSet({"inbound", "recovery"})
    <2>1. IsFiniteSet({"inbound"} \cup {"recovery"})
      BY FS_Singleton, FS_Union
    <2> QED
      BY <2>1
  <1>2. IsFiniteSet(Works)
    BY <1>1, FS_Product, TurnsAssumption DEF Works, TurnsAssumption
  <1> QED
    BY <1>2, FS_Subset, FS_CardinalityType

\* Putting a delivery in the outbox keeps the rows of its Work well typed.
LEMMA PostedType ==
    ASSUME TypeOK, NEW w \in Works, NEW k \in Kinds
    PROVE  /\ Posted(w, k) \in [Kinds -> MailRow]
           /\ Added(w, k) \subseteq Kinds
  <1>1. Posted(w, k) \in [Kinds -> MailRow]
    <2>1. mail[w] \in [Kinds -> MailRow]
      BY DEF TypeOK
    <2>2. [mail[w][k] EXCEPT !.status = "pending"] \in MailRow
      BY <2>1 DEF MailRow, MailStatus
    <2> QED
      BY <2>1, <2>2 DEF Posted
  <1> QED
    BY <1>1 DEF Added

\* One attempt at a delivery keeps its row well typed.
LEMMA AttemptedType ==
    ASSUME NEW row \in MailRow, NEW result \in SendResults
    PROVE  Attempted(row, result) \in MailRow
  <1>1. [row EXCEPT !.status = "delivered"] \in MailRow
    BY DEF MailRow, MailStatus
  <1>2. [row EXCEPT !.status = "failed", !.tries = @ + 1] \in MailRow
    <2>1. row.tries + 1 \in Nat
      BY DEF MailRow
    <2> QED
      BY <2>1 DEF MailRow, MailStatus
  <1> QED
    BY <1>1, <1>2 DEF Attempted

-----------------------------------------------------------------------------
(* Every step keeps the types. *)

\* A webhook's message and Work keep every variable in its type.
LEMMA AcceptType ==
    ASSUME TypeOK, NEW m \in Messages, Accept(m)
    PROVE  TypeOK'
  <1> DEFINE w == <<m, "inbound">>
             row == [NoRow EXCEPT !.status = "queued", !.priority = InboundPriority,
                                  !.born = clock]
  <1>1. w \in Works
    BY DEF Works
  <1>2. row \in WorkRow
    BY RowTypes DEF TypeOK, WorkRow, WorkStatus, InboundPriority
  <1>3. work' \in [Works -> WorkRow]
    BY <1>1, <1>2 DEF TypeOK, Accept
  <1>4. clock' \in Nat
    BY DEF TypeOK, Accept
  <1> QED
    BY <1>3, <1>4 DEF TypeOK, Accept, bounds

\* So does the passing of next_retry_at.
LEMMA TimeType ==
    ASSUME TypeOK, (\E m \in Messages : Age(m)) \/ TimeStep
    PROVE  TypeOK'
  <1>1. ASSUME NEW m \in Messages, Age(m)
        PROVE  TypeOK'
    BY <1>1 DEF TypeOK, Age, tables, bounds
  <1>2. ASSUME NEW w \in Works, WorkDue(w)
        PROVE  TypeOK'
    <2>1. [work[w] EXCEPT !.waiting = FALSE] \in WorkRow
      BY DEF TypeOK, WorkRow
    <2> QED
      BY <1>2, <2>1 DEF TypeOK, WorkDue, bounds
  <1>3. ASSUME NEW w \in Works, NEW k \in Kinds, MailDue(w, k)
        PROVE  TypeOK'
    <2>1. mail[w][k] \in MailRow
      BY DEF TypeOK
    <2>2. [mail[w][k] EXCEPT !.waiting = FALSE] \in MailRow
      BY <2>1 DEF MailRow
    <2> QED
      BY <1>3, <2>2 DEF TypeOK, MailDue, bounds
  <1> QED
    BY <1>1, <1>2, <1>3 DEF TimeStep

\* claim_next keeps the types.
LEMMA ClaimType ==
    ASSUME TypeOK, NEW p \in Workers, Claim(p)
    PROVE  TypeOK'
  <1>1. PICK w \in Works : tx' = [tx EXCEPT ![p] = [IdleTx EXCEPT
            !.phase = "claimed", !.cur = w, !.row = ClaimedRow(w), !.locked = {w}]]
    BY DEF Claim, Claimable
  <1>2. ClaimedRow(w) \in WorkRow
    <2>1. work[w] \in WorkRow
      BY DEF TypeOK
    <2>2. work[w].attempt + 1 \in Nat
      BY <2>1 DEF WorkRow
    <2> QED
      BY <2>1, <2>2 DEF ClaimedRow, WorkRow, WorkStatus
  <1>3. [IdleTx EXCEPT !.phase = "claimed", !.cur = w, !.row = ClaimedRow(w),
                       !.locked = {w}] \in Tx
    BY <1>2, RowTypes DEF Tx, Phases
  <1>4. tx' \in [Workers -> Tx]
    BY <1>1, <1>3 DEF TypeOK
  <1> QED
    BY <1>4 DEF TypeOK, Claim, tables, bounds

\* find_coalescable_works keeps the types.
LEMMA CoalesceType ==
    ASSUME TypeOK, NEW p \in Workers, Coalesce(p)
    PROVE  TypeOK'
  <1>1. PICK related \in SUBSET Siblings(tx[p].cur) :
            tx' = [tx EXCEPT ![p].phase = "coalesced",
                             ![p].locked = @ \cup Siblings(tx[p].cur),
                             ![p].folded = related,
                             ![p].unlinked = tx[p].cur[1] \notin linked]
    BY DEF Coalesce
  <1>2. tx[p] \in Tx /\ Siblings(tx[p].cur) \subseteq Works
    BY DEF TypeOK, Siblings
  <1>3. [tx[p] EXCEPT !.phase = "coalesced", !.locked = @ \cup Siblings(tx[p].cur),
                      !.folded = related, !.unlinked = tx[p].cur[1] \notin linked] \in Tx
    BY <1>2 DEF Tx, Phases
  <1>4. tx' \in [Workers -> Tx]
    BY <1>1, <1>3 DEF TypeOK
  <1> QED
    BY <1>4 DEF TypeOK, Coalesce, tables, bounds

\* decide_durable, which may lower the priority, keeps the types.
LEMMA GateType ==
    ASSUME TypeOK, NEW p \in Workers, Gate(p)
    PROVE  TypeOK'
  <1>1. tx[p] \in Tx
    BY DEF TypeOK
  <1>2. [tx[p] EXCEPT !.phase = "gated"] \in Tx
    BY <1>1 DEF Tx, Phases
  <1>3. [tx[p].row EXCEPT !.priority = Lowered(@)] \in WorkRow
    BY <1>1 DEF Tx, WorkRow, Lowered
  <1>4. [tx[p] EXCEPT !.phase = "gated", !.row.priority = Lowered(@)] \in Tx
    BY <1>1, <1>3 DEF Tx, Phases
  <1>5. tx' \in [Workers -> Tx]
    BY <1>2, <1>4 DEF TypeOK, Gate
  <1> QED
    BY <1>5 DEF TypeOK, Gate, tables, bounds

\* Linking the message to its Work keeps the types.
LEMMA LinkType ==
    ASSUME TypeOK, NEW p \in Workers, Link(p)
    PROVE  TypeOK'
  <1>0. tx[p] \in Tx /\ tx[p].unlinked \in BOOLEAN
    BY DEF TypeOK, Tx
  <1>1. PICK linking \in BOOLEAN :
            tx' = [tx EXCEPT ![p].phase = "linked", ![p].unlinked = FALSE,
                             ![p].linking = linking]
    BY <1>0 DEF Link
  <1>2. [tx[p] EXCEPT !.phase = "linked", !.unlinked = FALSE, !.linking = linking] \in Tx
    BY <1>0 DEF Tx, Phases
  <1>3. tx' \in [Workers -> Tx]
    BY <1>1, <1>2 DEF TypeOK
  <1> QED
    BY <1>3 DEF TypeOK, Link, tables, bounds

\* An active transaction is about some Work.
LEMMA CurType ==
    ASSUME TypeOK, TxShape, NEW p \in Workers, tx[p].phase # "idle"
    PROVE  tx[p] \in Tx /\ tx[p].cur \in Works
  BY DEF TypeOK, TxShape, Tx

\* The end of a tutor turn, with a reply or an error, keeps the types.
LEMMA AnswerType ==
    ASSUME TypeOK, TxShape, NEW p \in Workers, Answer(p)
    PROVE  TypeOK'
  <1> DEFINE w == tx[p].cur
  <1>1. tx[p] \in Tx /\ w \in Works /\ mail[w] \in [Kinds -> MailRow]
    BY CurType DEF Answer, TypeOK
  <1>2. "reply" \in Kinds /\ "apology" \in Kinds
    BY DEF Kinds
  <1>3. ASSUME NEW result \in TurnResults, Complete(p, result)
        PROVE  tx' \in [Workers -> Tx]
    <2> DEFINE rows == IF result = "reply" THEN Posted(w, "reply") ELSE mail[w]
               dirty == IF result = "reply" THEN Added(w, "reply") ELSE {}
    <2>1. rows \in [Kinds -> MailRow] /\ dirty \subseteq Kinds
      BY <1>1, <1>2, PostedType
    <2>2. Pending(rows) \subseteq Kinds
      BY DEF Pending
    <2>3. [tx[p].row EXCEPT !.status = "completed"] \in WorkRow
      BY <1>1 DEF Tx, WorkRow, WorkStatus
    <2>4. tx' = [tx EXCEPT ![p] = [tx[p] EXCEPT
              !.phase = "sending", !.row = [tx[p].row EXCEPT !.status = "completed"],
              !.mail = rows, !.todo = Pending(rows), !.dirty = dirty]]
      BY <1>3, <1>1 DEF Complete, Tx, TypeOK
    <2> HIDE DEF rows, dirty
    <2>5. [tx[p] EXCEPT
              !.phase = "sending", !.row = [tx[p].row EXCEPT !.status = "completed"],
              !.mail = rows, !.todo = Pending(rows), !.dirty = dirty] \in Tx
      BY <1>1, <2>1, <2>2, <2>3 DEF Tx, Phases
    <2> QED
      BY <2>4, <2>5 DEF TypeOK
  <1>4. ASSUME NEW transient \in BOOLEAN, Fail(p, transient)
        PROVE  tx' \in [Workers -> Tx]
    <2> DEFINE again == [tx[p].row EXCEPT !.status = "retrying", !.waiting = TRUE,
                                          !.transient = transient]
               given == [tx[p].row EXCEPT !.status = "failed", !.transient = transient]
    <2>1. again \in WorkRow /\ given \in WorkRow
      BY <1>1 DEF Tx, WorkRow, WorkStatus
    <2>2. Pending(mail[w]) \subseteq Kinds
      BY DEF Pending
    <2>3. Posted(w, "apology") \in [Kinds -> MailRow] /\ Added(w, "apology") \subseteq Kinds
      BY <1>1, <1>2, PostedType
    <2>4. CASE MayRetry(tx[p].row)
      <3>1. tx' = [tx EXCEPT ![p] = [tx[p] EXCEPT
                !.phase = "sending", !.row = again,
                !.mail = mail[w], !.todo = Pending(mail[w])]]
        BY <2>4, <1>4, <1>1 DEF Fail, Tx, TypeOK
      <3> HIDE DEF again, given
      <3>2. [tx[p] EXCEPT !.phase = "sending", !.row = again,
                          !.mail = mail[w], !.todo = Pending(mail[w])] \in Tx
        BY <1>1, <2>1, <2>2 DEF Tx, Phases
      <3> QED
        BY <3>1, <3>2 DEF TypeOK
    <2>5. CASE ~MayRetry(tx[p].row)
      <3>1. tx' = [tx EXCEPT ![p] = [tx[p] EXCEPT
                !.phase = "sending", !.row = given,
                !.mail = Posted(w, "apology"), !.dirty = Added(w, "apology")]]
        BY <2>5, <1>4, <1>1 DEF Fail, Tx, TypeOK
      <3> HIDE DEF again, given
      <3>2. [tx[p] EXCEPT !.phase = "sending", !.row = given,
                !.mail = Posted(w, "apology"), !.dirty = Added(w, "apology")] \in Tx
        BY <1>1, <2>1, <2>3 DEF Tx, Phases
      <3> QED
        BY <3>1, <3>2 DEF TypeOK
    <2> QED
      BY <2>4, <2>5
  <1>5. tx' \in [Workers -> Tx]
    BY <1>3, <1>4 DEF Answer
  <1> QED
    BY <1>5 DEF TypeOK, Answer, tables, bounds

\* A send counts for one delivery, as received or as lost besides or not at all.
LEMMA CountedEffect ==
    ASSUME TypeOK, NEW w \in Works, NEW k \in Kinds, NEW result \in SendResults,
           Counted(w, k, result)
    PROVE  /\ received' \in [Works -> [Kinds -> Nat]]
           /\ lost' \in [Works -> [Kinds -> Nat]]
           /\ \A v \in Works, j \in Kinds :
                 /\ received'[v][j] = IF v = w /\ j = k /\ result # "refused"
                                      THEN received[v][j] + 1 ELSE received[v][j]
                 /\ lost'[v][j] = IF v = w /\ j = k /\ result = "unacked"
                                  THEN lost[v][j] + 1 ELSE lost[v][j]
  <1>1. /\ received \in [Works -> [Kinds -> Nat]] /\ received[w] \in [Kinds -> Nat]
        /\ lost \in [Works -> [Kinds -> Nat]] /\ lost[w] \in [Kinds -> Nat]
    BY DEF TypeOK
  <1>2. /\ [received[w] EXCEPT ![k] = @ + 1] \in [Kinds -> Nat]
        /\ [lost[w] EXCEPT ![k] = @ + 1] \in [Kinds -> Nat]
    BY <1>1
  <1> QED
    BY <1>1, <1>2 DEF Counted

\* _attempt_deliveries keeps the types.
LEMMA SendType ==
    ASSUME TypeOK, TxShape, NEW p \in Workers, NEW k \in Kinds,
           NEW result \in SendResults, Send(p, k, result)
    PROVE  TypeOK'
  <1> DEFINE w == tx[p].cur
             rows == [tx[p].mail EXCEPT ![k] = Attempted(@, result)]
  <1>1. tx[p] \in Tx /\ w \in Works
    BY CurType DEF Send
  <1>2. rows \in [Kinds -> MailRow]
    <2>1. tx[p].mail \in [Kinds -> MailRow]
      BY <1>1 DEF Tx
    <2> QED
      BY <2>1, AttemptedType
  <1>3. tx' = [tx EXCEPT ![p] = [tx[p] EXCEPT
            !.mail = rows, !.todo = @ \ {k}, !.dirty = @ \cup {k}]]
    BY <1>1 DEF Send, Tx, TypeOK
  <1> HIDE DEF rows
  <1>4. [tx[p] EXCEPT !.mail = rows, !.todo = @ \ {k}, !.dirty = @ \cup {k}] \in Tx
    BY <1>1, <1>2 DEF Tx
  <1>5. tx' \in [Workers -> Tx]
    BY <1>3, <1>4 DEF TypeOK
  <1>6. /\ received' \in [Works -> [Kinds -> Nat]]
        /\ lost' \in [Works -> [Kinds -> Nat]]
    BY <1>1, CountedEffect DEF Send
  <1> QED
    BY <1>5, <1>6 DEF TypeOK, Send, tables, bounds

\* The commit of a worker's session keeps the types.
LEMMA CommitType ==
    ASSUME TypeOK, TxShape, NEW p \in Workers, Commit(p)
    PROVE  TypeOK'
  <1> DEFINE w == tx[p].cur
  <1>1. tx[p] \in Tx /\ w \in Works
    BY CurType DEF Commit
  <1>2. CommittedWork(p) \in [Works -> WorkRow]
    <2>1. tx[p].row \in WorkRow
      BY <1>1 DEF Tx
    <2>2. ASSUME NEW v \in Works
          PROVE  [work[v] EXCEPT !.status = "completed", !.into = tx[p].cur] \in WorkRow
      <3>1. work[v] \in WorkRow
        BY DEF TypeOK
      <3> QED
        BY <3>1, <1>1 DEF WorkRow, WorkStatus
    <2> QED
      BY <2>1, <2>2 DEF CommittedWork, TypeOK
  <1>3. CommittedMail(p) \in [Works -> [Kinds -> MailRow]]
    <2>1. ASSUME NEW old \in MailRow, NEW new \in MailRow
          PROVE  Flushed(old, new) \in MailRow
      BY DEF Flushed, MailRow, MailStatus
    <2>2. mail[w] \in [Kinds -> MailRow] /\ tx[p].mail \in [Kinds -> MailRow]
      BY <1>1 DEF TypeOK, Tx
    <2>3. [k \in Kinds |-> IF k \in tx[p].dirty THEN Flushed(mail[w][k], tx[p].mail[k])
                           ELSE mail[w][k]] \in [Kinds -> MailRow]
      BY <2>1, <2>2
    <2> QED
      BY <1>1, <2>3 DEF CommittedMail, TypeOK
  <1>4. linked' \subseteq Messages
    <2>1. w[1] \in Messages
      BY <1>1 DEF Works
    <2> QED
      BY <2>1 DEF Commit, TypeOK
  <1>5. tx' \in [Workers -> Tx]
    BY RowTypes DEF Commit, TypeOK
  <1> QED
    BY <1>2, <1>3, <1>4, <1>5 DEF TypeOK, Commit, bounds

\* So does its rollback.
LEMMA AbortType ==
    ASSUME TypeOK, TxShape, NEW p \in Workers, Abort(p)
    PROVE  TypeOK'
  <1> DEFINE w == tx[p].cur
  <1>1. w \in Works
    BY CurType DEF Abort
  <1>2. lost' \in [Works -> [Kinds -> Nat]]
    <2>1. lost[w] \in [Kinds -> Nat]
      BY <1>1 DEF TypeOK
    <2>2. [k \in Kinds |-> IF k \in Acked(p) THEN lost[w][k] + 1 ELSE lost[w][k]]
            \in [Kinds -> Nat]
      BY <2>1
    <2> QED
      BY <1>1, <2>2 DEF Abort, TypeOK
  <1>3. tx' \in [Workers -> Tx]
    BY RowTypes DEF Abort, TypeOK
  <1>4. aborts' \in 0..MaxAborts
    BY TurnsAssumption DEF Abort, TypeOK, TurnsAssumption
  <1> QED
    BY <1>2, <1>3, <1>4 DEF TypeOK, Abort, tables

\* Every step of the recovery loop keeps the types.
LEMMA CycleType ==
    ASSUME TypeOK, CycleStep
    PROVE  TypeOK'
  <1>1. rec \in Rec
    BY DEF TypeOK
  <1>2. CASE Sweep
    <2>1. rec' \in Rec
      BY <1>1, <1>2 DEF Sweep, Rec, TypeOK
    <2> QED
      BY <1>2, <2>1 DEF TypeOK, Sweep, tables, bounds
  <1>3. CASE Take
    <2>1. rec' \in Rec
      BY <1>1, <1>3 DEF Take, Rec
    <2> QED
      BY <1>3, <2>1 DEF TypeOK, Take, tables, bounds
  <1>4. ASSUME NEW d \in Deliveries, NEW result \in SendResults, Resend(d, result)
        PROVE  TypeOK'
    <2>1. rec' \in Rec
      BY <1>1, <1>4 DEF Resend, Rec
    <2>2. /\ received' \in [Works -> [Kinds -> Nat]]
          /\ lost' \in [Works -> [Kinds -> Nat]]
      <3>1. d[1] \in Works /\ d[2] \in Kinds
        BY DEF Deliveries
      <3> QED
        BY <1>4, <3>1, CountedEffect DEF Resend
    <2> QED
      BY <1>4, <2>1, <2>2 DEF TypeOK, Resend, tables, bounds
  <1>5. ASSUME NEW revived \in {{}, Revivable}, CommitCycle(revived)
        PROVE  TypeOK'
    <2>1. clock' \in Nat
      <3>1. clock' = clock \/ clock' = clock + 1
        BY <1>5 DEF CommitCycle
      <3> QED
        BY <3>1 DEF TypeOK
    <2>2. ASSUME NEW w \in Works
          PROVE  /\ [NoRow EXCEPT !.status = "queued", !.priority = RecoveryPriority,
                                  !.born = clock] \in WorkRow
                 /\ [work[w] EXCEPT !.status = "retrying", !.waiting = FALSE] \in WorkRow
                 /\ work[w] \in WorkRow
      <3>1. work[w] \in WorkRow /\ clock \in Nat
        BY DEF TypeOK
      <3> QED
        BY <3>1, RowTypes DEF WorkRow, WorkStatus, RecoveryPriority
    <2>3. work' \in [Works -> WorkRow]
      BY <1>5, <2>2 DEF CommitCycle
    <2>4. ASSUME NEW w \in Works, NEW k \in Kinds
          PROVE  mail[w][k] \in MailRow /\ Retried(<<w, k>>) \in MailRow
      <3>1. mail[w][k] \in MailRow
        BY DEF TypeOK
      <3>2. mail[w][k].tries + 1 \in Nat
        BY <3>1 DEF MailRow
      <3>3. /\ [mail[w][k] EXCEPT !.status = "delivered", !.tries = @ + 1] \in MailRow
            /\ [mail[w][k] EXCEPT !.status = "failed", !.tries = @ + 1,
                                  !.waiting = TRUE] \in MailRow
        BY <3>1, <3>2 DEF MailRow, MailStatus
      <3> QED
        BY <3>1, <3>3 DEF Retried
    <2>5. mail' \in [Works -> [Kinds -> MailRow]]
      BY <1>5, <2>4 DEF CommitCycle
    <2>6. linked' \subseteq Messages
      BY <1>1, <1>5 DEF CommitCycle, Rec, TypeOK
    <2>7. revivals' \in 0..MaxRevivals
      <3>1. Cardinality(revived) \in Nat
        BY WorksFinite DEF Revivable
      <3>2. /\ revivals' = revivals + Cardinality(revived)
            /\ revivals + Cardinality(revived) <= MaxRevivals
        BY <1>5 DEF CommitCycle
      <3>3. revivals \in 0..MaxRevivals /\ MaxRevivals \in Nat
        BY TurnsAssumption DEF TypeOK, TurnsAssumption
      <3> QED
        BY <3>1, <3>2, <3>3
    <2>8. rec' \in Rec
      BY <1>5, RowTypes DEF CommitCycle
    <2> QED
      BY <1>5, <2>1, <2>3, <2>5, <2>6, <2>7, <2>8 DEF TypeOK, CommitCycle
  <1> QED
    BY <1>2, <1>3, <1>4, <1>5 DEF CycleStep

\* So does the rollback of a recovery cycle.
LEMMA AbortCycleType ==
    ASSUME TypeOK, AbortCycle
    PROVE  TypeOK'
  <1>1. lost' \in [Works -> [Kinds -> Nat]]
    BY DEF AbortCycle, TypeOK
  <1>2. aborts' \in 0..MaxAborts
    BY TurnsAssumption DEF AbortCycle, TypeOK, TurnsAssumption
  <1>3. rec' \in Rec
    BY RowTypes DEF AbortCycle
  <1> QED
    BY <1>1, <1>2, <1>3 DEF TypeOK, AbortCycle, tables

-----------------------------------------------------------------------------
(* Locks, the gate and the state of what a turn holds. *)

Inv == TypeOK /\ TxShape /\ LocksExclusive /\ HeldIsOpen /\ TurnsSerialized

\* The empty database with idle loops satisfies the inductive invariant.
LEMMA InitInv == Init => Inv
  <1> SUFFICES ASSUME Init
               PROVE  Inv
    OBVIOUS
  <1>1. TypeOK
    BY RowTypes, TurnsAssumption DEF Init, TypeOK, TurnsAssumption
  <1>2. TxShape /\ LocksExclusive
    BY DEF Init, TxShape, LocksExclusive, IdleTx
  <1>3. HeldIsOpen
    BY DEF Init, HeldIsOpen, IdleTx, NoRow
  <1>4. TurnsSerialized
    BY DEF Init, TurnsSerialized, PastGate, IdleTx
  <1> QED
    BY <1>1, <1>2, <1>3, <1>4 DEF Inv

\* A claim takes a row nobody holds.
LEMMA ClaimInv ==
    ASSUME Inv, NEW p \in Workers, Claim(p)
    PROVE  TxShape' /\ LocksExclusive' /\ HeldIsOpen' /\ TurnsSerialized'
  <1>1. tx \in [Workers -> Tx] /\ UNCHANGED work
    BY DEF Inv, TypeOK, Claim, tables
  <1>2. PICK w \in Claimable \ LockedWorks :
            tx' = [tx EXCEPT ![p] = [IdleTx EXCEPT
                !.phase = "claimed", !.cur = w, !.row = ClaimedRow(w), !.locked = {w}]]
    BY DEF Claim
  <1>3. /\ tx'[p].phase = "claimed" /\ tx'[p].cur = w
        /\ tx'[p].locked = {w} /\ tx'[p].folded = {}
        /\ \A q \in Workers \ {p} : tx'[q] = tx[q]
    BY <1>1, <1>2 DEF IdleTx
  <1>4. \A q \in Workers : w \notin tx[q].locked
    BY <1>2 DEF LockedWorks
  <1>5. TxShape'
    BY <1>3 DEF Inv, TxShape
  <1>6. LocksExclusive'
    BY <1>3, <1>4 DEF Inv, LocksExclusive
  <1>7. HeldIsOpen'
    BY <1>1, <1>2, <1>3 DEF Inv, HeldIsOpen, Claimable
  <1>8. TurnsSerialized'
    BY <1>3 DEF Inv, TurnsSerialized, PastGate, Owner
  <1> QED
    BY <1>5, <1>6, <1>7, <1>8

\* The siblings a turn locks are free and open.
LEMMA CoalesceInv ==
    ASSUME Inv, NEW p \in Workers, Coalesce(p)
    PROVE  TxShape' /\ LocksExclusive' /\ HeldIsOpen' /\ TurnsSerialized'
  <1> DEFINE S == Siblings(tx[p].cur)
  <1>1. tx \in [Workers -> Tx] /\ tx[p].phase = "claimed" /\ UNCHANGED work
    BY DEF Inv, TypeOK, Coalesce, tables
  <1>2. PICK related \in SUBSET S :
            tx' = [tx EXCEPT ![p].phase = "coalesced", ![p].locked = @ \cup S,
                             ![p].folded = related,
                             ![p].unlinked = tx[p].cur[1] \notin linked]
    BY DEF Coalesce
  <1>3. \A v \in S : /\ v # tx[p].cur
                     /\ \A q \in Workers : v \notin tx[q].locked
                     /\ work[v].status \in {"queued", "retrying"}
    BY DEF Siblings, LockedWorks
  <1> HIDE DEF S
  <1>4. /\ tx'[p].phase = "coalesced" /\ tx'[p].cur = tx[p].cur
        /\ tx'[p].locked = tx[p].locked \cup S /\ tx'[p].folded = related
        /\ \A q \in Workers \ {p} : tx'[q] = tx[q]
    BY <1>1, <1>2 DEF Tx
  <1>5. TxShape'
    BY <1>1, <1>2, <1>3, <1>4 DEF Inv, TxShape
  <1>6. LocksExclusive'
    BY <1>3, <1>4 DEF Inv, LocksExclusive
  <1>7. HeldIsOpen'
    BY <1>1, <1>3, <1>4 DEF Inv, HeldIsOpen
  <1>8. TurnsSerialized'
    BY <1>4 DEF Inv, TurnsSerialized, PastGate, Owner
  <1> QED
    BY <1>5, <1>6, <1>7, <1>8

\* A turn passes the gate only if no turn of the same student is past it.
LEMMA GateInv ==
    ASSUME Inv, NEW p \in Workers, Gate(p)
    PROVE  TxShape' /\ LocksExclusive' /\ HeldIsOpen' /\ TurnsSerialized'
  <1>1. tx \in [Workers -> Tx] /\ tx[p].phase = "coalesced" /\ UNCHANGED work
    BY DEF Inv, TypeOK, Gate, tables
  <1>2. /\ tx'[p].phase = "gated" /\ tx'[p].cur = tx[p].cur
        /\ tx'[p].locked = tx[p].locked /\ tx'[p].folded = tx[p].folded
        /\ \A q \in Workers \ {p} : tx'[q] = tx[q]
    BY <1>1 DEF Gate, Tx
  <1>3. GateOpen(p)
    BY DEF Gate
  <1>5. TxShape'
    BY <1>1, <1>2 DEF Inv, TxShape
  <1>6. LocksExclusive'
    BY <1>2 DEF Inv, LocksExclusive
  <1>7. HeldIsOpen'
    BY <1>1, <1>2 DEF Inv, HeldIsOpen
  <1>8. TurnsSerialized'
    BY <1>2, <1>3 DEF Inv, TurnsSerialized, GateOpen, PastGate, Owner
  <1> QED
    BY <1>5, <1>6, <1>7, <1>8

\* What Link, Answer and Send have in common: past the gate a turn keeps the
\* rows it holds.
KeepsRows(p) ==
    /\ PastGate(p) /\ tx'[p].phase \in {"linked", "sending"}
    /\ tx'[p].cur = tx[p].cur
    /\ tx'[p].locked = tx[p].locked /\ tx'[p].folded = tx[p].folded
    /\ tx'[p].phase = "sending" =>
            tx'[p].row.status \in {"completed", "retrying", "failed"}
    /\ \A q \in Workers \ {p} : tx'[q] = tx[q]
    /\ UNCHANGED work

\* Linking changes neither the locks nor the claimed Work of a turn.
LEMMA LinkKeeps ==
    ASSUME Inv, NEW p \in Workers, Link(p)
    PROVE  KeepsRows(p)
  BY DEF Inv, TypeOK, Link, Tx, PastGate, KeepsRows, tables

\* Nor does the end of the tutor turn.
LEMMA AnswerKeeps ==
    ASSUME Inv, NEW p \in Workers, Answer(p)
    PROVE  KeepsRows(p)
  <1>1. tx \in [Workers -> Tx] /\ tx[p] \in Tx /\ tx[p].phase = "linked" /\ UNCHANGED work
    BY DEF Inv, TypeOK, Answer, tables
  <1>2. tx[p].row \in WorkRow
    BY <1>1 DEF Tx
  <1>3. ASSUME NEW result, Complete(p, result)
        PROVE  KeepsRows(p)
    BY <1>1, <1>2, <1>3 DEF Complete, Tx, WorkRow, PastGate, KeepsRows
  <1>4. ASSUME NEW transient, Fail(p, transient)
        PROVE  KeepsRows(p)
    <2> DEFINE again == [tx[p].row EXCEPT !.status = "retrying", !.waiting = TRUE,
                                          !.transient = transient]
               given == [tx[p].row EXCEPT !.status = "failed", !.transient = transient]
    <2>1. again.status = "retrying" /\ given.status = "failed"
      BY <1>2 DEF WorkRow
    <2>2. CASE MayRetry(tx[p].row)
      <3>1. tx' = [tx EXCEPT ![p] = [tx[p] EXCEPT
                !.phase = "sending", !.row = again,
                !.mail = mail[tx[p].cur], !.todo = Pending(mail[tx[p].cur])]]
        BY <2>2, <1>4, <1>1 DEF Fail, Tx
      <3> HIDE DEF again, given
      <3> QED
        BY <1>1, <2>1, <3>1 DEF Tx, PastGate, KeepsRows
    <2>3. CASE ~MayRetry(tx[p].row)
      <3>1. tx' = [tx EXCEPT ![p] = [tx[p] EXCEPT
                !.phase = "sending", !.row = given,
                !.mail = Posted(tx[p].cur, "apology"),
                !.dirty = Added(tx[p].cur, "apology")]]
        BY <2>3, <1>4, <1>1 DEF Fail, Tx
      <3> HIDE DEF again, given
      <3> QED
        BY <1>1, <2>1, <3>1 DEF Tx, PastGate, KeepsRows
    <2> QED
      BY <2>2, <2>3
  <1> QED
    BY <1>3, <1>4 DEF Answer

\* Nor does a send.
LEMMA SendKeeps ==
    ASSUME Inv, NEW p \in Workers, NEW k \in Kinds, NEW result \in SendResults,
           Send(p, k, result)
    PROVE  KeepsRows(p)
  <1>1. tx \in [Workers -> Tx] /\ tx[p].phase = "sending" /\ UNCHANGED work
    BY DEF Inv, TypeOK, Send, tables
  <1>2. /\ tx'[p].phase = tx[p].phase /\ tx'[p].cur = tx[p].cur
        /\ tx'[p].locked = tx[p].locked /\ tx'[p].folded = tx[p].folded
        /\ tx'[p].row = tx[p].row
        /\ \A q \in Workers \ {p} : tx'[q] = tx[q]
    BY <1>1 DEF Send, Tx
  <1> QED
    BY <1>1, <1>2 DEF Inv, TxShape, KeepsRows, PastGate

\* A step that keeps the locks and the claimed Works keeps the invariant.
LEMMA TurnInv ==
    ASSUME Inv, NEW p \in Workers, KeepsRows(p)
    PROVE  TxShape' /\ LocksExclusive' /\ HeldIsOpen' /\ TurnsSerialized'
  <1>1. TxShape'
    BY DEF Inv, TxShape, PastGate, KeepsRows
  <1>2. LocksExclusive'
    BY DEF Inv, LocksExclusive, KeepsRows
  <1>3. HeldIsOpen'
    BY DEF Inv, HeldIsOpen, KeepsRows
  <1>4. TurnsSerialized'
    BY DEF Inv, TurnsSerialized, PastGate, Owner, KeepsRows
  <1> QED
    BY <1>1, <1>2, <1>3, <1>4

\* The end of a turn releases everything it held; what it wrote was held by
\* nobody else and "running" is not among it.
LEMMA EndInv ==
    ASSUME Inv, NEW p \in Workers, Commit(p) \/ Abort(p)
    PROVE  TxShape' /\ LocksExclusive' /\ HeldIsOpen' /\ TurnsSerialized'
  <1>1. tx \in [Workers -> Tx] /\ work \in [Works -> WorkRow]
    BY DEF Inv, TypeOK
  <1>2. tx' = [tx EXCEPT ![p] = IdleTx]
    BY DEF Commit, Abort
  <1>3. tx'[p] = IdleTx /\ \A q \in Workers \ {p} : tx'[q] = tx[q]
    BY <1>1, <1>2
  <1>4. TxShape'
    BY <1>3 DEF Inv, TxShape, IdleTx
  <1>5. LocksExclusive'
    BY <1>3 DEF Inv, LocksExclusive, IdleTx
  <1>6. HeldIsOpen'
    <2>1. CASE Abort(p)
      BY <1>3, <2>1 DEF Inv, HeldIsOpen, IdleTx, Abort, tables
    <2>2. CASE Commit(p)
      <3>1. work' = CommittedWork(p)
        BY <2>2 DEF Commit
      <3>2. /\ tx[p].cur \in tx[p].locked /\ tx[p].folded \subseteq tx[p].locked
            /\ tx[p].row.status # "running"
        BY <2>2 DEF Commit, Inv, TxShape
      <3>3. ASSUME NEW w \in Works
            PROVE  /\ w \notin tx[p].locked => work'[w] = work[w]
                   /\ work'[w].status # "running"
        <4>1. work[w] \in WorkRow /\ work[w].status # "running"
          BY <1>1 DEF Inv, HeldIsOpen
        <4>2. [work[w] EXCEPT !.status = "completed", !.into = tx[p].cur].status
                = "completed"
          BY <4>1 DEF WorkRow
        <4> QED
          BY <3>1, <3>2, <4>1, <4>2 DEF CommittedWork
      <3>4. \A q \in Workers \ {p} : \A w \in tx[q].locked : w \notin tx[p].locked
        BY DEF Inv, LocksExclusive
      <3>5. \A q \in Workers : tx[q].locked \subseteq Works
        BY <1>1 DEF Tx
      <3> QED
        BY <1>3, <3>3, <3>4, <3>5 DEF Inv, HeldIsOpen, IdleTx
    <2> QED
      BY <2>1, <2>2
  <1>7. TurnsSerialized'
    BY <1>3 DEF Inv, TurnsSerialized, PastGate, Owner, IdleTx
  <1> QED
    BY <1>4, <1>5, <1>6, <1>7

\* Nothing outside the turns closes an open Work or makes one "running".
LEMMA OutsideInv ==
    ASSUME Inv, UNCHANGED tx,
           \A w \in Works :
              /\ work'[w].status # "running"
              /\ work[w].status \in {"queued", "retrying"} =>
                    work'[w].status \in {"queued", "retrying"}
    PROVE  TxShape' /\ LocksExclusive' /\ HeldIsOpen' /\ TurnsSerialized'
  <1>1. \A q \in Workers : tx[q].locked \subseteq Works
    BY DEF Inv, TypeOK, Tx
  <1>2. HeldIsOpen'
    BY <1>1 DEF Inv, HeldIsOpen
  <1> QED
    BY <1>2 DEF Inv, TxShape, LocksExclusive, TurnsSerialized, PastGate, Owner

\* A webhook is a step outside the turns: it only opens an absent Work.
LEMMA AcceptOutside ==
    ASSUME Inv, NEW m \in Messages, Accept(m)
    PROVE  TxShape' /\ LocksExclusive' /\ HeldIsOpen' /\ TurnsSerialized'
  <1> DEFINE row == [NoRow EXCEPT !.status = "queued", !.priority = InboundPriority,
                                  !.born = clock]
  <1>1. work' = [work EXCEPT ![<<m, "inbound">>] = row] /\ UNCHANGED tx
    BY DEF Accept
  <1>2. row.status = "queued"
    BY DEF NoRow
  <1> HIDE DEF row
  <1>3. \A w \in Works : work'[w] = work[w] \/ work'[w].status = "queued"
    BY <1>1, <1>2 DEF Inv, TypeOK
  <1>4. \A w \in Works : work[w].status # "running"
    BY DEF Inv, HeldIsOpen
  <1> QED
    BY <1>1, <1>3, <1>4, OutsideInv

\* The passing of next_retry_at closes nothing.
LEMMA TimeOutside ==
    ASSUME Inv, (\E m \in Messages : Age(m)) \/ TimeStep
    PROVE  TxShape' /\ LocksExclusive' /\ HeldIsOpen' /\ TurnsSerialized'
  <1>1. \A w \in Works : work[w] \in WorkRow /\ work[w].status # "running"
    BY DEF Inv, TypeOK, HeldIsOpen
  <1>2. ASSUME NEW v \in Works, WorkDue(v)
        PROVE  UNCHANGED tx /\ \A w \in Works : work'[w].status = work[w].status
    BY <1>1, <1>2 DEF WorkDue, WorkRow, Inv, TypeOK
  <1>3. UNCHANGED tx /\ \A w \in Works : work'[w].status = work[w].status
    BY <1>2 DEF TimeStep, Age, MailDue, tables
  <1> QED
    BY <1>1, <1>3, OutsideInv

\* The recovery loop opens absent and failed Works and closes none.
LEMMA CycleOutside ==
    ASSUME Inv, CycleStep \/ AbortCycle
    PROVE  TxShape' /\ LocksExclusive' /\ HeldIsOpen' /\ TurnsSerialized'
  <1>1. \A w \in Works : work[w] \in WorkRow /\ work[w].status # "running"
    BY DEF Inv, TypeOK, HeldIsOpen
  <1>2. CASE UNCHANGED <<tx, work>>
    BY <1>1, <1>2, OutsideInv
  <1>3. ASSUME NEW revived \in {{}, Revivable}, CommitCycle(revived)
        PROVE  UNCHANGED tx /\ \A w \in Works :
                    \/ work'[w] = work[w]
                    \/ work'[w].status \in {"queued", "retrying"}
    <2>1. /\ [NoRow EXCEPT !.status = "queued", !.priority = RecoveryPriority,
                           !.born = clock].status = "queued"
          /\ \A w \in Works :
                [work[w] EXCEPT !.status = "retrying", !.waiting = FALSE].status = "retrying"
      BY <1>1 DEF NoRow, WorkRow
    <2> QED
      BY <1>3, <2>1 DEF CommitCycle
  <1>4. CASE \E revived \in {{}, Revivable} : CommitCycle(revived)
    BY <1>1, <1>3, <1>4, OutsideInv
  <1> QED
    BY <1>2, <1>4 DEF CycleStep, AbortCycle, Sweep, Take, Resend, tables

\* Every step of the pipeline keeps the inductive invariant.
LEMMA NextInv == Inv /\ [Next]_vars => Inv'
  <1> SUFFICES ASSUME Inv, [Next]_vars
               PROVE  Inv'
    OBVIOUS
  <1> USE DEF Inv
  <1>1. ASSUME NEW m \in Messages, Accept(m)
        PROVE  Inv'
    BY <1>1, AcceptType, AcceptOutside
  <1>2. CASE (\E m \in Messages : Age(m)) \/ TimeStep
    BY <1>2, TimeType, TimeOutside
  <1>3. ASSUME NEW p \in Workers, WorkerStep(p)
        PROVE  Inv'
    <2>1. CASE Claim(p)
      BY <2>1, ClaimType, ClaimInv
    <2>2. CASE Coalesce(p)
      BY <2>2, CoalesceType, CoalesceInv
    <2>3. CASE Gate(p)
      BY <2>3, GateType, GateInv
    <2>4. CASE Link(p)
      BY <2>4, LinkType, LinkKeeps, TurnInv
    <2>5. CASE Answer(p)
      BY <2>5, AnswerType, AnswerKeeps, TurnInv
    <2>6. ASSUME NEW k \in Kinds, NEW result \in SendResults, Send(p, k, result)
          PROVE  Inv'
      BY <2>6, SendType, SendKeeps, TurnInv
    <2>7. CASE Commit(p)
      BY <2>7, CommitType, EndInv
    <2> QED
      BY <1>3, <2>1, <2>2, <2>3, <2>4, <2>5, <2>6, <2>7 DEF WorkerStep
  <1>4. ASSUME NEW p \in Workers, Abort(p)
        PROVE  Inv'
    BY <1>4, AbortType, EndInv
  <1>5. CASE CycleStep
    BY <1>5, CycleType, CycleOutside
  <1>6. CASE AbortCycle
    BY <1>6, AbortCycleType, CycleOutside
  <1>7. CASE UNCHANGED vars
    <2>1. TypeOK'
      BY <1>7 DEF TypeOK, vars, tables, bounds
    <2> QED
      BY <1>7, <2>1 DEF TxShape, LocksExclusive, HeldIsOpen, TurnsSerialized, PastGate,
                        Owner, vars, tables
  <1> QED
    BY <1>1, <1>2, <1>3, <1>4, <1>5, <1>6, <1>7 DEF Next

\* The inductive invariant holds in every reachable state of the pipeline.
THEOREM InvHolds == Spec => []Inv
  BY InitInv, NextInv, PTL DEF Spec

-----------------------------------------------------------------------------
(* The theorems. *)

\* Every variable has its type, for any number of workers and messages.
THEOREM TypeCorrect == Spec => []TypeOK
  BY InvHolds, PTL DEF Inv

\* Two workers never hold the same Work: what FOR UPDATE SKIP LOCKED in
\* claim_next and find_coalescable_works is for.
THEOREM LocksAreExclusive == Spec => []LocksExclusive
  BY InvHolds, PTL DEF Inv

\* A Work stays open for everyone until the turn that holds it commits, and
\* no committed row is ever "running".
THEOREM HeldWorkIsOpen == Spec => []HeldIsOpen
  BY InvHolds, PTL DEF Inv

\* Past decide_durable there is at most one turn of a student.
THEOREM TurnsAreSerialized == Spec => []TurnsSerialized
  BY InvHolds, PTL DEF Inv

-----------------------------------------------------------------------------
(***************************************************************************)
(* Turns implements WorkLedger.                                            *)
(*                                                                         *)
(* The mapping forgets the transactions, so what a transaction is about to *)
(* write has to be known before it commits: OutboxOf says what a turn has  *)
(* buffered, and the rows it holds are open for everyone (HeldIsOpen).     *)
(***************************************************************************)

\* A Work that does not exist yet was never tried.
AbsentIsNew == \A w \in Works : work[w].status = "absent" => work[w].attempt = 0

Posts(w, k) == mail[w][k].status # "absent"

\* What the recovery loop has taken is in the outbox.
TakenIsPosted ==
    \A d \in rec.batch \cup rec.acked \cup rec.failed : Posts(d[1], d[2])

\* What a turn has yet to commit.  It folds in Works of its conversation only,
\* and a delivery it is about to write is either in the outbox already or goes
\* there with the status that explains it.
OutboxOf(p) ==
    LET w == tx[p].cur IN
    /\ tx[p].row.into = NoWork
    /\ tx[p].row.attempt >= work[w].attempt
    /\ \A v \in tx[p].folded : ConversationOf[v[1]] = ConversationOf[w[1]]
    /\ tx[p].phase # "sending" => tx[p].dirty = {} /\ tx[p].todo = {}
    /\ \A k \in tx[p].dirty \cup tx[p].todo :
          /\ tx[p].mail[k].status # "absent"
          /\ \/ Posts(w, k)
             \/ k = "reply" /\ tx[p].row.status = "completed"
             \/ /\ k = "apology" /\ tx[p].row.status = "failed"
                /\ tx[p].row.attempt >= MaxAttempts
    /\ tx[p].phase = "sending" /\ tx[p].row.status = "failed" /\ HasTarget(w) =>
          "apology" \in tx[p].dirty \/ Posts(w, "apology")

TurnsHold == \A p \in Workers : tx[p].phase # "idle" => OutboxOf(p)

\* A sweep holds what no turn is linking, and links what it makes a Work for.
SweepHolds ==
    /\ \A m \in rec.orphans : m \notin linked /\ ~MessageLocked(m)
    /\ \A m \in Messages : work[<<m, "recovery">>].status # "absent" => m \in linked

LedgerAgrees ==
    /\ OutboxAgrees /\ FoldedIsClosed /\ SweepHolds
    /\ AbsentIsNew /\ TakenIsPosted /\ TurnsHold

LInv == Inv /\ LedgerAgrees

-----------------------------------------------------------------------------
(* Steps that change nothing the ledger sees. *)

\* The status, the attempts and the fate of every Work, and what is posted.
SameLedger ==
    /\ \A w \in Works : /\ work'[w].status = work[w].status
                        /\ work'[w].attempt = work[w].attempt
                        /\ work'[w].into = work[w].into
                        /\ \A k \in Kinds : Posts(w, k)' <=> Posts(w, k)
    /\ linked' = linked

\* No Work a turn holds is tried meanwhile, and nothing leaves the outbox.
Monotone ==
    \A w \in Works :
        /\ \A k \in Kinds : Posts(w, k) => Posts(w, k)'
        /\ work[w].status \in {"queued", "retrying"} => work'[w].attempt = work[w].attempt

\* A Work has a reply and an apology.
LEMMA KindsAre == Kinds = {"reply", "apology"}
  BY DEF Kinds

\* A step that changes nothing does nothing forbidden.
LEMMA SameIsMonotone == SameLedger => Monotone
  BY DEF SameLedger, Monotone

\* The part of LedgerAgrees that is about committed rows.
Committed ==
    /\ OutboxAgrees /\ FoldedIsClosed /\ AbsentIsNew
    /\ \A m \in Messages : work[<<m, "recovery">>].status # "absent" => m \in linked

\* Messages the sweep has locked are nobody's.
OrphansFree == \A m \in rec.orphans : m \notin linked /\ ~MessageLocked(m)

\* LedgerAgrees, taken apart by who may change it.
LEMMA Parts ==
    LedgerAgrees <=> Committed /\ OrphansFree /\ TakenIsPosted /\ TurnsHold
  BY DEF LedgerAgrees, Committed, SweepHolds, OrphansFree

\* Committed rows that do not change go on agreeing.
LEMMA CommittedKept ==
    ASSUME Committed, TypeOK, SameLedger
    PROVE  Committed'
  <1>1. \A w \in Works : work[w] \in WorkRow
    BY DEF TypeOK
  <1>2. OutboxAgrees'
    BY KindsAre DEF Committed, SameLedger, OutboxAgrees, Posts, HasTarget
  <1>3. FoldedIsClosed'
    BY <1>1, KindsAre DEF Committed, SameLedger, FoldedIsClosed, Posts
  <1>4. AbsentIsNew'
    BY DEF Committed, SameLedger, AbsentIsNew
  <1>5. \A m \in Messages : <<m, "recovery">> \in Works
    BY DEF Works
  <1> QED
    BY <1>2, <1>3, <1>4, <1>5 DEF Committed, SameLedger

\* A turn that does nothing goes on holding what it held.
LEMMA TurnStays ==
    ASSUME LInv, Monotone, NEW q \in Workers, tx'[q] = tx[q], tx[q].phase # "idle"
    PROVE  OutboxOf(q)'
  <1> DEFINE w == tx[q].cur
  <1>1. w \in Works /\ w \in tx[q].locked /\ tx[q] \in Tx
    BY CurType DEF LInv, Inv, TxShape
  <1>2. work[w].status \in {"queued", "retrying"}
    BY <1>1 DEF LInv, Inv, HeldIsOpen
  <1>3. work'[w].attempt = work[w].attempt /\ \A k \in Kinds : Posts(w, k) => Posts(w, k)'
    BY <1>1, <1>2 DEF Monotone
  <1>4. tx[q].dirty \cup tx[q].todo \subseteq Kinds
    BY <1>1 DEF Tx
  <1>5. OutboxOf(q)
    BY DEF LInv, LedgerAgrees, TurnsHold
  <1> QED
    BY <1>3, <1>4, <1>5, KindsAre DEF OutboxOf, HasTarget

\* What is taken is still posted when the loop takes nothing new.
LEMMA TakenStays ==
    ASSUME LInv, Monotone,
           rec'.batch \cup rec'.acked \cup rec'.failed
              \subseteq rec.batch \cup rec.acked \cup rec.failed
    PROVE  TakenIsPosted'
  <1>1. \A d \in rec.batch \cup rec.acked \cup rec.failed : d \in Deliveries
    BY DEF LInv, Inv, TypeOK, Rec
  <1>2. \A d \in Deliveries : d[1] \in Works /\ d[2] \in Kinds
    BY DEF Deliveries
  <1> QED
    BY <1>1, <1>2 DEF LInv, LedgerAgrees, TakenIsPosted, Monotone

\* A step of one turn, or of the recovery loop, that changes no table.
LEMMA TurnStep ==
    ASSUME LInv, SameLedger, NEW p \in Workers, \A q \in Workers \ {p} : tx'[q] = tx[q],
           rec' = rec, tx'[p].phase # "idle" => OutboxOf(p)',
           tx'[p].linking /\ tx'[p].cur[1] \in rec.orphans =>
              tx[p].linking /\ tx[p].cur[1] = tx'[p].cur[1]
    PROVE  LedgerAgrees'
  <1>1. Monotone
    BY SameIsMonotone
  <1>2. Committed'
    BY CommittedKept, Parts DEF LInv, Inv
  <1>3. TurnsHold'
    BY <1>1, TurnStays DEF TurnsHold
  <1>4. TakenIsPosted'
    BY <1>1, TakenStays
  <1>5. OrphansFree'
    <2>1. OrphansFree
      BY Parts DEF LInv
    <2> QED
      BY <2>1 DEF OrphansFree, MessageLocked, SameLedger
  <1> QED
    BY <1>2, <1>3, <1>4, <1>5 DEF LedgerAgrees, Committed, SweepHolds, OrphansFree

\* A step outside the turns that changes no table.
LEMMA OutsideStep ==
    ASSUME LInv, SameLedger, tx' = tx, OrphansFree', TakenIsPosted'
    PROVE  LedgerAgrees'
  <1>1. Monotone
    BY SameIsMonotone
  <1>2. Committed'
    BY CommittedKept, Parts DEF LInv, Inv
  <1>3. TurnsHold'
    BY <1>1, TurnStays DEF TurnsHold
  <1> QED
    BY <1>2, <1>3 DEF LedgerAgrees, Committed, SweepHolds, OrphansFree

-----------------------------------------------------------------------------
(* The steps of a turn. *)

\* No table changes.
LEMMA TablesSame ==
    ASSUME UNCHANGED <<work, mail, linked>>
    PROVE  SameLedger
  BY DEF SameLedger, Posts

\* A claim takes an open Work, which was never folded.
LEMMA ClaimAgrees ==
    ASSUME LInv, NEW p \in Workers, Claim(p)
    PROVE  LedgerAgrees'
  <1>1. tx \in [Workers -> Tx] /\ work \in [Works -> WorkRow]
    BY DEF LInv, Inv, TypeOK
  <1>2. PICK w \in Claimable \ LockedWorks :
            tx' = [tx EXCEPT ![p] = [IdleTx EXCEPT
                !.phase = "claimed", !.cur = w, !.row = ClaimedRow(w), !.locked = {w}]]
    BY DEF Claim
  <1>3. /\ tx'[p].phase = "claimed" /\ tx'[p].cur = w /\ tx'[p].row = ClaimedRow(w)
        /\ tx'[p].folded = {} /\ tx'[p].linking = FALSE
        /\ tx'[p].dirty = {} /\ tx'[p].todo = {}
        /\ \A q \in Workers \ {p} : tx'[q] = tx[q]
    BY <1>1, <1>2 DEF IdleTx
  <1>4. w \in Works /\ work[w].status \in {"queued", "retrying"} /\ work[w] \in WorkRow
    BY <1>1, <1>2 DEF Claimable
  <1>5. work[w].into = NoWork
    BY <1>4 DEF LInv, LedgerAgrees, FoldedIsClosed
  <1>6. ClaimedRow(w).into = NoWork /\ ClaimedRow(w).attempt = work[w].attempt + 1
    BY <1>4, <1>5 DEF ClaimedRow, WorkRow
  <1>7. UNCHANGED <<work, mail, linked, rec>>
    BY DEF Claim, tables
  <1>8. OutboxOf(p)'
    BY <1>3, <1>4, <1>6, <1>7 DEF OutboxOf, WorkRow
  <1> QED
    BY <1>3, <1>7, <1>8, TablesSame, TurnStep

\* A turn that changes neither its Work nor what it is about to send.
LEMMA OutboxSame ==
    ASSUME LInv, NEW p \in Workers, UNCHANGED <<work, mail>>, tx[p].phase # "idle",
           tx'[p].cur = tx[p].cur,
           tx'[p].row.into = tx[p].row.into, tx'[p].row.attempt = tx[p].row.attempt,
           \A v \in tx'[p].folded :
              v \in tx[p].folded \/ ConversationOf[v[1]] = ConversationOf[tx[p].cur[1]],
           tx[p].phase # "sending", tx'[p].phase # "sending",
           tx'[p].dirty = tx[p].dirty, tx'[p].todo = tx[p].todo
    PROVE  OutboxOf(p)'
  <1>1. OutboxOf(p) /\ tx[p].dirty = {} /\ tx[p].todo = {}
    BY DEF LInv, LedgerAgrees, TurnsHold, OutboxOf
  <1> QED
    BY <1>1 DEF OutboxOf

\* What is folded in is of the conversation of the claimed Work.
LEMMA CoalesceAgrees ==
    ASSUME LInv, NEW p \in Workers, Coalesce(p)
    PROVE  LedgerAgrees'
  <1>1. tx \in [Workers -> Tx] /\ tx[p] \in Tx /\ tx[p].phase = "claimed"
    BY DEF LInv, Inv, TypeOK, Coalesce
  <1>2. PICK related \in SUBSET Siblings(tx[p].cur) :
            tx' = [tx EXCEPT ![p].phase = "coalesced",
                             ![p].locked = @ \cup Siblings(tx[p].cur),
                             ![p].folded = related,
                             ![p].unlinked = tx[p].cur[1] \notin linked]
    BY DEF Coalesce
  <1>3. \A v \in related : ConversationOf[v[1]] = ConversationOf[tx[p].cur[1]]
    BY DEF Siblings
  <1>4. /\ tx'[p].phase = "coalesced" /\ tx'[p].cur = tx[p].cur /\ tx'[p].row = tx[p].row
        /\ tx'[p].folded = related /\ tx'[p].linking = tx[p].linking
        /\ tx'[p].dirty = tx[p].dirty /\ tx'[p].todo = tx[p].todo
        /\ \A q \in Workers \ {p} : tx'[q] = tx[q]
    BY <1>1, <1>2 DEF Tx
  <1>5. UNCHANGED <<work, mail, linked, rec>>
    BY DEF Coalesce, tables
  <1>6. OutboxOf(p)'
    BY <1>1, <1>3, <1>4, <1>5, OutboxSame
  <1> QED
    BY <1>4, <1>5, <1>6, TablesSame, TurnStep

\* A lower priority changes nothing the ledger sees.
LEMMA GateAgrees ==
    ASSUME LInv, NEW p \in Workers, Gate(p)
    PROVE  LedgerAgrees'
  <1>1. tx \in [Workers -> Tx] /\ tx[p] \in Tx /\ tx[p].phase = "coalesced"
        /\ tx[p].row \in WorkRow
    BY DEF LInv, Inv, TypeOK, Gate, Tx
  <1>2. /\ tx'[p].phase = "gated" /\ tx'[p].cur = tx[p].cur
        /\ tx'[p].row.into = tx[p].row.into /\ tx'[p].row.attempt = tx[p].row.attempt
        /\ tx'[p].folded = tx[p].folded /\ tx'[p].linking = tx[p].linking
        /\ tx'[p].dirty = tx[p].dirty /\ tx'[p].todo = tx[p].todo
        /\ \A q \in Workers \ {p} : tx'[q] = tx[q]
    BY <1>1 DEF Gate, Tx, WorkRow
  <1>3. UNCHANGED <<work, mail, linked, rec>>
    BY DEF Gate, tables
  <1>4. OutboxOf(p)'
    BY <1>1, <1>2, <1>3, OutboxSame
  <1> QED
    BY <1>2, <1>3, <1>4, TablesSame, TurnStep

\* The update of a message waits for the sweep that holds it.
LEMMA LinkAgrees ==
    ASSUME LInv, NEW p \in Workers, Link(p)
    PROVE  LedgerAgrees'
  <1>1. tx \in [Workers -> Tx] /\ tx[p] \in Tx /\ tx[p].phase = "gated"
    BY DEF LInv, Inv, TypeOK, Link
  <1>2. PICK linking \in {FALSE, tx[p].unlinked} :
            /\ linking => tx[p].cur[1] \notin rec.orphans
            /\ tx' = [tx EXCEPT ![p].phase = "linked", ![p].unlinked = FALSE,
                                ![p].linking = linking]
    BY DEF Link
  <1>3. /\ tx'[p].phase = "linked" /\ tx'[p].cur = tx[p].cur /\ tx'[p].row = tx[p].row
        /\ tx'[p].folded = tx[p].folded /\ tx'[p].linking = linking
        /\ tx'[p].dirty = tx[p].dirty /\ tx'[p].todo = tx[p].todo
        /\ \A q \in Workers \ {p} : tx'[q] = tx[q]
    BY <1>1, <1>2 DEF Tx
  <1>4. UNCHANGED <<work, mail, linked, rec>>
    BY DEF Link, tables
  <1>5. OutboxOf(p)'
    BY <1>1, <1>3, <1>4, OutboxSame
  <1> QED
    BY <1>2, <1>3, <1>4, <1>5, TablesSame, TurnStep

\* What _ensure_delivery puts in the outbox of a Work.
LEMMA PostedFacts ==
    ASSUME TypeOK, NEW w \in Works, NEW k \in Kinds
    PROVE  /\ \A j \in Kinds : j # k => Posted(w, k)[j] = mail[w][j]
           /\ Added(w, k) \subseteq {k}
           /\ k \in Added(w, k) => Posted(w, k)[k].status = "pending"
           /\ HasTarget(w) => k \in Added(w, k) \/ Posts(w, k)
           /\ Posted(w, k)[k].status # "pending" \/ k \in Added(w, k) \/ Posts(w, k)
  <1>1. mail[w] \in [Kinds -> MailRow] /\ mail[w][k] \in MailRow
    BY DEF TypeOK
  <1> DEFINE pending == [mail[w][k] EXCEPT !.status = "pending"]
             rows == [mail[w] EXCEPT ![k].status = "pending"]
  <1>2. pending.status = "pending"
    BY <1>1 DEF MailRow
  <1>3. rows = [mail[w] EXCEPT ![k] = pending]
    OBVIOUS
  <1> HIDE DEF pending
  <1>4. rows[k].status = "pending" /\ \A j \in Kinds : j # k => rows[j] = mail[w][j]
    BY <1>1, <1>2, <1>3
  <1>5. CASE HasTarget(w) /\ mail[w][k].status = "absent"
    <2>1. Posted(w, k) = rows
      BY <1>5 DEF Posted
    <2>2. rows # mail[w]
      BY <1>4, <1>5
    <2> HIDE DEF rows
    <2> QED
      BY <1>4, <2>1, <2>2 DEF Added
  <1>6. CASE ~(HasTarget(w) /\ mail[w][k].status = "absent")
    <2>1. Posted(w, k) = mail[w] /\ Added(w, k) = {}
      BY <1>6 DEF Posted, Added
    <2> QED
      BY <1>6, <2>1 DEF Posts
  <1> QED
    BY <1>5, <1>6

\* A reply goes to the outbox with the completion of its Work.
LEMMA CompleteOutbox ==
    ASSUME LInv, NEW p \in Workers, NEW result \in TurnResults, tx[p].phase = "linked",
           Complete(p, result), UNCHANGED <<work, mail>>
    PROVE  OutboxOf(p)'
  <1> DEFINE w == tx[p].cur
             rows == IF result = "reply" THEN Posted(w, "reply") ELSE mail[w]
             added == IF result = "reply" THEN Added(w, "reply") ELSE {}
             row == [tx[p].row EXCEPT !.status = "completed"]
  <1>1. tx \in [Workers -> Tx] /\ tx[p] \in Tx /\ w \in Works /\ tx[p].row \in WorkRow
        /\ TypeOK
    BY CurType DEF LInv, Inv, TypeOK, Tx
  <1>2. tx' = [tx EXCEPT ![p] = [tx[p] EXCEPT !.phase = "sending", !.row = row,
            !.mail = rows, !.todo = Pending(rows), !.dirty = added]]
    BY <1>1 DEF Complete, Tx
  <1>3. row.status = "completed" /\ row.into = tx[p].row.into
        /\ row.attempt = tx[p].row.attempt
    BY <1>1 DEF WorkRow
  <1>4. \A k \in added \cup Pending(rows) :
            rows[k].status # "absent" /\ (Posts(w, k) \/ k = "reply")
    BY <1>1, KindsAre, PostedFacts DEF Pending, Posts
  <1> HIDE DEF rows, added, row
  <1>5. /\ tx'[p].phase = "sending" /\ tx'[p].cur = w /\ tx'[p].row = row
        /\ tx'[p].mail = rows /\ tx'[p].todo = Pending(rows) /\ tx'[p].dirty = added
        /\ tx'[p].folded = tx[p].folded
    BY <1>1, <1>2 DEF Tx
  <1>6. OutboxOf(p)
    BY DEF LInv, LedgerAgrees, TurnsHold
  <1> QED
    BY <1>3, <1>4, <1>5, <1>6 DEF OutboxOf, Posts

\* An apology goes there only when no attempt is left.
LEMMA FailOutbox ==
    ASSUME LInv, NEW p \in Workers, NEW transient \in BOOLEAN, tx[p].phase = "linked",
           Fail(p, transient), UNCHANGED <<work, mail>>
    PROVE  OutboxOf(p)'
  <1> DEFINE w == tx[p].cur
             again == [tx[p].row EXCEPT !.status = "retrying", !.waiting = TRUE,
                                        !.transient = transient]
             given == [tx[p].row EXCEPT !.status = "failed", !.transient = transient]
  <1>1. tx \in [Workers -> Tx] /\ tx[p] \in Tx /\ w \in Works /\ tx[p].row \in WorkRow
        /\ TypeOK
    BY CurType DEF LInv, Inv, TypeOK, Tx
  <1>2. /\ again.status = "retrying" /\ given.status = "failed"
        /\ again.into = tx[p].row.into /\ given.into = tx[p].row.into
        /\ again.attempt = tx[p].row.attempt /\ given.attempt = tx[p].row.attempt
    BY <1>1 DEF WorkRow
  <1>3. OutboxOf(p) /\ tx[p].dirty = {} /\ tx[p].todo = {}
    BY DEF LInv, LedgerAgrees, TurnsHold, OutboxOf
  <1>4. CASE MayRetry(tx[p].row)
    <2>1. tx' = [tx EXCEPT ![p] = [tx[p] EXCEPT !.phase = "sending", !.row = again,
                    !.mail = mail[w], !.todo = Pending(mail[w])]]
      BY <1>1, <1>4 DEF Fail, Tx
    <2> HIDE DEF again, given
    <2>2. /\ tx'[p].phase = "sending" /\ tx'[p].cur = w /\ tx'[p].row = again
          /\ tx'[p].mail = mail[w] /\ tx'[p].todo = Pending(mail[w])
          /\ tx'[p].dirty = {} /\ tx'[p].folded = tx[p].folded
      BY <1>1, <1>3, <2>1 DEF Tx
    <2>3. \A k \in Pending(mail[w]) : mail[w][k].status # "absent"
      BY DEF Pending
    <2> QED
      BY <1>2, <1>3, <2>2, <2>3 DEF OutboxOf, Posts
  <1>5. CASE ~MayRetry(tx[p].row)
    <2> DEFINE rows == Posted(w, "apology")
               added == Added(w, "apology")
    <2>1. tx' = [tx EXCEPT ![p] = [tx[p] EXCEPT !.phase = "sending", !.row = given,
                    !.mail = rows, !.dirty = added]]
      BY <1>1, <1>5 DEF Fail, Tx
    <2>2. /\ added \subseteq {"apology"}
          /\ "apology" \in added => rows["apology"].status # "absent"
          /\ HasTarget(w) => "apology" \in added \/ Posts(w, "apology")
      BY <1>1, KindsAre, PostedFacts
    <2>3. given.attempt >= MaxAttempts
      BY <1>1, <1>2, <1>5, TurnsAssumption DEF MayRetry, WorkRow
    <2> HIDE DEF again, given, rows, added
    <2>4. /\ tx'[p].phase = "sending" /\ tx'[p].cur = w /\ tx'[p].row = given
          /\ tx'[p].mail = rows /\ tx'[p].todo = {}
          /\ tx'[p].dirty = added /\ tx'[p].folded = tx[p].folded
      BY <1>1, <1>3, <2>1 DEF Tx
    <2> QED
      BY <1>2, <1>3, <2>2, <2>3, <2>4 DEF OutboxOf, Posts
  <1> QED
    BY <1>4, <1>5

\* However the tutor ends, nothing is committed yet.
LEMMA AnswerAgrees ==
    ASSUME LInv, NEW p \in Workers, Answer(p)
    PROVE  LedgerAgrees'
  <1>1. tx \in [Workers -> Tx] /\ tx[p] \in Tx /\ tx[p].phase = "linked"
    BY DEF LInv, Inv, TypeOK, Answer
  <1>2. UNCHANGED <<work, mail, linked, rec>>
    BY DEF Answer, tables
  <1>3. OutboxOf(p)'
    BY <1>1, <1>2, CompleteOutbox, FailOutbox DEF Answer
  <1>4. /\ tx'[p].cur = tx[p].cur /\ tx'[p].linking = tx[p].linking
        /\ \A q \in Workers \ {p} : tx'[q] = tx[q]
    <2>1. ASSUME NEW result, Complete(p, result)
          PROVE  tx'[p].linking = tx[p].linking
      BY <1>1, <2>1 DEF Complete, Tx
    <2>2. ASSUME NEW transient, Fail(p, transient)
          PROVE  tx'[p].linking = tx[p].linking
      <3>1. CASE MayRetry(tx[p].row)
        BY <1>1, <2>2, <3>1 DEF Fail, Tx
      <3>2. CASE ~MayRetry(tx[p].row)
        BY <1>1, <2>2, <3>2 DEF Fail, Tx
      <3> QED
        BY <3>1, <3>2
    <2> QED
      BY <2>1, <2>2, AnswerKeeps DEF LInv, KeepsRows, Answer
  <1> QED
    BY <1>2, <1>3, <1>4, TablesSame, TurnStep

\* A send moves a delivery from those to be sent to those to be written.
LEMMA SendAgrees ==
    ASSUME LInv, NEW p \in Workers, NEW k \in Kinds, NEW result \in SendResults,
           Send(p, k, result)
    PROVE  LedgerAgrees'
  <1> DEFINE w == tx[p].cur
             rows == [tx[p].mail EXCEPT ![k] = Attempted(@, result)]
  <1>1. tx \in [Workers -> Tx] /\ tx[p] \in Tx /\ tx[p].phase = "sending"
        /\ k \in tx[p].todo /\ w \in Works
    BY CurType DEF LInv, Inv, TypeOK, Send
  <1>2. tx[p].mail \in [Kinds -> MailRow] /\ tx[p].mail[k] \in MailRow
    BY <1>1 DEF Tx
  <1>3. Attempted(tx[p].mail[k], result).status # "absent"
    BY <1>2 DEF Attempted, MailRow
  <1>4. rows[k].status # "absent" /\ \A j \in Kinds : j # k => rows[j] = tx[p].mail[j]
    BY <1>2, <1>3
  <1>5. /\ tx'[p].phase = "sending" /\ tx'[p].cur = w /\ tx'[p].row = tx[p].row
        /\ tx'[p].mail = rows /\ tx'[p].todo = tx[p].todo \ {k}
        /\ tx'[p].dirty = tx[p].dirty \cup {k} /\ tx'[p].folded = tx[p].folded
        /\ tx'[p].linking = tx[p].linking
        /\ \A q \in Workers \ {p} : tx'[q] = tx[q]
    BY <1>1 DEF Send, Tx
  <1> HIDE DEF rows
  <1>6. UNCHANGED <<work, mail, linked, rec>>
    BY DEF Send, tables
  <1>7. OutboxOf(p) /\ tx[p].dirty \cup tx[p].todo \subseteq Kinds
    BY <1>1 DEF LInv, LedgerAgrees, TurnsHold, Tx
  <1>8. OutboxOf(p)'
    BY <1>1, <1>4, <1>5, <1>6, <1>7, KindsAre DEF OutboxOf, Posts
  <1> QED
    BY <1>5, <1>6, <1>8, TablesSame, TurnStep

\* A rollback leaves the tables as they were.
LEMMA AbortAgrees ==
    ASSUME LInv, NEW p \in Workers, Abort(p)
    PROVE  LedgerAgrees'
  <1>1. tx'[p] = IdleTx /\ \A q \in Workers \ {p} : tx'[q] = tx[q]
    BY DEF LInv, Inv, TypeOK, Abort
  <1>2. UNCHANGED <<work, mail, linked, rec>>
    BY DEF Abort, tables
  <1> QED
    BY <1>1, <1>2, TablesSame, TurnStep DEF IdleTx

\* What a commit writes: rows nobody else holds, the Work it answers and the
\* Works it folds in, and the deliveries it has put in the outbox or tried.
LEMMA CommitEffect ==
    ASSUME LInv, NEW p \in Workers, Commit(p)
    PROVE  /\ tx[p].cur \in Works /\ tx[p].folded \subseteq Works \ {tx[p].cur}
           /\ \A v \in tx[p].folded \cup {tx[p].cur} : work[v].status \in {"queued", "retrying"}
           /\ tx[p].row \in WorkRow
           /\ tx[p].row.status \in {"completed", "retrying", "failed"}
           /\ \A v \in Works :
                /\ v = tx[p].cur => work'[v] = tx[p].row
                /\ v \in tx[p].folded => /\ work'[v].status = "completed"
                                          /\ work'[v].into = tx[p].cur
                                          /\ work'[v].attempt = work[v].attempt
                /\ v # tx[p].cur /\ v \notin tx[p].folded => work'[v] = work[v]
           /\ \A v \in Works, k \in Kinds :
                Posts(v, k)' <=> Posts(v, k) \/ (v = tx[p].cur /\ k \in tx[p].dirty)
  <1> DEFINE w == tx[p].cur
             row == tx[p].row
             folded == tx[p].folded
  <1>1. /\ tx \in [Workers -> Tx] /\ tx[p] \in Tx /\ tx[p].phase = "sending"
        /\ w \in Works /\ work \in [Works -> WorkRow] /\ row \in WorkRow
        /\ mail \in [Works -> [Kinds -> MailRow]] /\ tx[p].mail \in [Kinds -> MailRow]
        /\ tx[p].dirty \subseteq Kinds
    BY CurType DEF LInv, Inv, TypeOK, Commit, Tx
  <1>2. /\ w \in tx[p].locked /\ folded \subseteq tx[p].locked \ {w}
        /\ tx[p].locked \subseteq Works
        /\ row.status \in {"completed", "retrying", "failed"}
    BY <1>1 DEF LInv, Inv, TxShape, Tx
  <1>3. \A v \in tx[p].locked : work[v].status \in {"queued", "retrying"}
    BY DEF LInv, Inv, HeldIsOpen
  <1>4. OutboxOf(p)
    BY <1>1 DEF LInv, LedgerAgrees, TurnsHold
  <1>5. ASSUME NEW v \in Works
        PROVE  /\ v = w => work'[v] = row
               /\ v \in folded => /\ work'[v].status = "completed" /\ work'[v].into = w
                                  /\ work'[v].attempt = work[v].attempt
               /\ v # w /\ v \notin folded => work'[v] = work[v]
    <2>1. work[v] \in WorkRow
      BY <1>1
    <2>2. work' = CommittedWork(p)
      BY DEF Commit
    <2> QED
      BY <1>2, <2>1, <2>2 DEF CommittedWork, WorkRow
  <1>6. ASSUME NEW v \in Works, NEW k \in Kinds
        PROVE  Posts(v, k)' <=> Posts(v, k) \/ (v = w /\ k \in tx[p].dirty)
    <2>1. mail[v][k] \in MailRow
      BY <1>1
    <2>2. mail' = [mail EXCEPT ![w] =
                [k2 \in Kinds |-> IF k2 \in tx[p].dirty
                                  THEN Flushed(mail[w][k2], tx[p].mail[k2]) ELSE mail[w][k2]]]
      BY <1>1 DEF Commit, CommittedMail
    <2>3. CASE v = w /\ k \in tx[p].dirty
      <3>1. mail'[v][k] = Flushed(mail[w][k], tx[p].mail[k])
        BY <1>1, <2>2, <2>3
      <3>2. Flushed(mail[w][k], tx[p].mail[k]).status = tx[p].mail[k].status
        BY <2>1, <2>3 DEF Flushed, MailRow
      <3>3. tx[p].mail[k].status # "absent"
        BY <1>4, <2>3 DEF OutboxOf
      <3> QED
        BY <2>3, <3>1, <3>2, <3>3 DEF Posts
    <2>4. CASE ~(v = w /\ k \in tx[p].dirty)
      <3>1. mail'[v][k] = mail[v][k]
        BY <1>1, <2>2, <2>4
      <3> QED
        BY <2>4, <3>1 DEF Posts
    <2> QED
      BY <2>3, <2>4
  <1> QED
    BY <1>1, <1>2, <1>3, <1>5, <1>6

\* A commit agrees with the ledger: the Work it answers with the reply it
\* posts, and the Works it folds in, which have none.
LEMMA CommitAgrees ==
    ASSUME LInv, NEW p \in Workers, Commit(p)
    PROVE  LedgerAgrees'
  <1> DEFINE w == tx[p].cur
             row == tx[p].row
             folded == tx[p].folded
  <1>1. /\ tx \in [Workers -> Tx] /\ tx[p] \in Tx /\ tx[p].phase = "sending"
        /\ w \in Works /\ work \in [Works -> WorkRow] /\ row \in WorkRow
        /\ mail \in [Works -> [Kinds -> MailRow]] /\ tx[p].mail \in [Kinds -> MailRow]
        /\ tx[p].dirty \subseteq Kinds
    BY CurType DEF LInv, Inv, TypeOK, Commit, Tx
  <1>2. /\ w \in tx[p].locked /\ folded \subseteq tx[p].locked \ {w}
        /\ tx[p].locked \subseteq Works
        /\ row.status \in {"completed", "retrying", "failed"}
    BY <1>1 DEF LInv, Inv, TxShape, Tx
  <1>3. \A v \in tx[p].locked : work[v].status \in {"queued", "retrying"}
    BY DEF LInv, Inv, HeldIsOpen
  <1>4. OutboxOf(p)
    BY <1>1 DEF LInv, LedgerAgrees, TurnsHold
  <1>5. Committed /\ OrphansFree /\ TypeOK
    BY Parts DEF LInv, Inv
  <1>6. /\ tx'[p] = IdleTx /\ \A q \in Workers \ {p} : tx'[q] = tx[q]
        /\ rec' = rec
    BY <1>1 DEF Commit
  <1>7. \A v \in Works :
            /\ v = w => work'[v] = row
            /\ v \in folded => /\ work'[v].status = "completed" /\ work'[v].into = w
                               /\ work'[v].attempt = work[v].attempt
            /\ v # w /\ v \notin folded => work'[v] = work[v]
    BY CommitEffect
  <1>8. \A v \in Works, k \in Kinds :
            Posts(v, k)' <=> Posts(v, k) \/ (v = w /\ k \in tx[p].dirty)
    BY CommitEffect
  <1> HIDE DEF w, row, folded
  <1>9. \A v \in tx[p].locked : v \in Works /\ work[v].into = NoWork /\ ~Posts(v, "reply")
    BY <1>2, <1>3, <1>5 DEF Committed, FoldedIsClosed, OutboxAgrees, Posts
  <1>10. /\ row.into = NoWork /\ row.attempt >= work[w].attempt
         /\ \A v \in folded : ConversationOf[v[1]] = ConversationOf[w[1]]
         /\ "reply" \in tx[p].dirty => row.status = "completed"
         /\ "apology" \in tx[p].dirty => Posts(w, "apology") \/ row.attempt >= MaxAttempts
         /\ row.status = "failed" /\ HasTarget(w) =>
                "apology" \in tx[p].dirty \/ Posts(w, "apology")
    BY <1>1, <1>2, <1>4, <1>9 DEF OutboxOf, w, row, folded
  <1>11. OutboxAgrees'
    <2> SUFFICES ASSUME NEW v \in Works
                 PROVE  /\ Posts(v, "reply")' =>
                             work'[v].status = "completed" /\ work'[v].into = NoWork
                        /\ Posts(v, "apology")' => work'[v].attempt >= MaxAttempts
                        /\ work'[v].status = "failed" /\ HasTarget(v) => Posts(v, "apology")'
      BY DEF OutboxAgrees, Posts, HasTarget
    <2>1. /\ Posts(v, "reply")' <=> Posts(v, "reply") \/ (v = w /\ "reply" \in tx[p].dirty)
          /\ Posts(v, "apology")' <=> Posts(v, "apology") \/ (v = w /\ "apology" \in tx[p].dirty)
      BY <1>8, KindsAre
    <2>2. /\ Posts(v, "reply") => work[v].status = "completed" /\ work[v].into = NoWork
          /\ Posts(v, "apology") => work[v].attempt >= MaxAttempts
          /\ work[v].status = "failed" /\ HasTarget(v) => Posts(v, "apology")
      BY <1>5 DEF Committed, OutboxAgrees, Posts
    <2>3. CASE v = w
      <3>1. work'[v] = row /\ ~Posts(v, "reply")
        BY <1>2, <1>7, <1>9, <2>3
      <3>2. work[v].attempt \in Nat /\ row.attempt \in Nat /\ MaxAttempts \in Nat
        BY <1>1, TurnsAssumption DEF WorkRow
      <3>3. Posts(v, "apology")' => row.attempt >= MaxAttempts
        BY <1>10, <2>1, <2>2, <2>3, <3>2
      <3> QED
        BY <1>10, <2>1, <2>3, <3>1, <3>3
    <2>4. CASE v # w /\ v \in folded
      BY <1>2, <1>7, <1>9, <2>1, <2>2, <2>4
    <2>5. CASE v # w /\ v \notin folded
      BY <1>7, <2>1, <2>2, <2>5
    <2> QED
      BY <2>3, <2>4, <2>5
  <1>12. FoldedIsClosed'
    <2> SUFFICES ASSUME NEW v \in Works, work'[v].into # NoWork
                 PROVE  /\ work'[v].status = "completed" /\ work'[v].into # v
                        /\ ConversationOf[work'[v].into[1]] = ConversationOf[v[1]]
                        /\ ~Posts(v, "reply")'
      BY DEF FoldedIsClosed, Posts
    <2>1. Posts(v, "reply")' <=> Posts(v, "reply") \/ (v = w /\ "reply" \in tx[p].dirty)
      BY <1>8, KindsAre
    <2>2. v # w
      BY <1>7, <1>10
    <2>3. CASE v \in folded
      BY <1>2, <1>7, <1>9, <1>10, <2>1, <2>2, <2>3
    <2>4. CASE v \notin folded
      BY <1>5, <1>7, <2>1, <2>2, <2>4 DEF Committed, FoldedIsClosed, Posts
    <2> QED
      BY <2>3, <2>4
  <1>13. AbsentIsNew'
    BY <1>2, <1>5, <1>7 DEF Committed, AbsentIsNew
  <1>14. linked \subseteq linked' /\ \A m \in linked' : m \in linked \/ MessageLocked(m)
    BY DEF Commit, MessageLocked
  <1>15. \A m \in Messages : work'[<<m, "recovery">>].status # "absent" => m \in linked'
    <2> SUFFICES ASSUME NEW m \in Messages, work'[<<m, "recovery">>].status # "absent"
                 PROVE  m \in linked'
      OBVIOUS
    <2> DEFINE v == <<m, "recovery">>
    <2>1. v \in Works
      BY DEF Works
    <2>2. work[v].status # "absent"
      BY <1>2, <1>3, <1>7, <2>1
    <2> QED
      BY <1>5, <1>14, <2>2 DEF Committed
  <1>16. OrphansFree'
    <2>1. \A m : MessageLocked(m)' => MessageLocked(m)
      BY <1>6 DEF MessageLocked, IdleTx
    <2> QED
      BY <1>5, <1>6, <1>14, <2>1 DEF OrphansFree
  <1>17. TakenIsPosted'
    BY <1>6, <1>8 DEF LInv, LedgerAgrees, TakenIsPosted, Inv, TypeOK, Rec, Deliveries
  <1>18. ASSUME NEW q \in Workers, tx'[q].phase # "idle" PROVE OutboxOf(q)'
    <2> DEFINE u == tx[q].cur
    <2>1. q # p /\ tx'[q] = tx[q] /\ tx[q].phase # "idle"
      BY <1>6, <1>18 DEF IdleTx
    <2>2. u \in Works /\ u \in tx[q].locked /\ u \notin tx[p].locked /\ tx[q] \in Tx
      BY <2>1, CurType DEF LInv, Inv, TxShape, LocksExclusive
    <2>3. work'[u] = work[u]
      BY <1>2, <1>7, <2>2
    <2>4. \A k \in Kinds : mail'[u][k].status # "absent" <=> Posts(u, k)
      BY <1>2, <1>8, <2>2 DEF Posts
    <2>5. OutboxOf(q) /\ tx[q].dirty \cup tx[q].todo \subseteq Kinds
      BY <2>1, <2>2 DEF LInv, LedgerAgrees, TurnsHold, Tx
    <2> QED
      BY <2>1, <2>3, <2>4, <2>5, KindsAre DEF OutboxOf, Posts, HasTarget
  <1> QED
    BY <1>11, <1>12, <1>13, <1>15, <1>16, <1>17, <1>18
       DEF LedgerAgrees, SweepHolds, OrphansFree, TurnsHold

-----------------------------------------------------------------------------
(* The steps outside the turns. *)

\* A Work that appears, or is revived.
Appears(w) ==
    /\ work[w].status = "absent"
    /\ work'[w].status = "queued" /\ work'[w].attempt = 0 /\ work'[w].into = NoWork
Revives(w) ==
    /\ work[w].status = "failed"
    /\ work'[w].status = "retrying"
    /\ work'[w].attempt = work[w].attempt /\ work'[w].into = work[w].into
SameWork(w) ==
    /\ work'[w].status = work[w].status
    /\ work'[w].attempt = work[w].attempt /\ work'[w].into = work[w].into

\* Works that appear or are revived have nothing posted that speaks against it.
LEMMA OpenStep ==
    ASSUME LInv, tx' = tx, linked \subseteq linked',
           \A w \in Works : Appears(w) \/ Revives(w) \/ SameWork(w),
           \A w \in Works : \A k \in Kinds : Posts(w, k)' <=> Posts(w, k),
           \A m \in Messages : Appears(<<m, "recovery">>) => m \in linked',
           OrphansFree', TakenIsPosted'
    PROVE  LedgerAgrees'
  <1>1. Committed /\ work \in [Works -> WorkRow] /\ MaxAttempts \in Nat \ {0}
    BY Parts, TurnsAssumption DEF LInv, Inv, TypeOK
  <1>2. OutboxAgrees'
    <2> SUFFICES ASSUME NEW w \in Works
                 PROVE  /\ Posts(w, "reply")' =>
                             work'[w].status = "completed" /\ work'[w].into = NoWork
                        /\ Posts(w, "apology")' => work'[w].attempt >= MaxAttempts
                        /\ work'[w].status = "failed" /\ HasTarget(w) => Posts(w, "apology")'
      BY DEF OutboxAgrees, Posts, HasTarget
    <2>1. /\ Posts(w, "reply")' <=> Posts(w, "reply")
          /\ Posts(w, "apology")' <=> Posts(w, "apology")
      BY KindsAre
    <2>2. /\ Posts(w, "reply") => work[w].status = "completed" /\ work[w].into = NoWork
          /\ Posts(w, "apology") => work[w].attempt >= MaxAttempts
          /\ work[w].status = "failed" /\ HasTarget(w) => Posts(w, "apology")
      BY <1>1 DEF Committed, OutboxAgrees, Posts
    <2>3. CASE Appears(w)
      <3>1. work[w].attempt = 0
        BY <1>1, <2>3 DEF Committed, AbsentIsNew, Appears
      <3> QED
        BY <1>1, <2>1, <2>2, <2>3, <3>1 DEF Appears
    <2>4. CASE Revives(w)
      BY <2>1, <2>2, <2>4 DEF Revives
    <2>5. CASE SameWork(w)
      BY <2>1, <2>2, <2>5 DEF SameWork
    <2> QED
      BY <2>3, <2>4, <2>5
  <1>3. FoldedIsClosed'
    <2> SUFFICES ASSUME NEW w \in Works, work'[w].into # NoWork
                 PROVE  /\ work'[w].status = "completed" /\ work'[w].into # w
                        /\ ConversationOf[work'[w].into[1]] = ConversationOf[w[1]]
                        /\ ~Posts(w, "reply")'
      BY DEF FoldedIsClosed, Posts
    <2>1. ~Appears(w)
      BY DEF Appears
    <2>2. work[w].into # NoWork /\ work'[w].into = work[w].into
      BY <2>1 DEF Revives, SameWork
    <2>3. work[w].status = "completed"
      BY <1>1, <2>2 DEF Committed, FoldedIsClosed
    <2>4. SameWork(w)
      BY <2>1, <2>3 DEF Revives
    <2> QED
      BY <1>1, <2>2, <2>3, <2>4, KindsAre DEF Committed, FoldedIsClosed, SameWork, Posts
  <1>4. AbsentIsNew'
    BY <1>1 DEF Committed, AbsentIsNew, Appears, Revives, SameWork
  <1>5. \A m \in Messages : work'[<<m, "recovery">>].status # "absent" => m \in linked'
    <2> SUFFICES ASSUME NEW m \in Messages, work'[<<m, "recovery">>].status # "absent"
                 PROVE  m \in linked'
      OBVIOUS
    <2>1. <<m, "recovery">> \in Works
      BY DEF Works
    <2>2. Appears(<<m, "recovery">>) \/ work[<<m, "recovery">>].status # "absent"
      BY <2>1 DEF Revives, SameWork
    <2> QED
      BY <1>1, <2>2 DEF Committed
  <1>6. Monotone
    BY DEF Monotone, Appears, Revives, SameWork
  <1>7. TurnsHold'
    BY <1>6, TurnStays DEF TurnsHold
  <1> QED
    BY <1>2, <1>3, <1>4, <1>5, <1>7 DEF LedgerAgrees, SweepHolds, OrphansFree

\* What no step changes unless it says so.
LEMMA RecSame ==
    ASSUME LInv, tx' = tx, rec' = rec, linked' = linked,
           \A w \in Works : \A k \in Kinds : Posts(w, k) => Posts(w, k)'
    PROVE  OrphansFree' /\ TakenIsPosted'
  <1>1. OrphansFree'
    BY Parts DEF LInv, OrphansFree, MessageLocked
  <1>2. \A d \in rec.batch \cup rec.acked \cup rec.failed : d[1] \in Works /\ d[2] \in Kinds
    BY DEF LInv, Inv, TypeOK, Rec, Deliveries
  <1> QED
    BY <1>1, <1>2 DEF LInv, LedgerAgrees, TakenIsPosted

\* What a webhook does to the Works: one of them appears.
LEMMA AcceptEffect ==
    ASSUME LInv, NEW m \in Messages, Accept(m)
    PROVE  /\ \A w \in Works : Appears(w) \/ SameWork(w)
           /\ \A n \in Messages : ~Appears(<<n, "recovery">>)
  <1> DEFINE v == <<m, "inbound">>
             row == [NoRow EXCEPT !.status = "queued", !.priority = InboundPriority,
                                  !.born = clock]
  <1>1. work' = [work EXCEPT ![v] = row] /\ UNCHANGED <<mail, linked, tx, rec>>
        /\ work[v].status = "absent"
    BY DEF Accept
  <1>2. row.status = "queued" /\ row.attempt = 0 /\ row.into = NoWork
    BY DEF NoRow
  <1> HIDE DEF row
  <1>3. v \in Works /\ work \in [Works -> WorkRow]
    BY DEF Works, LInv, Inv, TypeOK
  <1>4. \A w \in Works : Appears(w) \/ SameWork(w)
    BY <1>1, <1>2, <1>3 DEF Appears, SameWork
  <1>5. \A n \in Messages : ~Appears(<<n, "recovery">>)
    <2> SUFFICES ASSUME NEW n \in Messages PROVE ~Appears(<<n, "recovery">>)
      OBVIOUS
    <2>1. <<n, "recovery">> \in Works /\ <<n, "recovery">> # v
      BY DEF Works
    <2>2. work'[<<n, "recovery">>] = work[<<n, "recovery">>]
      BY <1>1, <1>3, <2>1
    <2> QED
      BY <2>2 DEF Appears
  <1> QED
    BY <1>4, <1>5

\* A Work that appears agrees with everything stored.
LEMMA AcceptAgrees ==
    ASSUME LInv, NEW m \in Messages, Accept(m)
    PROVE  LedgerAgrees'
  <1>1. UNCHANGED <<mail, linked, tx, rec>>
    BY DEF Accept
  <1>2. \A w \in Works : \A k \in Kinds : Posts(w, k)' <=> Posts(w, k)
    BY <1>1 DEF Posts
  <1>3. OrphansFree' /\ TakenIsPosted'
    BY <1>1, <1>2, RecSame
  <1> QED
    BY <1>1, <1>2, <1>3, AcceptEffect, OpenStep

\* The passing of time opens and closes nothing.
LEMMA TimeKeeps ==
    ASSUME LInv, (\E m \in Messages : Age(m)) \/ TimeStep
    PROVE  SameLedger /\ UNCHANGED <<tx, rec>>
  <1>1. work \in [Works -> WorkRow] /\ mail \in [Works -> [Kinds -> MailRow]]
    BY DEF LInv, Inv, TypeOK
  <1>2. ASSUME NEW m \in Messages, Age(m) PROVE SameLedger
    BY <1>2, TablesSame DEF Age, tables
  <1>3. ASSUME NEW w \in Works, WorkDue(w) PROVE SameLedger
    <2>1. work[w] \in WorkRow
      BY <1>1
    <2>2. \A v \in Works : /\ work'[v].status = work[v].status
                           /\ work'[v].attempt = work[v].attempt
                           /\ work'[v].into = work[v].into
      BY <1>1, <1>3, <2>1 DEF WorkDue, WorkRow
    <2> QED
      BY <1>3, <2>2 DEF WorkDue, SameLedger, Posts
  <1>4. ASSUME NEW w \in Works, NEW k \in Kinds, MailDue(w, k) PROVE SameLedger
    <2>1. mail[w] \in [Kinds -> MailRow] /\ mail[w][k] \in MailRow
      BY <1>1
    <2>2. \A v \in Works, j \in Kinds : mail'[v][j].status = mail[v][j].status
      BY <1>1, <1>4, <2>1 DEF MailDue, MailRow
    <2> QED
      BY <1>4, <2>2 DEF MailDue, SameLedger, Posts
  <1>5. UNCHANGED <<tx, rec>>
    BY DEF TimeStep, Age, WorkDue, MailDue, tables
  <1> QED
    BY <1>2, <1>3, <1>4, <1>5 DEF TimeStep

\* So it agrees with the ledger.
LEMMA TimeAgrees ==
    ASSUME LInv, (\E m \in Messages : Age(m)) \/ TimeStep
    PROVE  LedgerAgrees'
  <1>1. SameLedger /\ UNCHANGED <<tx, rec>>
    BY TimeKeeps
  <1>2. OrphansFree' /\ TakenIsPosted'
    BY <1>1, RecSame DEF SameLedger
  <1> QED
    BY <1>1, <1>2, OutsideStep

\* The steps of the recovery cycle before its commit.
LEMMA CycleAgrees ==
    ASSUME LInv,
           \/ Sweep \/ Take \/ AbortCycle
           \/ \E d \in Deliveries, result \in SendResults : Resend(d, result)
    PROVE  LedgerAgrees'
  <1>1. UNCHANGED <<work, mail, linked, tx>> /\ rec \in Rec
    BY DEF Sweep, Take, AbortCycle, Resend, tables, LInv, Inv, TypeOK
  <1>2. SameLedger
    BY <1>1, TablesSame
  <1>3. OrphansFree /\ TakenIsPosted
    BY Parts DEF LInv
  <1>4. CASE Sweep
    <2>1. /\ rec'.orphans = {m \in aged \ linked : ~MessageLocked(m)}
          /\ rec'.batch = rec.batch /\ rec'.acked = rec.acked /\ rec'.failed = rec.failed
      BY <1>1, <1>4 DEF Sweep, Rec
    <2>2. OrphansFree'
      BY <1>1, <2>1 DEF OrphansFree, MessageLocked
    <2>3. TakenIsPosted'
      BY <1>1, <1>3, <2>1 DEF TakenIsPosted, Posts
    <2> QED
      BY <1>1, <1>2, <2>2, <2>3, OutsideStep
  <1>5. CASE Take
    <2>1. /\ rec'.orphans = rec.orphans
          /\ rec'.acked = rec.acked /\ rec'.failed = rec.failed
          /\ \A d \in rec'.batch : Retriable(d[1], d[2])
      BY <1>1, <1>5 DEF Take, Rec
    <2>2. OrphansFree'
      BY <1>1, <1>3, <2>1 DEF OrphansFree, MessageLocked
    <2>3. TakenIsPosted'
      BY <1>1, <1>3, <2>1 DEF TakenIsPosted, Posts, Retriable
    <2> QED
      BY <1>1, <1>2, <2>2, <2>3, OutsideStep
  <1>6. CASE AbortCycle
    <2>1. OrphansFree' /\ TakenIsPosted'
      BY <1>6 DEF AbortCycle, IdleRec, OrphansFree, TakenIsPosted
    <2> QED
      BY <1>1, <1>2, <2>1, OutsideStep
  <1>7. ASSUME NEW d \in Deliveries, NEW result \in SendResults, Resend(d, result)
        PROVE  LedgerAgrees'
    <2>1. /\ rec'.orphans = rec.orphans /\ d \in rec.batch
          /\ rec'.batch \subseteq rec.batch
          /\ rec'.acked \subseteq rec.acked \cup {d}
          /\ rec'.failed \subseteq rec.failed \cup {d}
      BY <1>1, <1>7 DEF Resend, Rec
    <2>2. OrphansFree'
      BY <1>1, <1>3, <2>1 DEF OrphansFree, MessageLocked
    <2>3. TakenIsPosted'
      BY <1>1, <1>3, <2>1 DEF TakenIsPosted, Posts
    <2> QED
      BY <1>1, <1>2, <2>2, <2>3, OutsideStep
  <1> QED
    BY <1>4, <1>5, <1>6, <1>7

\* What the commit of a cycle does to the Works and to the outbox.
LEMMA CycleEffect ==
    ASSUME LInv, NEW revived \in {{}, Revivable}, CommitCycle(revived)
    PROVE  /\ \A w \in Works : Appears(w) \/ Revives(w) \/ SameWork(w)
           /\ \A w \in Works : \A k \in Kinds : Posts(w, k)' <=> Posts(w, k)
           /\ linked' = linked \cup rec.orphans
           /\ \A m \in Messages : Appears(<<m, "recovery">>) => m \in rec.orphans
  <1>1. work \in [Works -> WorkRow] /\ mail \in [Works -> [Kinds -> MailRow]]
        /\ rec.orphans \subseteq Messages
    BY DEF LInv, Inv, TypeOK, Rec
  <1> DEFINE new == [NoRow EXCEPT !.status = "queued", !.priority = RecoveryPriority,
                                  !.born = clock]
  <1>2. new.status = "queued" /\ new.attempt = 0 /\ new.into = NoWork
    BY DEF NoRow
  <1>3. \A w \in Works : work'[w] =
            IF w[1] \in rec.orphans /\ w[2] = "recovery" THEN new
            ELSE IF w \in revived THEN [work[w] EXCEPT !.status = "retrying", !.waiting = FALSE]
            ELSE work[w]
    BY DEF CommitCycle
  <1> HIDE DEF new
  <1>4. ASSUME NEW w \in Works
        PROVE  /\ Appears(w) \/ Revives(w) \/ SameWork(w)
               /\ Appears(w) => w[1] \in rec.orphans
    <2>1. work[w] \in WorkRow
      BY <1>1
    <2>2. CASE w[1] \in rec.orphans /\ w[2] = "recovery"
      <3>1. w[1] \in Messages /\ w = <<w[1], "recovery">> /\ w[1] \notin linked
        BY <2>2, Parts DEF LInv, OrphansFree, Works
      <3>2. work[w].status = "absent"
        BY <3>1, Parts DEF LInv, Committed
      <3> QED
        BY <1>2, <1>3, <2>2, <3>2 DEF Appears
    <2>3. CASE ~(w[1] \in rec.orphans /\ w[2] = "recovery") /\ w \in revived
      <3>1. work[w].status = "failed"
        BY <2>3 DEF Revivable
      <3> QED
        BY <1>3, <2>1, <2>3, <3>1 DEF Revives, Appears, WorkRow
    <2>4. CASE ~(w[1] \in rec.orphans /\ w[2] = "recovery") /\ w \notin revived
      BY <1>3, <2>4 DEF SameWork, Appears
    <2> QED
      BY <2>2, <2>3, <2>4
  <1>5. ASSUME NEW w \in Works, NEW k \in Kinds
        PROVE  Posts(w, k)' <=> Posts(w, k)
    <2>1. mail[w][k] \in MailRow
      BY <1>1
    <2>2. CASE <<w, k>> \in rec.acked \cup rec.failed
      <3>1. Posts(w, k)
        BY <2>2, Parts DEF LInv, TakenIsPosted
      <3>2. Retried(<<w, k>>).status \in {"delivered", "failed"}
        BY <2>1 DEF Retried, MailRow
      <3>3. mail'[w][k] = Retried(<<w, k>>)
        BY <2>2 DEF CommitCycle
      <3> QED
        BY <3>1, <3>2, <3>3 DEF Posts
    <2>3. CASE <<w, k>> \notin rec.acked \cup rec.failed
      BY <2>3 DEF CommitCycle, Posts
    <2> QED
      BY <2>2, <2>3
  <1>6. linked' = linked \cup rec.orphans
    BY DEF CommitCycle
  <1>7. \A m \in Messages : <<m, "recovery">> \in Works /\ <<m, "recovery">>[1] = m
    BY DEF Works
  <1> QED
    BY <1>4, <1>5, <1>6, <1>7

\* So does the commit of a cycle.
LEMMA CommitCycleAgrees ==
    ASSUME LInv, NEW revived \in {{}, Revivable}, CommitCycle(revived)
    PROVE  LedgerAgrees'
  <1>1. tx' = tx /\ rec' = IdleRec
    BY DEF CommitCycle
  <1>2. OrphansFree' /\ TakenIsPosted'
    BY <1>1 DEF IdleRec, OrphansFree, TakenIsPosted
  <1> QED
    BY <1>1, <1>2, CycleEffect, OpenStep

-----------------------------------------------------------------------------
(* The strengthened invariant. *)

\* Nothing is stored and nothing is open at the start.
LEMMA InitAgrees == Init => LInv
  <1> SUFFICES ASSUME Init
               PROVE  LInv
    OBVIOUS
  <1>1. Inv
    BY InitInv
  <1>2. \A w \in Works : work[w] = NoRow /\ mail[w] = NoMail
    BY DEF Init
  <1>3. \A w \in Works : \A k \in Kinds : mail[w][k].status = "absent"
    BY <1>2 DEF NoMail
  <1>4. /\ NoRow.status = "absent" /\ NoRow.attempt = 0 /\ NoRow.into = NoWork
        /\ rec.orphans = {} /\ rec.batch = {} /\ rec.acked = {} /\ rec.failed = {}
        /\ \A p \in Workers : tx[p].phase = "idle"
    BY DEF Init, NoRow, IdleRec, IdleTx
  <1>5. OutboxAgrees
    BY <1>2, <1>3, <1>4, KindsAre DEF OutboxAgrees
  <1>6. FoldedIsClosed /\ AbsentIsNew /\ TurnsHold /\ TakenIsPosted
    BY <1>2, <1>4 DEF FoldedIsClosed, AbsentIsNew, TurnsHold, TakenIsPosted
  <1>7. SweepHolds
    BY <1>2, <1>4 DEF SweepHolds, Works
  <1> QED
    BY <1>1, <1>5, <1>6, <1>7 DEF LInv, LedgerAgrees

\* Every step of the pipeline keeps it.
LEMMA NextAgrees == LInv /\ [Next]_vars => LInv'
  <1> SUFFICES ASSUME LInv, [Next]_vars
               PROVE  LedgerAgrees'
    BY NextInv DEF LInv
  <1>1. ASSUME NEW m \in Messages, Accept(m)
        PROVE  LedgerAgrees'
    BY <1>1, AcceptAgrees
  <1>2. CASE (\E m \in Messages : Age(m)) \/ TimeStep
    BY <1>2, TimeAgrees
  <1>3. ASSUME NEW p \in Workers, WorkerStep(p)
        PROVE  LedgerAgrees'
    BY <1>3, ClaimAgrees, CoalesceAgrees, GateAgrees, LinkAgrees, AnswerAgrees, SendAgrees,
       CommitAgrees DEF WorkerStep
  <1>4. ASSUME NEW p \in Workers, Abort(p)
        PROVE  LedgerAgrees'
    BY <1>4, AbortAgrees
  <1>5. CASE CycleStep \/ AbortCycle
    BY <1>5, CycleAgrees, CommitCycleAgrees DEF CycleStep
  <1>6. CASE UNCHANGED vars
    <2>1. SameLedger /\ UNCHANGED <<tx, rec>>
      BY <1>6, TablesSame DEF vars, tables
    <2>2. OrphansFree' /\ TakenIsPosted'
      BY <2>1, RecSame DEF SameLedger
    <2> QED
      BY <2>1, <2>2, OutsideStep
  <1> QED
    BY <1>1, <1>2, <1>3, <1>4, <1>5, <1>6 DEF Next

\* What is buffered and what is committed agree in every reachable state.
THEOREM LedgerInvHolds == Spec => []LInv
  BY InitAgrees, NextAgrees, PTL DEF Spec

\* A reply is in the outbox only with the completion of its own Work, and no
\* student is given up without an apology (workers/main.py, the end of a turn).
THEOREM OutboxMatchesLedger == Spec => []OutboxAgrees
  BY LedgerInvHolds, PTL DEF LInv, LedgerAgrees

\* A Work folded into another turn is completed and never answered besides.
THEOREM FoldedStaysClosed == Spec => []FoldedIsClosed
  BY LedgerInvHolds, PTL DEF LInv, LedgerAgrees

-----------------------------------------------------------------------------
(* Turns implements WorkLedger. *)

\* The ledger as the pipeline's tables show it.
StateMap == [w \in Works |-> LedgerState(w)]
FoldedMap == [w \in Works |-> work[w].into]
PostedMap == {w \in Works : Posts(w, "reply")}

\* The mapping of the INSTANCE, by name.
LEMMA Mapping ==
    Ledger!Open <=>
        /\ \E new \in SUBSET {w \in Works : StateMap[w] = "absent"},
              again \in SUBSET {w \in Works : StateMap[w] = "failed"} :
              StateMap' = [w \in Works |-> IF w \in new \cup again THEN "open" ELSE StateMap[w]]
        /\ UNCHANGED <<FoldedMap, PostedMap>>
  BY DEF Ledger!Open, Ledger!In, StateMap, FoldedMap, PostedMap, Posts

\* A step that changes nothing the ledger sees is a stutter.
LEMMA LedgerStutters ==
    ASSUME SameLedger
    PROVE  UNCHANGED Ledger!vars
  <1>1. StateMap' = StateMap
    BY DEF SameLedger, StateMap, LedgerState
  <1>2. FoldedMap' = FoldedMap
    BY DEF SameLedger, FoldedMap
  <1>3. PostedMap' = PostedMap
    BY KindsAre DEF SameLedger, PostedMap
  <1> QED
    BY <1>1, <1>2, <1>3 DEF Ledger!vars, StateMap, FoldedMap, PostedMap, Posts

\* Works that appear or are revived are opened.
LEMMA LedgerOpens ==
    ASSUME LInv, \A w \in Works : Appears(w) \/ Revives(w) \/ SameWork(w),
           \A w \in Works : \A k \in Kinds : Posts(w, k)' <=> Posts(w, k)
    PROVE  Ledger!Open
  <1> DEFINE new == {w \in Works : Appears(w)}
             again == {w \in Works : Revives(w)}
  <1>1. \A w \in Works : Appears(w) => work[w].into = NoWork
    BY DEF Appears, LInv, LedgerAgrees, FoldedIsClosed
  <1>2. FoldedMap' = FoldedMap
    BY <1>1 DEF FoldedMap, Appears, Revives, SameWork
  <1>3. PostedMap' = PostedMap
    BY KindsAre DEF PostedMap
  <1>4. /\ new \in SUBSET {w \in Works : StateMap[w] = "absent"}
        /\ again \in SUBSET {w \in Works : StateMap[w] = "failed"}
    BY DEF StateMap, LedgerState, Appears, Revives
  <1>5. StateMap' = [w \in Works |-> IF w \in new \cup again THEN "open" ELSE StateMap[w]]
    BY DEF StateMap, LedgerState, Appears, Revives, SameWork
  <1> HIDE DEF new, again
  <1> QED
    BY <1>2, <1>3, <1>4, <1>5, Mapping

\* How the row of a turn is seen when it commits.
Outcome(row) == IF row.status = "retrying" THEN "open" ELSE row.status

\* A commit is a turn of the ledger.
LEMMA LedgerTurns ==
    ASSUME LInv, NEW p \in Workers, Commit(p)
    PROVE  Ledger!Next
  <1> DEFINE w == tx[p].cur
             others == tx[p].folded
             row == tx[p].row
  <1>1. /\ w \in Works /\ others \subseteq Works \ {w}
        /\ \A v \in others \cup {w} : work[v].status \in {"queued", "retrying"}
        /\ row.status \in {"completed", "retrying", "failed"}
    BY CommitEffect
  <1>2. \A v \in Works :
            /\ v = w => work'[v] = row
            /\ v \in others => work'[v].status = "completed" /\ work'[v].into = w
            /\ v # w /\ v \notin others => work'[v] = work[v]
    BY CommitEffect
  <1>3. \A v \in Works : Posts(v, "reply")' <=>
            Posts(v, "reply") \/ (v = w /\ "reply" \in tx[p].dirty)
    BY CommitEffect, KindsAre
  <1>4. OutboxOf(p)
    BY DEF Commit, LInv, LedgerAgrees, TurnsHold
  <1>5. /\ work[w].into = NoWork /\ row.into = NoWork
        /\ "reply" \in tx[p].dirty => row.status = "completed"
    BY <1>1, <1>4 DEF OutboxOf, LInv, LedgerAgrees, FoldedIsClosed, OutboxAgrees, Posts
  <1> HIDE DEF w, others, row
  <1>6. w \in Ledger!In("open") /\ others \in SUBSET (Ledger!In("open") \ {w})
    BY <1>1 DEF Ledger!In, LedgerState
  <1>7. Outcome(row) \in {"open", "completed", "failed"}
    BY <1>1 DEF Outcome
  <1>8. StateMap' = [v \in Works |-> IF v = w THEN Outcome(row)
                                     ELSE IF v \in others THEN "completed"
                                     ELSE StateMap[v]]
    BY <1>1, <1>2 DEF StateMap, LedgerState, Outcome
  <1>9. FoldedMap' = [v \in Works |-> IF v \in others THEN w ELSE FoldedMap[v]]
    BY <1>1, <1>2, <1>5 DEF FoldedMap
  <1>10. \/ PostedMap' = PostedMap
         \/ Outcome(row) = "completed" /\ PostedMap' = PostedMap \cup {w}
    BY <1>1, <1>3, <1>5 DEF PostedMap, Outcome
  <1>11. PICK cur \in Ledger!In("open"), fold \in SUBSET (Ledger!In("open") \ {w}),
              outcome \in {"open", "completed", "failed"} :
              cur = w /\ fold = others /\ outcome = Outcome(row)
    BY <1>6, <1>7
  <1>12. Ledger!Turn(cur, fold, outcome)
    BY <1>8, <1>9, <1>10, <1>11 DEF Ledger!Turn, StateMap, FoldedMap, PostedMap, Posts
  <1>13. fold \in SUBSET (Ledger!In("open") \ {cur})
    BY <1>11
  <1> QED
    BY <1>12, <1>13 DEF Ledger!Next

\* The pipeline starts where the ledger does.
LEMMA LedgerInit == Init => Ledger!Init
  BY KindsAre DEF Init, NoRow, NoMail, Ledger!Init, LedgerState

\* Every step of the pipeline is a step of the ledger or a stutter.
LEMMA LedgerNext == LInv /\ [Next]_vars => [Ledger!Next]_(Ledger!vars)
  <1> SUFFICES ASSUME LInv, [Next]_vars
               PROVE  SameLedger \/ Ledger!Next
    BY LedgerStutters
  <1>1. ASSUME NEW m \in Messages, Accept(m)
        PROVE  Ledger!Next
    <2>1. \A w \in Works : \A k \in Kinds : Posts(w, k)' <=> Posts(w, k)
      BY <1>1 DEF Accept, Posts
    <2> QED
      BY <1>1, <2>1, AcceptEffect, LedgerOpens DEF Ledger!Next
  <1>2. CASE (\E m \in Messages : Age(m)) \/ TimeStep
    BY <1>2, TimeKeeps
  <1>3. ASSUME NEW p \in Workers, Commit(p)
        PROVE  Ledger!Next
    BY <1>3, LedgerTurns
  <1>4. ASSUME NEW p \in Workers, WorkerStep(p) \/ Abort(p), ~Commit(p)
        PROVE  SameLedger
    BY <1>4, TablesSame DEF WorkerStep, Claim, Coalesce, Gate, Link, Answer, Send, Abort, tables
  <1>5. ASSUME NEW revived \in {{}, Revivable}, CommitCycle(revived)
        PROVE  Ledger!Next
    BY <1>5, CycleEffect, LedgerOpens DEF Ledger!Next
  <1>6. ASSUME CycleStep \/ AbortCycle, \A revived \in {{}, Revivable} : ~CommitCycle(revived)
        PROVE  SameLedger
    BY <1>6, TablesSame DEF CycleStep, Sweep, Take, Resend, AbortCycle, tables
  <1>7. CASE UNCHANGED vars
    BY <1>7, TablesSame DEF vars, tables
  <1> QED
    BY <1>1, <1>2, <1>3, <1>4, <1>5, <1>6, <1>7 DEF Next

\* Whatever the interleaving of turns, sweeps, rollbacks and resends, the
\* tables do only what the ledger allows.
THEOREM TurnsImplementLedger == Spec => ImplementsLedger
  BY LedgerInit, LedgerNext, LedgerInvHolds, PTL DEF Spec, ImplementsLedger, Ledger!Spec

\* Every step but the commit of a turn opens Works or leaves them, and posts nothing.
LEMMA StepEffect ==
    ASSUME LInv, [Next]_vars, \A p \in Workers : ~Commit(p)
    PROVE  /\ \A w \in Works : Appears(w) \/ Revives(w) \/ SameWork(w)
           /\ \A w \in Works : \A k \in Kinds : Posts(w, k)' <=> Posts(w, k)
  <1>1. SameLedger => /\ \A w \in Works : SameWork(w)
                      /\ \A w \in Works : \A k \in Kinds : Posts(w, k)' <=> Posts(w, k)
    BY DEF SameLedger, SameWork
  <1>2. ASSUME NEW m \in Messages, Accept(m)
        PROVE  \A w \in Works : \A k \in Kinds : Posts(w, k)' <=> Posts(w, k)
    BY <1>2 DEF Accept, Posts
  <1>3. ASSUME NEW p \in Workers, WorkerStep(p) \/ Abort(p)
        PROVE  SameLedger
    BY <1>3, TablesSame DEF WorkerStep, Claim, Coalesce, Gate, Link, Answer, Send, Abort, tables
  <1>4. ASSUME CycleStep \/ AbortCycle, \A revived \in {{}, Revivable} : ~CommitCycle(revived)
        PROVE  SameLedger
    BY <1>4, TablesSame DEF CycleStep, Sweep, Take, Resend, AbortCycle, tables
  <1>5. CASE UNCHANGED vars
    BY <1>1, <1>5, TablesSame DEF vars, tables
  <1> QED
    BY <1>1, <1>2, <1>3, <1>4, <1>5, AcceptEffect, TimeKeeps, CycleEffect DEF Next

\* The tables seen as a ledger, with what WorkLedgerProofs shows of every ledger.
Inherited == INSTANCE WorkLedgerProofs WITH
    Work <- Works,
    state <- [w \in Works |-> LedgerState(w)],
    folded <- [w \in Works |-> work[w].into],
    posted <- {w \in Works : mail[w]["reply"].status # "absent"}

\* It is the ledger that Turns implements.
LEMMA TurnsInherit == Spec => Inherited!Spec
<1>1. Ledger!Init <=> Inherited!Init
  BY DEF Ledger!Init, Inherited!Init
<1>2. [Ledger!Next]_(Ledger!vars) <=> [Inherited!Next]_(Inherited!vars)
  BY DEF Ledger!Next, Inherited!Next, Ledger!Open, Inherited!Open, Ledger!Turn, Inherited!Turn,
         Ledger!In, Inherited!In, Ledger!vars, Inherited!vars
<1> QED
  BY <1>1, <1>2, TurnsImplementLedger, PTL DEF ImplementsLedger, Ledger!Spec, Inherited!Spec

\* In the tables too a folded Work is completed, not by itself, and has no reply
\* of its own, and a Work that has one is completed.
THEOREM TablesAreALedger == Spec => []Ledger!LedgerInv
<1>1. Inherited!LedgerInv => Ledger!LedgerInv
  BY DEF Ledger!LedgerInv, Inherited!LedgerInv
<1> QED
  BY <1>1, TurnsInherit, Inherited!LedgerHolds, PTL

\* Of a Work a student was answered about, or that was folded into another, no
\* later turn, revival or sweep takes anything back (claim_next and
\* reclaim_failed_for_retry select open and failed rows only).
THEOREM CompletedWorkIsFinal == Spec => Ledger!CompletedIsFinal
  BY TurnsInherit, Inherited!CompletedStays, PTL
  DEF Ledger!CompletedIsFinal, Inherited!CompletedIsFinal, Ledger!vars, Inherited!vars

-----------------------------------------------------------------------------
(***************************************************************************)
(* A turn decides on a copy of the message read before it waits for the    *)
(* sweep, so the link it writes may replace another.  It is never that of  *)
(* a turn: whoever read the copy holds the Work all along.                 *)
(***************************************************************************)

\* A turn that is going to write the link, or has, works on the inbound Work;
\* if its message is linked meanwhile, the sweep has done it.
ChecksLink(p) ==
    tx[p].unlinked \/ tx[p].linking =>
        /\ tx[p].phase # "idle" /\ tx[p].cur[2] = "inbound"
        /\ tx[p].cur[1] \in linked => Recovered(tx[p].cur[1])

LinksChecked == \A p \in Workers : ChecksLink(p)

\* A recovery Work stays.
LEMMA RecoveredStays ==
    ASSUME LInv, [Next]_vars, NEW m \in Messages, Recovered(m)
    PROVE  Recovered(m)'
  <1>1. <<m, "recovery">> \in Works /\ work[<<m, "recovery">>].status # "absent"
    BY DEF Works, Recovered
  <1>2. CASE \A p \in Workers : ~Commit(p)
    BY <1>1, <1>2, StepEffect DEF Appears, Revives, SameWork, Recovered
  <1>3. ASSUME NEW p \in Workers, Commit(p)
        PROVE  Recovered(m)'
    BY <1>1, <1>3, CommitEffect DEF Recovered
  <1> QED
    BY <1>2, <1>3

\* A turn that does nothing, while nobody but the sweep links its message.
LEMMA LinkKept ==
    ASSUME LInv, [Next]_vars, NEW q \in Workers, ChecksLink(q), tx'[q] = tx[q],
           \A m \in Messages : m \in linked' =>
              m \in linked \/ Recovered(m)' \/ (m = tx[q].cur[1] => ~tx[q].unlinked /\ ~tx[q].linking)
    PROVE  ChecksLink(q)'
  <1>1. CASE ~tx[q].unlinked /\ ~tx[q].linking
    BY <1>1 DEF ChecksLink
  <1>2. CASE tx[q].unlinked \/ tx[q].linking
    <2>1. tx[q].phase # "idle" /\ tx[q].cur[2] = "inbound"
      BY <1>2 DEF ChecksLink
    <2>2. PICK m \in Messages : m = tx[q].cur[1]
      BY <2>1, CurType DEF LInv, Inv, Works
    <2>3. m \in linked => Recovered(m)
      BY <1>2, <2>2 DEF ChecksLink
    <2>4. m \in linked' => Recovered(m)'
      BY <1>2, <2>2, <2>3, RecoveredStays
    <2> QED
      BY <2>1, <2>2, <2>4 DEF ChecksLink, Recovered
  <1> QED
    BY <1>1, <1>2

\* A turn that reads its message unlinked is not that of the recovery Work.
LEMMA CopyIsInbound ==
    ASSUME LInv, NEW p \in Workers, tx[p].phase # "idle", tx[p].cur[1] \notin linked
    PROVE  tx[p].cur[2] = "inbound"
  <1>1. tx[p].cur \in Works /\ tx[p].cur \in tx[p].locked
    BY CurType DEF LInv, Inv, TxShape
  <1>2. work[tx[p].cur].status # "absent"
    BY <1>1 DEF LInv, Inv, HeldIsOpen
  <1>3. PICK m \in Messages : tx[p].cur = <<m, "inbound">> \/ tx[p].cur = <<m, "recovery">>
    BY <1>1 DEF Works
  <1>4. work[<<m, "recovery">>].status # "absent" => m \in linked
    BY <1>3 DEF LInv, LedgerAgrees, SweepHolds
  <1> QED
    BY <1>2, <1>3, <1>4

\* A step of a turn before its commit.
LEMMA TurnChecks ==
    ASSUME LInv, NEW p \in Workers, ChecksLink(p), WorkerStep(p) \/ Abort(p), ~Commit(p)
    PROVE  /\ ChecksLink(p)' /\ \A q \in Workers \ {p} : tx'[q] = tx[q]
           /\ linked' = linked
  <1>1. tx \in [Workers -> Tx] /\ tx[p] \in Tx
    BY DEF LInv, Inv, TypeOK
  <1>2. CASE Claim(p) \/ Abort(p)
    <2>1. /\ tx'[p].unlinked = FALSE /\ tx'[p].linking = FALSE
          /\ \A q \in Workers \ {p} : tx'[q] = tx[q]
      <3>1. CASE Claim(p)
        <4>1. PICK w \in Claimable \ LockedWorks :
                  tx' = [tx EXCEPT ![p] = [IdleTx EXCEPT
                            !.phase = "claimed", !.cur = w, !.row = ClaimedRow(w),
                            !.locked = {w}]]
          BY <3>1 DEF Claim
        <4> DEFINE new == [IdleTx EXCEPT !.phase = "claimed", !.cur = w,
                                         !.row = ClaimedRow(w), !.locked = {w}]
        <4>2. new.unlinked = FALSE /\ new.linking = FALSE
          BY DEF IdleTx
        <4>3. tx' = [tx EXCEPT ![p] = new]
          BY <4>1
        <4> HIDE DEF new
        <4> QED
          BY <1>1, <4>2, <4>3
      <3>2. CASE Abort(p)
        <4>1. tx' = [tx EXCEPT ![p] = IdleTx]
          BY <3>2 DEF Abort
        <4>2. IdleTx.unlinked = FALSE /\ IdleTx.linking = FALSE
          BY DEF IdleTx
        <4> QED
          BY <1>1, <4>1, <4>2
      <3> QED
        BY <1>2, <3>1, <3>2
    <2>2. linked' = linked
      BY <1>2 DEF Claim, Abort, tables
    <2> QED
      BY <2>1, <2>2 DEF ChecksLink
  <1>3. CASE Coalesce(p)
    <2>1. PICK related \in SUBSET Siblings(tx[p].cur) :
              tx' = [tx EXCEPT ![p].phase = "coalesced",
                               ![p].locked = @ \cup Siblings(tx[p].cur),
                               ![p].folded = related,
                               ![p].unlinked = tx[p].cur[1] \notin linked]
      BY <1>3 DEF Coalesce
    <2>2. /\ tx[p].phase = "claimed" /\ tx'[p].phase = "coalesced" /\ tx'[p].cur = tx[p].cur
          /\ tx'[p].unlinked = (tx[p].cur[1] \notin linked) /\ tx'[p].linking = tx[p].linking
          /\ \A q \in Workers \ {p} : tx'[q] = tx[q]
      BY <1>1, <1>3, <2>1 DEF Coalesce, Tx
    <2>3. UNCHANGED <<work, linked>>
      BY <1>3 DEF Coalesce, tables
    <2> QED
      BY <2>2, <2>3, CopyIsInbound DEF ChecksLink, Recovered
  <1>4. CASE Gate(p)
    <2>1. /\ tx'[p].phase = "gated" /\ tx'[p].cur = tx[p].cur
          /\ tx'[p].unlinked = tx[p].unlinked /\ tx'[p].linking = tx[p].linking
          /\ \A q \in Workers \ {p} : tx'[q] = tx[q]
      BY <1>1, <1>4 DEF Gate, Tx
    <2>2. UNCHANGED <<work, linked>>
      BY <1>4 DEF Gate, tables
    <2> QED
      BY <2>1, <2>2 DEF ChecksLink, Recovered
  <1>5. CASE Link(p)
    <2>1. PICK linking \in {FALSE, tx[p].unlinked} :
              tx' = [tx EXCEPT ![p].phase = "linked", ![p].unlinked = FALSE,
                               ![p].linking = linking]
      BY <1>5 DEF Link
    <2>2. /\ tx'[p].phase = "linked" /\ tx'[p].cur = tx[p].cur
          /\ tx'[p].unlinked = FALSE /\ tx'[p].linking = linking
          /\ \A q \in Workers \ {p} : tx'[q] = tx[q]
      BY <1>1, <2>1 DEF Tx
    <2>3. UNCHANGED <<work, linked>>
      BY <1>5 DEF Link, tables
    <2> QED
      BY <2>2, <2>3 DEF ChecksLink, Recovered
  <1>6. ASSUME Answer(p)
        PROVE  /\ ChecksLink(p)' /\ \A q \in Workers \ {p} : tx'[q] = tx[q]
               /\ linked' = linked
    <2>1. UNCHANGED <<work, linked>>
      BY <1>6 DEF Answer, tables
    <2>2. /\ tx'[p].cur = tx[p].cur /\ tx'[p].phase \in {"linked", "sending"}
          /\ \A q \in Workers \ {p} : tx'[q] = tx[q]
      BY <1>6, AnswerKeeps DEF LInv, KeepsRows
    <2>3. tx'[p].unlinked = tx[p].unlinked /\ tx'[p].linking = tx[p].linking
      <3>1. ASSUME NEW outcome, Complete(p, outcome)
            PROVE  tx'[p].unlinked = tx[p].unlinked /\ tx'[p].linking = tx[p].linking
        BY <1>1, <3>1 DEF Complete, Tx
      <3>2. ASSUME NEW transient, Fail(p, transient)
            PROVE  tx'[p].unlinked = tx[p].unlinked /\ tx'[p].linking = tx[p].linking
        <4>1. CASE MayRetry(tx[p].row)
          BY <1>1, <3>2, <4>1 DEF Fail, Tx
        <4>2. CASE ~MayRetry(tx[p].row)
          BY <1>1, <3>2, <4>2 DEF Fail, Tx
        <4> QED
          BY <4>1, <4>2
      <3> QED
        BY <1>6, <3>1, <3>2 DEF Answer
    <2> QED
      BY <2>1, <2>2, <2>3 DEF ChecksLink, Recovered
  <1>7. ASSUME NEW k \in Kinds, NEW result \in SendResults, Send(p, k, result)
        PROVE  /\ ChecksLink(p)' /\ \A q \in Workers \ {p} : tx'[q] = tx[q]
               /\ linked' = linked
    <2>1. /\ tx[p].phase = "sending" /\ tx'[p].phase = "sending" /\ tx'[p].cur = tx[p].cur
          /\ tx'[p].unlinked = tx[p].unlinked /\ tx'[p].linking = tx[p].linking
          /\ \A q \in Workers \ {p} : tx'[q] = tx[q]
      BY <1>1, <1>7 DEF Send, Tx
    <2>2. UNCHANGED <<work, linked>>
      BY <1>7 DEF Send, tables
    <2> QED
      BY <2>1, <2>2 DEF ChecksLink, Recovered
  <1> QED
    BY <1>2, <1>3, <1>4, <1>5, <1>6, <1>7 DEF WorkerStep

\* Every step keeps the check.
LEMMA NextChecks ==
    ASSUME LInv, LinksChecked, [Next]_vars
    PROVE  LinksChecked'
  <1>1. ASSUME NEW p \in Workers, WorkerStep(p) \/ Abort(p), ~Commit(p)
        PROVE  LinksChecked'
    BY <1>1, TurnChecks, LinkKept DEF LinksChecked
  <1>2. ASSUME NEW p \in Workers, Commit(p), NEW q \in Workers
        PROVE  ChecksLink(q)'
    <2>1. /\ tx \in [Workers -> Tx] /\ tx'[p] = IdleTx /\ tx[p].phase = "sending"
          /\ \A r \in Workers \ {p} : tx'[r] = tx[r]
          /\ linked' = IF tx[p].linking THEN linked \cup {tx[p].cur[1]} ELSE linked
      BY <1>2 DEF LInv, Inv, TypeOK, Commit
    <2>2. CASE q = p
      BY <2>1, <2>2 DEF ChecksLink, IdleTx
    <2>3. CASE q # p
      <3>1. ChecksLink(p) /\ ChecksLink(q) /\ tx'[q] = tx[q]
        BY <2>1, <2>3 DEF LinksChecked
      <3>2. ASSUME tx[p].linking, tx[q].unlinked \/ tx[q].linking
            PROVE  tx[p].cur[1] # tx[q].cur[1]
        <4>1. /\ tx[p].cur \in Works /\ tx[p].cur \in tx[p].locked /\ tx[p].cur[2] = "inbound"
              /\ tx[q].cur \in Works /\ tx[q].cur \in tx[q].locked /\ tx[q].cur[2] = "inbound"
          BY <2>1, <3>1, <3>2, CurType DEF ChecksLink, LInv, Inv, TxShape
        <4>2. tx[p].cur # tx[q].cur
          BY <2>3, <4>1 DEF LInv, Inv, LocksExclusive
        <4> QED
          BY <4>1, <4>2 DEF Works
      <3> QED
        BY <2>1, <3>1, <3>2, LinkKept
    <2> QED
      BY <2>2, <2>3
  <1>3. ASSUME NEW revived \in {{}, Revivable}, CommitCycle(revived)
        PROVE  LinksChecked'
    <2>1. tx' = tx /\ linked' = linked \cup rec.orphans
      BY <1>3 DEF CommitCycle
    <2>2. \A m \in Messages : m \in rec.orphans => Recovered(m)'
      BY <1>3 DEF CommitCycle, Works, Recovered, NoRow
    <2> QED
      BY <2>1, <2>2, LinkKept DEF LinksChecked
  <1>4. CASE \/ \E m \in Messages : Accept(m) \/ Age(m)
             \/ TimeStep \/ AbortCycle \/ UNCHANGED vars \/ Sweep \/ Take
             \/ \E d \in Deliveries, result \in SendResults : Resend(d, result)
    <2>1. tx' = tx /\ linked' = linked
      BY <1>4 DEF Accept, Age, TimeStep, WorkDue, MailDue, AbortCycle, Sweep, Take, Resend,
                  vars, tables
    <2> QED
      BY <2>1, LinkKept DEF LinksChecked
  <1> QED
    BY <1>1, <1>2, <1>3, <1>4 DEF Next, CycleStep, WorkerStep, LinksChecked

\* The sweep (work/recovery.py:48) and the turns (world/inbound.py:98) may both
\* take a message, yet no message is swept twice or under a turn that has
\* written its link, and no turn overwrites the link of another turn.
THEOREM MessagesAreSweptOnce == Spec => []SweptOnce
  <1>1. Init => LInv /\ LinksChecked
    BY InitAgrees DEF Init, IdleTx, LinksChecked, ChecksLink
  <1>2. (LInv /\ LinksChecked) /\ [Next]_vars => (LInv /\ LinksChecked)'
    BY NextAgrees, NextChecks
  <1>3. LInv /\ LinksChecked => SweptOnce
    BY DEF LInv, LedgerAgrees, SweepHolds, LinksChecked, ChecksLink, SweptOnce, Recovered
  <1> QED
    BY <1>1, <1>2, <1>3, PTL DEF Spec

-----------------------------------------------------------------------------
(***************************************************************************)
(* Accepted messages are never discarded: InHand is a least fixed point,   *)
(* so it is enough that a set of Works that accounts for everything after  *)
(* a step accounted for everything before it.                              *)
(***************************************************************************)

\* A turn that answered a student has the reply to show for it.
SaysSo ==
    \A p \in Workers :
        tx[p].phase = "sending" /\ tx[p].row.status = "completed" /\ HasTarget(tx[p].cur)
            => "reply" \in tx[p].dirty \/ Posts(tx[p].cur, "reply")

\* Only the Works of the sweep, which address nobody, may end without a word.
AccountedBut(S) == Accounted(S) /\ \A w \in Works : ~HasTarget(w) => w \in S
OnlySweepForgets ==
    \A S \in SUBSET Works :
        AccountedBut(S) => \A m \in Messages : <<m, "inbound">> \in S

SpokenInv == LInv /\ SaysSo /\ OnlySweepForgets

\* Nothing leaves the outbox.
LEMMA OutboxGrows ==
    ASSUME LInv, [Next]_vars, NEW w \in Works, NEW k \in Kinds, Posts(w, k)
    PROVE  Posts(w, k)'
  BY StepEffect, CommitEffect

\* A turn that has ended has told its student, or was the sweep's.
LEMMA TurnTells ==
    ASSUME LInv, SaysSo, NEW p \in Workers, Commit(p), NEW w \in Works, w = tx[p].cur,
           HasTarget(w)
    PROVE  Told(w)'
  <1>1. work'[w] = tx[p].row /\ tx[p].row.status \in {"completed", "retrying", "failed"}
    BY CommitEffect
  <1>2. \A k \in Kinds : Posts(w, k)' <=> Posts(w, k) \/ k \in tx[p].dirty
    BY CommitEffect
  <1>3. tx[p].phase = "sending" /\ OutboxOf(p)
    BY DEF Commit, LInv, LedgerAgrees, TurnsHold
  <1>4. tx[p].row.status = "completed" => Posts(w, "reply")'
    BY <1>2, <1>3, KindsAre DEF SaysSo
  <1>5. tx[p].row.status = "failed" => Posts(w, "apology")'
    BY <1>2, <1>3, KindsAre DEF OutboxOf
  <1>6. tx[p].row.status = "retrying" => Told(w)'
    BY <1>1 DEF Told
  <1>7. (\E k \in Kinds : Posts(w, k)') => Told(w)'
    BY DEF Told, Posts
  <1> QED
    BY <1>1, <1>4, <1>5, <1>6, <1>7, KindsAre

\* What the student was told of goes on being so, unless a turn folds it in,
\* and then it is that turn that tells.
LEMMA ToldOn ==
    ASSUME LInv, SaysSo, [Next]_vars, NEW w \in Works, Told(w), HasTarget(w)
    PROVE  \/ Told(w)'
           \/ \E v \in Works : work'[w].into = v /\ (Told(v)' \/ ~HasTarget(v))
  <1>1. CASE \A p \in Workers : ~Commit(p)
    <2>1. /\ Appears(w) \/ Revives(w) \/ SameWork(w)
          /\ \A k \in Kinds : Posts(w, k)' <=> Posts(w, k)
      BY <1>1, StepEffect
    <2> QED
      BY <2>1 DEF Appears, Revives, SameWork, Told, Posts
  <1>2. ASSUME NEW p \in Workers, Commit(p)
        PROVE  \/ Told(w)'
               \/ \E v \in Works : work'[w].into = v /\ (Told(v)' \/ ~HasTarget(v))
    <2>1. CASE w = tx[p].cur
      BY <1>2, <2>1, TurnTells
    <2>2. CASE w \in tx[p].folded
      <3>1. work'[w].into = tx[p].cur /\ tx[p].cur \in Works
        BY <1>2, <2>2, CommitEffect
      <3>2. PICK v \in Works : v = tx[p].cur
        BY <3>1
      <3>3. Told(v)' \/ ~HasTarget(v)
        BY <1>2, <3>2, TurnTells
      <3> QED
        BY <3>1, <3>2, <3>3
    <2>3. CASE w # tx[p].cur /\ w \notin tx[p].folded
      <3>1. work'[w] = work[w] /\ \A k \in Kinds : Posts(w, k) => Posts(w, k)'
        BY <1>2, <2>3, CommitEffect
      <3> QED
        BY <3>1 DEF Told, Posts
    <2> QED
      BY <2>1, <2>2, <2>3
  <1> QED
    BY <1>1, <1>2

\* A Work stays folded where it was folded.
LEMMA IntoStays ==
    ASSUME LInv, [Next]_vars, NEW w \in Works, work[w].into \in Works
    PROVE  work'[w].into = work[w].into
  <1>1. work[w].status = "completed"
    <2>1. work[w].into # NoWork
      BY TurnsAssumption DEF TurnsAssumption, Works
    <2> QED
      BY <2>1 DEF LInv, LedgerAgrees, FoldedIsClosed
  <1>2. CASE \A p \in Workers : ~Commit(p)
    BY <1>1, <1>2, StepEffect DEF Appears, Revives, SameWork
  <1>3. ASSUME NEW p \in Workers, Commit(p)
        PROVE  work'[w] = work[w]
    BY <1>1, <1>3, CommitEffect
  <1> QED
    BY <1>2, <1>3

\* A set that accounts for everything after a step did so before it.
LEMMA AccountedBefore ==
    ASSUME LInv, SaysSo, [Next]_vars, NEW S \in SUBSET Works, AccountedBut(S)'
    PROVE  AccountedBut(S)
  <1>1. \A w \in Works : Told(w)' \/ work'[w].into \in S => w \in S
    BY DEF AccountedBut, Accounted
  <1>2. \A w \in Works : ~HasTarget(w) => w \in S
    BY DEF AccountedBut, HasTarget
  <1>3. ASSUME NEW w \in Works, Told(w)
        PROVE  w \in S
    BY <1>1, <1>2, <1>3, ToldOn
  <1>4. ASSUME NEW w \in Works, work[w].into \in S
        PROVE  w \in S
    BY <1>1, <1>4, IntoStays
  <1> QED
    BY <1>2, <1>3, <1>4 DEF AccountedBut, Accounted

\* A turn that ends in a reply has one posted, if there is someone to send it to.
LEMMA SaysSoStays ==
    ASSUME LInv, SaysSo, [Next]_vars, "silent" \notin TurnResults
    PROVE  SaysSo'
  <1> SUFFICES ASSUME NEW p \in Workers, tx'[p].phase = "sending",
                      tx'[p].row.status = "completed", HasTarget(tx'[p].cur)
               PROVE  "reply" \in tx'[p].dirty \/ Posts(tx[p].cur, "reply")'
    BY DEF SaysSo, Posts, HasTarget
  <1>1. tx \in [Workers -> Tx] /\ TypeOK
    BY DEF LInv, Inv, TypeOK
  <1>2. CASE tx'[p] = tx[p]
    <2>1. tx[p].cur \in Works
      BY <1>2, CurType DEF LInv, Inv
    <2> QED
      BY <1>2, <2>1, OutboxGrows, KindsAre DEF SaysSo
  <1>3. CASE Answer(p)
    <2> DEFINE w == tx[p].cur
    <2>1. tx[p] \in Tx /\ w \in Works /\ tx[p].phase = "linked" /\ tx[p].row \in WorkRow
          /\ tx[p].dirty = {}
      BY <1>1, <1>3, CurType DEF Answer, LInv, Inv, Tx, LedgerAgrees, TurnsHold, OutboxOf
    <2>2. ASSUME NEW transient \in BOOLEAN, Fail(p, transient)
          PROVE  tx'[p].row.status # "completed"
      <3> DEFINE again == [tx[p].row EXCEPT !.status = "retrying", !.waiting = TRUE,
                                            !.transient = transient]
                 given == [tx[p].row EXCEPT !.status = "failed", !.transient = transient]
      <3>0. again.status = "retrying" /\ given.status = "failed"
        BY <2>1 DEF WorkRow
      <3>1. CASE MayRetry(tx[p].row)
        <4>1. tx' = [tx EXCEPT ![p] = [tx[p] EXCEPT !.phase = "sending", !.row = again,
                        !.mail = mail[w], !.todo = Pending(mail[w])]]
          BY <1>1, <2>1, <2>2, <3>1 DEF Fail, Tx
        <4> HIDE DEF again
        <4> QED
          BY <1>1, <2>1, <3>0, <4>1 DEF Tx
      <3>2. CASE ~MayRetry(tx[p].row)
        <4>1. tx' = [tx EXCEPT ![p] = [tx[p] EXCEPT !.phase = "sending", !.row = given,
                        !.mail = Posted(w, "apology"), !.dirty = Added(w, "apology")]]
          BY <1>1, <2>1, <2>2, <3>2 DEF Fail, Tx
        <4> HIDE DEF given
        <4> QED
          BY <1>1, <2>1, <3>0, <4>1 DEF Tx
      <3> QED
        BY <3>1, <3>2
    <2>3. Complete(p, "reply")
      <3>1. \A result \in TurnResults \ {"error"} : result = "reply"
        BY TurnsAssumption DEF TurnsAssumption
      <3> QED
        BY <1>3, <2>2, <3>1 DEF Answer
    <2>4. tx'[p].cur = w /\ tx'[p].dirty = Added(w, "reply")
      BY <1>1, <2>1, <2>3 DEF Complete, Tx
    <2>5. "reply" \in Added(w, "reply") \/ Posts(w, "reply")
      BY <1>1, <2>1, <2>4, PostedFacts, KindsAre
    <2> QED
      BY <2>1, <2>4, <2>5, OutboxGrows, KindsAre
  <1>4. ASSUME NEW k \in Kinds, NEW result \in SendResults, Send(p, k, result)
        PROVE  "reply" \in tx'[p].dirty \/ Posts(tx[p].cur, "reply")'
    <2>1. /\ tx[p].phase = "sending" /\ tx[p] \in Tx
          /\ tx'[p].row = tx[p].row /\ tx'[p].cur = tx[p].cur
          /\ tx'[p].dirty = tx[p].dirty \cup {k}
      BY <1>1, <1>4 DEF Send, Tx
    <2>2. tx[p].cur \in Works
      BY <2>1, CurType DEF LInv, Inv
    <2> QED
      BY <2>1, <2>2, OutboxGrows, KindsAre DEF SaysSo
  <1>5. ASSUME Claim(p) \/ Coalesce(p) \/ Gate(p) \/ Link(p) \/ Commit(p) \/ Abort(p)
        PROVE  tx'[p].phase # "sending"
    <2>1. tx[p] \in Tx
      BY <1>1
    <2>2. Claim(p) => tx'[p].phase = "claimed"
      BY <1>1 DEF Claim, IdleTx
    <2>3. Coalesce(p) => tx'[p].phase = "coalesced"
      BY <1>1, <2>1 DEF Coalesce, Tx
    <2>4. Gate(p) => tx'[p].phase = "gated"
      BY <1>1, <2>1 DEF Gate, Tx
    <2>5. Link(p) => tx'[p].phase = "linked"
      BY <1>1, <2>1 DEF Link, Tx
    <2>6. Commit(p) \/ Abort(p) => tx'[p].phase = "idle"
      BY <1>1 DEF Commit, Abort, IdleTx
    <2> QED
      BY <1>5, <2>2, <2>3, <2>4, <2>5, <2>6
  <1>6. ASSUME NEW q \in Workers \ {p}, WorkerStep(q) \/ Abort(q)
        PROVE  tx'[p] = tx[p]
    BY <1>1, <1>6 DEF WorkerStep, Claim, Coalesce, Gate, Link, Answer, Complete, Fail, Send,
                      Commit, Abort
  <1>7. CASE \A q \in Workers : ~(WorkerStep(q) \/ Abort(q))
    BY <1>2, <1>7 DEF Next, Accept, Age, TimeStep, WorkDue, MailDue, CycleStep, Sweep, Take,
                      Resend, CommitCycle, AbortCycle, vars
  <1> QED
    BY <1>2, <1>3, <1>4, <1>5, <1>6, <1>7 DEF WorkerStep

\* At the start every Work is yet to come.
LEMMA InitSpoken == Init => SpokenInv
  <1> SUFFICES ASSUME Init
               PROVE  SpokenInv
    OBVIOUS
  <1>1. LInv
    BY InitAgrees
  <1>2. SaysSo
    BY DEF Init, IdleTx, SaysSo
  <1>3. \A w \in Works : Told(w)
    BY DEF Init, NoRow, Told
  <1>4. \A m \in Messages : <<m, "inbound">> \in Works
    BY DEF Works
  <1> QED
    BY <1>1, <1>2, <1>3, <1>4 DEF SpokenInv, OnlySweepForgets, AccountedBut, Accounted

\* A tutor that always has an answer leaves nobody without a word.
LEMMA NextSpoken ==
    ASSUME "silent" \notin TurnResults
    PROVE  SpokenInv /\ [Next]_vars => SpokenInv'
  <1> SUFFICES ASSUME SpokenInv, [Next]_vars
               PROVE  SpokenInv'
    OBVIOUS
  <1>1. LInv' /\ SaysSo'
    BY NextAgrees, SaysSoStays DEF SpokenInv
  <1>2. OnlySweepForgets'
    <2> SUFFICES ASSUME NEW S \in SUBSET Works, AccountedBut(S)'
                 PROVE  \A m \in Messages : <<m, "inbound">> \in S
      BY DEF OnlySweepForgets
    <2> QED
      BY AccountedBefore DEF SpokenInv, OnlySweepForgets
  <1> QED
    BY <1>1, <1>2 DEF SpokenInv

\* As long as the tutor never answers with nothing, a message is only ever
\* discarded by a Work of the sweep (work/recovery.py:102): through turns,
\* retries, folds, rollbacks and revivals every other Work is open, or has a
\* reply or an apology, or was folded into one of which that holds.
THEOREM OnlyTheSweepForgets ==
    ASSUME "silent" \notin TurnResults
    PROVE  Spec => []OnlySweepForgets
  <1>1. Init => SpokenInv
    BY InitSpoken
  <1>2. SpokenInv /\ [Next]_vars => SpokenInv'
    BY NextSpoken
  <1>3. SpokenInv => OnlySweepForgets
    BY DEF SpokenInv
  <1> QED
    BY <1>1, <1>2, <1>3, PTL DEF Spec

-----------------------------------------------------------------------------
(* Without the sweep. *)

\* The sweep has made no Work and is about to make none.
NothingSwept ==
    /\ aged = {} /\ rec.orphans = {}
    /\ \A m \in Messages : work[<<m, "recovery">>].status = "absent"

\* A turn leaves the recovery loop alone.
LEMMA TurnLeavesRecovery ==
    ASSUME NEW p \in Workers, WorkerStep(p) \/ Abort(p)
    PROVE  aged' = aged /\ rec' = rec
  <1>1. Claim(p) \/ Coalesce(p) \/ Gate(p) => aged' = aged /\ rec' = rec
    BY DEF Claim, Coalesce, Gate
  <1>2. Link(p) \/ Answer(p) => aged' = aged /\ rec' = rec
    BY DEF Link, Answer
  <1>3. ASSUME NEW k \in Kinds, NEW result \in SendResults, Send(p, k, result)
        PROVE  aged' = aged /\ rec' = rec
    BY <1>3 DEF Send
  <1>4. Commit(p) \/ Abort(p) => aged' = aged /\ rec' = rec
    BY DEF Commit, Abort
  <1> QED
    BY <1>1, <1>2, <1>3, <1>4 DEF WorkerStep

\* No message outlives the grace period: the sweep has nothing to do.
LEMMA NothingIsSwept ==
    ASSUME MayAge = {}, LInv, NothingSwept, [Next]_vars
    PROVE  NothingSwept'
  <1>0. \/ (\E m \in Messages : Accept(m) \/ Age(m)) \/ TimeStep
        \/ \E p \in Workers : WorkerStep(p) \/ Abort(p)
        \/ CycleStep \/ AbortCycle \/ UNCHANGED vars
    BY DEF Next
  <1>1. aged' = {}
    <2>1. CASE \E p \in Workers : WorkerStep(p) \/ Abort(p)
      BY <2>1, TurnLeavesRecovery DEF NothingSwept
    <2>2. CASE CycleStep \/ AbortCycle
      BY <2>2 DEF NothingSwept, CycleStep, Sweep, Take, Resend, CommitCycle, AbortCycle
    <2>3. CASE (\E m \in Messages : Accept(m) \/ Age(m)) \/ TimeStep \/ UNCHANGED vars
      BY <2>3 DEF NothingSwept, Accept, Age, TimeStep, WorkDue, MailDue, vars
    <2> QED
      BY <1>0, <2>1, <2>2, <2>3
  <1>2. rec'.orphans = {}
    <2>1. rec \in Rec /\ rec.orphans = {} /\ aged = {}
      BY DEF LInv, Inv, TypeOK, NothingSwept
    <2>2. CASE Sweep
      BY <2>1, <2>2 DEF Sweep, Rec
    <2>3. CASE Take
      BY <2>1, <2>3 DEF Take, Rec
    <2>4. ASSUME NEW d \in Deliveries, NEW result \in SendResults, Resend(d, result)
          PROVE  rec'.orphans = {}
      BY <2>1, <2>4 DEF Resend, Rec
    <2>5. CASE AbortCycle \/ \E revived \in {{}, Revivable} : CommitCycle(revived)
      <3>1. rec' = IdleRec
        BY <2>5 DEF AbortCycle, CommitCycle
      <3> QED
        BY <3>1 DEF IdleRec
    <2>6. CASE \E p \in Workers : WorkerStep(p) \/ Abort(p)
      BY <2>1, <2>6, TurnLeavesRecovery
    <2>7. CASE (\E m \in Messages : Accept(m) \/ Age(m)) \/ TimeStep \/ UNCHANGED vars
      BY <2>1, <2>7 DEF Accept, Age, TimeStep, WorkDue, MailDue, vars
    <2> QED
      BY <1>0, <2>2, <2>3, <2>4, <2>5, <2>6, <2>7 DEF CycleStep
  <1>3. ASSUME NEW m \in Messages
        PROVE  work'[<<m, "recovery">>].status = "absent"
    <2> DEFINE w == <<m, "recovery">>
    <2>1. w \in Works /\ work[w].status = "absent"
      BY DEF Works, NothingSwept
    <2>2. ASSUME NEW p \in Workers, Commit(p)
          PROVE  work'[w] = work[w]
      BY <2>1, <2>2, CommitEffect
    <2>3. CASE \A p \in Workers : ~Commit(p)
      <3>1. Appears(w) \/ SameWork(w)
        BY <2>1, <2>3, StepEffect DEF Revives
      <3>2. ~Appears(w)
        <4>1. ASSUME NEW n \in Messages, Accept(n)
              PROVE  ~Appears(w)
          BY <4>1, AcceptEffect
        <4>2. ASSUME NEW revived \in {{}, Revivable}, CommitCycle(revived)
              PROVE  ~Appears(w)
          BY <4>2, CycleEffect DEF NothingSwept
        <4>3. CASE work' = work
          BY <2>1, <4>3 DEF Appears
        <4>4. CASE (\E n \in Messages : Age(n)) \/ TimeStep
          BY <2>1, <4>4, TimeKeeps DEF SameLedger, Appears
        <4>5. ASSUME NEW p \in Workers, WorkerStep(p) \/ Abort(p)
              PROVE  work' = work
          BY <2>3, <4>5 DEF WorkerStep, Claim, Coalesce, Gate, Link, Answer, Send, Abort, tables
        <4>6. ASSUME CycleStep \/ AbortCycle, \A revived \in {{}, Revivable} : ~CommitCycle(revived)
              PROVE  work' = work
          BY <4>6 DEF CycleStep, Sweep, Take, Resend, AbortCycle, tables
        <4>7. UNCHANGED vars => work' = work
          BY DEF vars, tables
        <4> QED
          BY <1>0, <4>1, <4>2, <4>3, <4>4, <4>5, <4>6, <4>7
      <3> QED
        BY <2>1, <3>1, <3>2 DEF SameWork
    <2> QED
      BY <2>1, <2>2, <2>3
  <1> QED
    BY <1>1, <1>2, <1>3 DEF NothingSwept

\* A Work that the sweep never made is one that is still to come.
LEMMA NoSweepNoLoss == OnlySweepForgets /\ NothingSwept => NeverDiscarded
  <1> SUFFICES ASSUME OnlySweepForgets, NothingSwept, NEW m \in Messages,
                      NEW S \in SUBSET Works, Accounted(S)
               PROVE  <<m, "inbound">> \in S
    <2>1. \A m \in Messages : <<m, "inbound">> \in Works
      BY DEF Works
    <2> QED
      BY <2>1 DEF NeverDiscarded, InHand
  <1>1. ASSUME NEW w \in Works, ~HasTarget(w)
        PROVE  w \in S
    <2>1. w[1] \in Messages /\ w = <<w[1], "recovery">>
      BY <1>1 DEF Works, HasTarget
    <2>2. Told(w)
      BY <2>1 DEF NothingSwept, Told
    <2> QED
      BY <2>2 DEF Accounted
  <1> QED
    BY <1>1 DEF OnlySweepForgets, AccountedBut

\* "Accepted messages are never discarded" (work/recovery.py:6) holds of the
\* turns, as long as the tutor has an answer and the sweep has nothing to do.
THEOREM NothingIsDiscarded ==
    ASSUME "silent" \notin TurnResults, MayAge = {}
    PROVE  Spec => []NeverDiscarded
  <1>1. Init => SpokenInv /\ NothingSwept
    <2>1. Init => NothingSwept
      BY DEF Init, IdleRec, NoRow, NothingSwept, Works
    <2> QED
      BY <2>1, InitSpoken
  <1>2. SpokenInv /\ NothingSwept /\ [Next]_vars => (SpokenInv /\ NothingSwept)'
    BY NextSpoken, NothingIsSwept DEF SpokenInv
  <1>3. SpokenInv /\ NothingSwept => NeverDiscarded
    BY NoSweepNoLoss DEF SpokenInv
  <1> QED
    BY <1>1, <1>2, <1>3, PTL DEF Spec
-----------------------------------------------------------------------------
(***************************************************************************)
(* Every copy the student received is accounted for: the tables will never *)
(* know of it, or it is on record: the row says "delivered", or a turn or  *)
(* the recovery loop has yet to commit that.  One more is what the turn of *)
(* a revived Work writes over the loop's outcome of an apology.            *)
(***************************************************************************)

One(b) == IF b THEN 1 ELSE 0

Delivered(w, k) == mail[w][k].status = "delivered"
InTurn(w, k) == \E p \in Workers : tx[p].cur = w /\ k \in Acked(p)
InCycle(w, k) == <<w, k>> \in rec.acked
OnRecord(w, k) == One(Delivered(w, k)) + One(InTurn(w, k)) + One(InCycle(w, k))
Overwritten(w, k) == k = "apology" /\ Posts(w, k) /\ work[w].status = "completed"

Balanced(w, k) ==
    received[w][k] <= lost[w][k] + OnRecord(w, k) + One(Overwritten(w, k))

SendsCounted == \A w \in Works, k \in Kinds : Balanced(w, k)

\* A row counts no more than max_attempts tries, and what the
\* recovery loop has taken is neither delivered nor exhausted until its cycle
\* ends.
Taken == rec.batch \cup rec.acked \cup rec.failed
RowsCount ==
    /\ \A w \in Works, k \in Kinds :
          /\ mail[w][k].tries <= MaxTries
          /\ ~Posts(w, k) \/ mail[w][k].status = "pending" => mail[w][k].tries = 0
    /\ \A d \in Taken : /\ mail[d[1]][d[2]].status \in {"pending", "failed"}
                        /\ mail[d[1]][d[2]].tries < MaxTries
    /\ rec.batch \cap (rec.acked \cup rec.failed) = {}
    /\ rec.phase # "mailing" => Taken = {}

\* What a turn has written of a delivery: it posts one nobody posted before, or
\* it completes its Work and has tried one once.
TurnWrote(p, k) ==
    LET row == tx[p].mail[k] IN
    \/ row.status = "pending" /\ row.tries = 0 /\ ~Posts(tx[p].cur, k)
    \/ row.status = "failed" /\ row.tries = 1 /\ tx[p].row.status = "completed"
    \/ row.status = "delivered" /\ tx[p].row.status = "completed"

TurnSends(p) ==
    /\ tx[p].phase # "sending" => tx[p].dirty = {} /\ tx[p].todo = {}
    /\ tx[p].row.status # "completed" => tx[p].todo = {}
    /\ "apology" \in Acked(p) \cup tx[p].todo => Posts(tx[p].cur, "apology")
    /\ \A k \in tx[p].todo : tx[p].mail[k].status = "pending" /\ tx[p].mail[k].tries = 0
    /\ \A k \in tx[p].dirty : TurnWrote(p, k)

TurnsSend == \A p \in Workers : TurnSends(p)

CountInv == LInv /\ RowsCount /\ TurnsSend /\ SendsCounted

\* The counters are numbers.
LEMMA CountTypes ==
    ASSUME TypeOK
    PROVE  /\ tx \in [Workers -> Tx] /\ rec \in Rec
           /\ mail \in [Works -> [Kinds -> MailRow]]
           /\ received \in [Works -> [Kinds -> Nat]] /\ lost \in [Works -> [Kinds -> Nat]]
           /\ \A w \in Works, k \in Kinds :
                mail[w][k] \in MailRow /\ mail[w][k].tries \in Nat
                /\ received[w][k] \in Nat /\ lost[w][k] \in Nat
           /\ MaxTries \in Nat /\ MaxTries >= 1
  <1>1. /\ mail \in [Works -> [Kinds -> MailRow]]
        /\ received \in [Works -> [Kinds -> Nat]] /\ lost \in [Works -> [Kinds -> Nat]]
    BY DEF TypeOK
  <1>2. \A w \in Works, k \in Kinds : mail[w][k] \in MailRow
    BY <1>1
  <1>3. \A row \in MailRow : row.tries \in Nat
    BY DEF MailRow
  <1>4. MaxTries \in Nat /\ MaxTries >= 1
    BY TurnsAssumption
  <1> QED
    BY <1>1, <1>2, <1>3, <1>4 DEF TypeOK

\* A turn that has sent something holds its Work, which is open.
LEMMA SendingIsOpen ==
    ASSUME LInv, TurnsSend, NEW p \in Workers,
           tx[p].dirty # {} \/ tx[p].todo # {}
    PROVE  /\ tx[p].phase = "sending" /\ tx[p].cur \in Works /\ tx[p].cur \in tx[p].locked
           /\ work[tx[p].cur].status \in {"queued", "retrying"}
           /\ ~Posts(tx[p].cur, "reply")
  <1>1. tx[p].phase = "sending"
    BY DEF TurnsSend, TurnSends
  <1>2. tx[p].cur \in Works /\ tx[p].cur \in tx[p].locked
    BY <1>1, CurType DEF LInv, Inv, TxShape
  <1>3. work[tx[p].cur].status \in {"queued", "retrying"}
    BY <1>2 DEF LInv, Inv, HeldIsOpen
  <1>4. ~Posts(tx[p].cur, "reply")
    BY <1>2, <1>3 DEF LInv, LedgerAgrees, OutboxAgrees, Posts
  <1> QED
    BY <1>1, <1>2, <1>3, <1>4

\* Only one turn at a time is about a Work.
LEMMA OneSender ==
    ASSUME LInv, TurnsSend, NEW p \in Workers, NEW q \in Workers,
           tx[p].cur = tx[q].cur,
           tx[p].dirty # {} \/ tx[p].todo # {} \/ tx[p].phase = "sending",
           tx[q].dirty # {} \/ tx[q].todo # {} \/ tx[q].phase = "sending"
    PROVE  p = q
  <1>1. tx[p].phase = "sending" /\ tx[q].phase = "sending"
    BY DEF TurnsSend, TurnSends
  <1>2. tx[p].cur \in tx[p].locked /\ tx[q].cur \in tx[q].locked
    BY <1>1 DEF LInv, Inv, TxShape
  <1> QED
    BY <1>2 DEF LInv, Inv, LocksExclusive

\* What accounts for duplicates, from what accounts for every copy.
LEMMA CountedExplains == CountInv => DuplicatesExplained
  <1> SUFFICES ASSUME CountInv, NEW w \in Works, NEW k \in Kinds
               PROVE  received[w][k] <= 1 + lost[w][k] + SentBesides(w, k)
    BY DEF DuplicatesExplained
  <1>1. received[w][k] \in Nat /\ lost[w][k] \in Nat /\ rec \in Rec
    BY CountTypes DEF CountInv, LInv, Inv
  <1>2. Balanced(w, k) /\ RowsCount /\ LInv /\ TurnsSend
    BY DEF CountInv, SendsCounted
  <1>3. InCycle(w, k) => ~Delivered(w, k) /\ Posts(w, k)
    <2>1. \A d \in Taken : mail[d[1]][d[2]].status \in {"pending", "failed"}
      BY <1>2 DEF RowsCount
    <2>2. InCycle(w, k) => <<w, k>> \in Taken
      BY <1>2 DEF RowsCount, Taken, InCycle
    <2> QED
      BY <2>1, <2>2 DEF Delivered, Posts
  <1>4. InTurn(w, k) => work[w].status \in {"queued", "retrying"}
    BY <1>2, SendingIsOpen DEF InTurn, Acked
  <1>5. InTurn(w, k) /\ k = "reply" => ~Posts(w, k)
    BY <1>2, SendingIsOpen DEF InTurn, Acked
  <1>6. InTurn(w, k) /\ k = "apology" => Posts(w, k)
    BY <1>2 DEF InTurn, TurnsSend, TurnSends
  <1>7. Delivered(w, k) => Posts(w, k)
    BY DEF Delivered, Posts
  <1>8. k = "reply" \/ k = "apology"
    BY KindsAre
  <1>9. SentBesides(w, k) = IF k = "apology" /\ Posts(w, k) /\ work[w].status # "failed"
                            THEN 1 ELSE 0
    BY DEF SentBesides, Posts
  <1>10. Overwritten(w, k) => k = "apology" /\ Posts(w, k) /\ work[w].status = "completed"
    BY DEF Overwritten
  <1>11. received[w][k] <= lost[w][k] + OnRecord(w, k) + One(Overwritten(w, k))
    BY <1>2 DEF Balanced
  <1>12. OnRecord(w, k) = One(Delivered(w, k)) + One(InTurn(w, k)) + One(InCycle(w, k))
    BY DEF OnRecord
  <1>13. CASE InTurn(w, k)
    <2>1. ~Overwritten(w, k)
      BY <1>4, <1>10, <1>13
    <2>2. CASE k = "reply"
      <3>1. OnRecord(w, k) = 1
        BY <1>3, <1>5, <1>7, <1>12, <1>13, <2>2 DEF One
      <3>2. SentBesides(w, k) = 0
        BY <1>9, <2>2
      <3> QED
        BY <1>1, <1>11, <2>1, <3>1, <3>2 DEF One
    <2>3. CASE k = "apology"
      <3>1. OnRecord(w, k) \in {1, 2}
        BY <1>3, <1>12, <1>13 DEF One
      <3>2. SentBesides(w, k) = 1
        BY <1>4, <1>6, <1>9, <1>13, <2>3
      <3> QED
        BY <1>1, <1>11, <2>1, <3>1, <3>2 DEF One
    <2> QED
      BY <1>8, <2>2, <2>3
  <1>14. CASE ~InTurn(w, k)
    <2>1. OnRecord(w, k) \in {0, 1}
      BY <1>3, <1>12, <1>14 DEF One
    <2>2. CASE Overwritten(w, k)
      <3>1. SentBesides(w, k) = 1
        BY <1>9, <1>10, <2>2
      <3> QED
        BY <1>1, <1>11, <2>1, <2>2, <3>1 DEF One
    <2>3. CASE ~Overwritten(w, k)
      <3>1. SentBesides(w, k) \in Nat
        BY <1>1, <1>9
      <3> QED
        BY <1>1, <1>11, <2>1, <2>3, <3>1 DEF One
    <2> QED
      BY <2>2, <2>3
  <1> QED
    BY <1>13, <1>14

\* A balance goes on holding while what it adds up only grows.
LEMMA BalanceKept ==
    ASSUME TypeOK, NEW w \in Works, NEW k \in Kinds, Balanced(w, k),
           received'[w][k] = received[w][k], lost'[w][k] = lost[w][k],
           Delivered(w, k) => Delivered(w, k)', InTurn(w, k) => InTurn(w, k)',
           InCycle(w, k) => InCycle(w, k)', Overwritten(w, k) => Overwritten(w, k)'
    PROVE  Balanced(w, k)'
  <1>1. received[w][k] \in Nat /\ lost[w][k] \in Nat
    BY CountTypes
  <1>2. OnRecord(w, k) \in 0..3 /\ OnRecord(w, k)' \in 0..3 /\ OnRecord(w, k) <= OnRecord(w, k)'
    BY DEF OnRecord, One
  <1> QED
    BY <1>1, <1>2 DEF Balanced, One

\* A completed Work stays completed and its apology posted.
LEMMA OverwrittenStays ==
    ASSUME LInv, [Next]_vars, NEW w \in Works, NEW k \in Kinds, Overwritten(w, k)
    PROVE  Overwritten(w, k)'
  <1>1. work[w].status = "completed" /\ k = "apology" /\ Posts(w, k)
    BY DEF Overwritten
  <1>2. work'[w].status = "completed"
    <2>1. CASE \A p \in Workers : ~Commit(p)
      BY <1>1, <2>1, StepEffect DEF Appears, Revives, SameWork
    <2>2. ASSUME NEW p \in Workers, Commit(p)
          PROVE  work'[w] = work[w]
      BY <1>1, <2>2, CommitEffect
    <2> QED
      BY <1>1, <2>1, <2>2
  <1>3. Posts(w, k)'
    BY <1>1, OutboxGrows
  <1> QED
    BY <1>1, <1>2, <1>3 DEF Overwritten

\* A turn that does nothing has sent what it had sent.
LEMMA TurnSendsKept ==
    ASSUME LInv, TurnsSend, NEW q \in Workers, tx'[q] = tx[q],
           \A w \in Works : w = tx[q].cur =>
              \A k \in Kinds : Posts(w, k)' <=> Posts(w, k)
    PROVE  TurnSends(q)'
  <1>1. TurnSends(q) /\ tx[q] \in Tx
    BY DEF TurnsSend, LInv, Inv, TypeOK
  <1>2. CASE tx[q].phase # "sending"
    BY <1>1, <1>2 DEF TurnSends, Acked
  <1>3. CASE tx[q].phase = "sending"
    <2>1. PICK w \in Works : w = tx[q].cur
      BY <1>3, CurType DEF LInv, Inv
    <2>2. \A k \in Kinds : Posts(w, k)' <=> Posts(w, k)
      BY <2>1
    <2>3. \A k \in Kinds : mail'[w][k].status # "absent" <=> Posts(w, k)
      BY <2>2 DEF Posts
    <2>4. tx[q].dirty \subseteq Kinds /\ "apology" \in Kinds
      BY <1>1, KindsAre DEF Tx
    <2>5. \A k \in tx[q].dirty : TurnWrote(q, k)'
      BY <1>1, <2>1, <2>3, <2>4 DEF TurnSends, TurnWrote, Posts
    <2>6. "apology" \in Acked(q) \cup tx[q].todo => Posts(tx[q].cur, "apology")'
      BY <1>1, <2>1, <2>3, <2>4 DEF TurnSends, Posts
    <2>7. Acked(q)' = Acked(q)
      BY DEF Acked
    <2> QED
      BY <1>1, <2>5, <2>6, <2>7 DEF TurnSends
  <1> QED
    BY <1>2, <1>3

\* Rows that no one writes go on counting as they did.
SameRows ==
    \A w \in Works : \A k \in Kinds :
        mail'[w][k].status = mail[w][k].status /\ mail'[w][k].tries = mail[w][k].tries

LEMMA RowsKept ==
    ASSUME TypeOK, RowsCount, SameRows, rec' = rec
    PROVE  RowsCount'
  <1>1. \A d \in Taken : d[1] \in Works /\ d[2] \in Kinds
    BY DEF TypeOK, Rec, Taken, Deliveries
  <1>2. Taken' = Taken
    BY DEF Taken
  <1> QED
    BY <1>1, <1>2 DEF RowsCount, SameRows, Posts

\* Rows that do not change.
LEMMA SameMail ==
    ASSUME mail' = mail
    PROVE  SameRows /\ \A w \in Works : \A k \in Kinds : Posts(w, k)' <=> Posts(w, k)
  BY DEF SameRows, Posts

\* A step outside the turns and the cycle.
LEMMA OutsideCounts ==
    ASSUME CountInv, [Next]_vars, tx' = tx, rec' = rec, SameRows,
           received' = received, lost' = lost
    PROVE  RowsCount' /\ TurnsSend' /\ SendsCounted'
  <1>1. LInv /\ TypeOK /\ RowsCount /\ TurnsSend
    BY DEF CountInv, LInv, Inv
  <1>2. RowsCount'
    BY <1>1, RowsKept
  <1>3. TurnsSend'
    <2>1. \A w \in Works : \A k \in Kinds : Posts(w, k)' <=> Posts(w, k)
      BY DEF SameRows, Posts
    <2> QED
      BY <1>1, <2>1, TurnSendsKept DEF TurnsSend
  <1>4. ASSUME NEW w \in Works, NEW k \in Kinds
        PROVE  Balanced(w, k)'
    <2>1. Balanced(w, k)
      BY DEF CountInv, SendsCounted
    <2>2. Delivered(w, k) => Delivered(w, k)'
      BY DEF SameRows, Delivered
    <2>3. (InTurn(w, k) => InTurn(w, k)') /\ (InCycle(w, k) => InCycle(w, k)')
      BY DEF InTurn, InCycle, Acked
    <2>4. Overwritten(w, k) => Overwritten(w, k)'
      BY <1>1, OverwrittenStays
    <2> QED
      BY <1>1, <2>1, <2>2, <2>3, <2>4, BalanceKept
  <1> QED
    BY <1>2, <1>3, <1>4 DEF SendsCounted

\* A step of a turn before it writes anything.
LEMMA TurnCounts ==
    ASSUME CountInv, [Next]_vars, NEW p \in Workers, \A q \in Workers \ {p} : tx'[q] = tx[q],
           TurnSends(p)', tx[p].dirty = {},
           UNCHANGED <<mail, rec, received, lost>>
    PROVE  RowsCount' /\ TurnsSend' /\ SendsCounted'
  <1>1. LInv /\ TypeOK /\ RowsCount /\ TurnsSend
    BY DEF CountInv, LInv, Inv
  <1>2. RowsCount'
    BY <1>1, RowsKept, SameMail
  <1>3. TurnsSend'
    BY <1>1, TurnSendsKept, SameMail DEF TurnsSend
  <1>4. ASSUME NEW w \in Works, NEW k \in Kinds
        PROVE  Balanced(w, k)'
    <2>1. Balanced(w, k)
      BY DEF CountInv, SendsCounted
    <2>2. Delivered(w, k) => Delivered(w, k)'
      BY DEF Delivered
    <2>3. InTurn(w, k) => InTurn(w, k)'
      BY DEF InTurn, Acked
    <2>4. InCycle(w, k) => InCycle(w, k)'
      BY DEF InCycle
    <2>5. Overwritten(w, k) => Overwritten(w, k)'
      BY <1>1, OverwrittenStays
    <2> QED
      BY <1>1, <2>1, <2>2, <2>3, <2>4, <2>5, BalanceKept
  <1> QED
    BY <1>2, <1>3, <1>4 DEF SendsCounted

\* A turn that has not reached its sends has nothing to show.
LEMMA EarlyTurn ==
    ASSUME LInv, TurnsSend, NEW p \in Workers, tx[p].phase # "sending",
           tx'[p].phase # "sending",
           tx'[p].dirty = {} /\ tx'[p].todo = {}
    PROVE  TurnSends(p)' /\ tx[p].dirty = {}
  <1>1. TurnSends(p)
    BY DEF TurnsSend
  <1> QED
    BY <1>1 DEF TurnSends, Acked

\* Until the tutor has answered nothing is written.
LEMMA EarlyCounts ==
    ASSUME CountInv, NEW p \in Workers, Claim(p) \/ Coalesce(p) \/ Gate(p) \/ Link(p), [Next]_vars
    PROVE  RowsCount' /\ TurnsSend' /\ SendsCounted'
  <1>1. LInv /\ TurnsSend /\ tx \in [Workers -> Tx] /\ tx[p] \in Tx
    BY DEF CountInv, LInv, Inv, TypeOK
  <1>2. TurnSends(p)
    BY <1>1 DEF TurnsSend
  <1>3. UNCHANGED <<mail, rec, received, lost>>
    BY DEF Claim, Coalesce, Gate, Link, tables
  <1>4. CASE Claim(p)
    <2>1. /\ tx[p].phase = "idle" /\ tx'[p].phase = "claimed"
          /\ tx'[p].dirty = {} /\ tx'[p].todo = {}
          /\ \A q \in Workers \ {p} : tx'[q] = tx[q]
      BY <1>1, <1>4 DEF Claim, IdleTx
    <2> QED
      BY <1>1, <1>3, <2>1, EarlyTurn, TurnCounts
  <1>5. CASE Coalesce(p)
    <2>0. PICK related \in SUBSET Siblings(tx[p].cur) :
              tx' = [tx EXCEPT ![p].phase = "coalesced",
                               ![p].locked = @ \cup Siblings(tx[p].cur),
                               ![p].folded = related,
                               ![p].unlinked = tx[p].cur[1] \notin linked]
      BY <1>5 DEF Coalesce
    <2>1. /\ tx[p].phase = "claimed" /\ tx'[p].phase = "coalesced"
          /\ tx'[p].dirty = tx[p].dirty /\ tx'[p].todo = tx[p].todo
          /\ \A q \in Workers \ {p} : tx'[q] = tx[q]
      BY <1>1, <1>5, <2>0 DEF Coalesce, Tx
    <2> QED
      BY <1>1, <1>2, <1>3, <2>1, EarlyTurn, TurnCounts DEF TurnSends
  <1>6. CASE Gate(p)
    <2>1. /\ tx[p].phase = "coalesced" /\ tx'[p].phase = "gated"
          /\ tx'[p].dirty = tx[p].dirty /\ tx'[p].todo = tx[p].todo
          /\ \A q \in Workers \ {p} : tx'[q] = tx[q]
      BY <1>1, <1>6 DEF Gate, Tx
    <2> QED
      BY <1>1, <1>2, <1>3, <2>1, EarlyTurn, TurnCounts DEF TurnSends
  <1>7. CASE Link(p)
    <2>1. /\ tx[p].phase = "gated" /\ tx'[p].phase = "linked"
          /\ tx'[p].dirty = tx[p].dirty /\ tx'[p].todo = tx[p].todo
          /\ \A q \in Workers \ {p} : tx'[q] = tx[q]
      BY <1>1, <1>7 DEF Link, Tx
    <2> QED
      BY <1>1, <1>2, <1>3, <2>1, EarlyTurn, TurnCounts DEF TurnSends
  <1> QED
    BY <1>4, <1>5, <1>6, <1>7

\* _ensure_delivery writes a row nobody wrote before, and not its counter.
LEMMA PostedCounts ==
    ASSUME TypeOK, NEW w \in Works, NEW k \in Kinds
    PROVE  /\ \A j \in Kinds : Posted(w, k)[j].tries = mail[w][j].tries
           /\ k \in Added(w, k) => ~Posts(w, k)
           /\ k \notin Added(w, k) => Posted(w, k) = mail[w]
  <1>1. mail[w] \in [Kinds -> MailRow] /\ mail[w][k] \in MailRow
    BY DEF TypeOK
  <1> DEFINE pending == [mail[w][k] EXCEPT !.status = "pending"]
             rows == [mail[w] EXCEPT ![k].status = "pending"]
  <1>2. pending.tries = mail[w][k].tries
    BY <1>1 DEF MailRow
  <1>3. rows = [mail[w] EXCEPT ![k] = pending]
    OBVIOUS
  <1> HIDE DEF pending
  <1>4. \A j \in Kinds : rows[j].tries = mail[w][j].tries
    BY <1>1, <1>2, <1>3
  <1> HIDE DEF rows
  <1>5. Posted(w, k) = IF HasTarget(w) /\ mail[w][k].status = "absent" THEN rows ELSE mail[w]
    BY DEF Posted, rows
  <1>6. Added(w, k) = IF Posted(w, k) = mail[w] THEN {} ELSE {k}
    BY DEF Added
  <1> QED
    BY <1>4, <1>5, <1>6 DEF Posts

\* What a turn that has just posted a delivery has written.
LEMMA AddedWrote ==
    ASSUME CountInv, NEW w \in Works, NEW k \in Kinds
    PROVE  \A j \in Added(w, k) :
              /\ j = k /\ Posted(w, k)[j].status = "pending" /\ Posted(w, k)[j].tries = 0
              /\ ~Posts(w, j)
  <1>1. TypeOK /\ RowsCount
    BY DEF CountInv, LInv, Inv
  <1>2. ~Posts(w, k) => mail[w][k].tries = 0
    BY <1>1 DEF RowsCount
  <1> QED
    BY <1>1, <1>2, PostedFacts, PostedCounts

\* However the tutor ends, only what is pending will be sent, and only by a
\* turn that completes its Work: a retry has nothing to send.
LEMMA AnswerSends ==
    ASSUME CountInv, NEW p \in Workers, Answer(p)
    PROVE  TurnSends(p)' /\ tx[p].dirty = {} /\ \A q \in Workers \ {p} : tx'[q] = tx[q]
  <1>1. /\ LInv /\ TypeOK /\ RowsCount /\ tx \in [Workers -> Tx] /\ tx[p] \in Tx
        /\ tx[p].phase = "linked" /\ UNCHANGED <<work, mail, rec>>
    BY DEF CountInv, LInv, Inv, TypeOK, Answer, tables
  <1>2. tx[p].dirty = {} /\ tx[p].todo = {}
    BY <1>1 DEF CountInv, TurnsSend, TurnSends
  <1>3. PICK w \in Works : w = tx[p].cur
    BY <1>1, CurType DEF LInv, Inv
  <1>4. tx[p].row \in WorkRow /\ OutboxOf(p) /\ work[w] \in WorkRow
    BY <1>1, <1>3 DEF Tx, LInv, LedgerAgrees, TurnsHold, TypeOK
  <1>5. "reply" \in Kinds /\ "apology" \in Kinds /\ \A k \in Kinds : k = "reply" \/ k = "apology"
    BY KindsAre
  <1>6. \A k \in Kinds : mail[w][k].status = "pending" => mail[w][k].tries = 0
    BY <1>1 DEF RowsCount
  <1>7. work[w].status \in {"queued", "retrying"} /\ ~Posts(w, "reply")
        /\ (Posts(w, "apology") => work[w].attempt >= MaxAttempts)
    <2>1. work[w].status \in {"queued", "retrying"}
      BY <1>1, <1>3 DEF LInv, Inv, TxShape, HeldIsOpen
    <2> QED
      BY <1>1, <2>1 DEF LInv, LedgerAgrees, OutboxAgrees, Posts
  <1>8. ASSUME NEW result \in TurnResults \ {"error"}, Complete(p, result)
        PROVE  TurnSends(p)' /\ \A q \in Workers \ {p} : tx'[q] = tx[q]
    <2> DEFINE rows == IF result = "reply" THEN Posted(w, "reply") ELSE mail[w]
               added == IF result = "reply" THEN Added(w, "reply") ELSE {}
               row == [tx[p].row EXCEPT !.status = "completed"]
    <2>1. tx' = [tx EXCEPT ![p] = [tx[p] EXCEPT !.phase = "sending", !.row = row,
              !.mail = rows, !.todo = Pending(rows), !.dirty = added]]
      BY <1>1, <1>3, <1>8 DEF Complete, Tx
    <2>2. row.status = "completed"
      BY <1>4 DEF WorkRow
    <2>3. \A k \in Pending(rows) : rows[k].status = "pending" /\ rows[k].tries = 0
      <3>1. \A k \in Kinds : rows[k].tries = mail[w][k].tries
        BY <1>1, <1>5, PostedCounts
      <3>2. ASSUME NEW k \in Kinds, rows[k].status = "pending"
            PROVE  mail[w][k].tries = 0
        <4>1. CASE rows[k].status = mail[w][k].status
          BY <1>6, <3>2, <4>1
        <4>2. CASE rows[k].status # mail[w][k].status
          <5>1. result = "reply" /\ k \in Added(w, "reply")
            <6>1. result = "reply" /\ Posted(w, "reply") # mail[w]
              BY <4>2
            <6>2. k = "reply"
              BY <1>1, <1>5, <4>2, <6>1, PostedFacts
            <6> QED
              BY <1>1, <1>5, <6>1, <6>2, PostedCounts
          <5>2. Posted(w, "reply")[k].tries = 0
            BY <1>5, <5>1, AddedWrote
          <5> QED
            BY <1>1, <1>5, <5>2, PostedCounts
        <4> QED
          BY <4>1, <4>2
      <3> QED
        BY <3>1, <3>2 DEF Pending
    <2>4. "apology" \in Pending(rows) => Posts(w, "apology")
      <3>1. rows["apology"] = mail[w]["apology"]
        BY <1>1, <1>5, PostedFacts
      <3> QED
        BY <3>1 DEF Pending, Posts
    <2>5. \A k \in added : rows[k].status = "pending" /\ rows[k].tries = 0 /\ ~Posts(w, k)
      BY <1>5, AddedWrote
    <2> HIDE DEF rows, added, row
    <2>6. /\ tx'[p].phase = "sending" /\ tx'[p].cur = w /\ tx'[p].row = row
          /\ tx'[p].mail = rows /\ tx'[p].todo = Pending(rows) /\ tx'[p].dirty = added
          /\ \A q \in Workers \ {p} : tx'[q] = tx[q]
      BY <1>1, <1>2, <1>3, <2>1 DEF Tx
    <2>7. Acked(p)' = {}
      BY <2>5, <2>6 DEF Acked
    <2> QED
      BY <1>1, <2>2, <2>3, <2>4, <2>5, <2>6, <2>7 DEF TurnSends, TurnWrote, Posts
  <1>9. ASSUME NEW transient \in BOOLEAN, Fail(p, transient)
        PROVE  TurnSends(p)' /\ \A q \in Workers \ {p} : tx'[q] = tx[q]
    <2> DEFINE again == [tx[p].row EXCEPT !.status = "retrying", !.waiting = TRUE,
                                          !.transient = transient]
               given == [tx[p].row EXCEPT !.status = "failed", !.transient = transient]
               added == Added(w, "apology")
               rows == Posted(w, "apology")
    <2>1. again.status = "retrying" /\ given.status = "failed"
      BY <1>4 DEF WorkRow
    <2>2. CASE MayRetry(tx[p].row)
      <3>1. tx' = [tx EXCEPT ![p] = [tx[p] EXCEPT !.phase = "sending", !.row = again,
                      !.mail = mail[w], !.todo = Pending(mail[w])]]
        BY <1>1, <1>3, <1>9, <2>2 DEF Fail, Tx
      <3>2. ~Posts(w, "apology")
        <4>1. tx[p].row.attempt < MaxAttempts /\ tx[p].row.attempt >= work[w].attempt
          BY <1>3, <1>4, <2>2 DEF MayRetry, OutboxOf
        <4> QED
          BY <1>4, <1>7, <4>1, TurnsAssumption DEF WorkRow
      <3>3. Pending(mail[w]) = {}
        BY <1>5, <1>7, <3>2 DEF Pending, Posts
      <3> HIDE DEF again
      <3>4. /\ tx'[p].phase = "sending" /\ tx'[p].row = again /\ tx'[p].todo = {}
            /\ tx'[p].dirty = {}
            /\ \A q \in Workers \ {p} : tx'[q] = tx[q]
        BY <1>1, <1>2, <3>1, <3>3 DEF Tx
      <3> QED
        BY <2>1, <3>4 DEF TurnSends, Acked
    <2>3. CASE ~MayRetry(tx[p].row)
      <3>1. tx' = [tx EXCEPT ![p] = [tx[p] EXCEPT !.phase = "sending", !.row = given,
                      !.mail = rows, !.dirty = added]]
        BY <1>1, <1>3, <1>9, <2>3 DEF Fail, Tx
      <3>2. \A k \in added : rows[k].status = "pending" /\ rows[k].tries = 0 /\ ~Posts(w, k)
        BY <1>5, AddedWrote
      <3> HIDE DEF given, added, rows
      <3>3. /\ tx'[p].phase = "sending" /\ tx'[p].cur = w /\ tx'[p].row = given
            /\ tx'[p].mail = rows /\ tx'[p].todo = {} /\ tx'[p].dirty = added
            /\ \A q \in Workers \ {p} : tx'[q] = tx[q]
        BY <1>1, <1>2, <1>3, <3>1 DEF Tx
      <3>4. Acked(p)' = {}
        BY <3>2, <3>3 DEF Acked
      <3> QED
        BY <1>1, <2>1, <3>2, <3>3, <3>4 DEF TurnSends, TurnWrote, Posts
    <2> QED
      BY <2>2, <2>3
  <1> QED
    BY <1>2, <1>8, <1>9 DEF Answer

\* So the end of a tutor turn sends nothing yet.
LEMMA AnswerCounts ==
    ASSUME CountInv, NEW p \in Workers, Answer(p), [Next]_vars
    PROVE  RowsCount' /\ TurnsSend' /\ SendsCounted'
  <1>1. UNCHANGED <<mail, rec, received, lost>>
    BY DEF Answer, tables
  <1> QED
    BY <1>1, AnswerSends, TurnCounts

\* A turn tries what it has to send once, and knows of an acknowledgement.
LEMMA SendSends ==
    ASSUME CountInv, NEW p \in Workers, NEW k \in Kinds, NEW result \in SendResults,
           Send(p, k, result)
    PROVE  /\ TurnSends(p)' /\ k \notin Acked(p)
           /\ \A q \in Workers \ {p} : tx'[q] = tx[q]
           /\ tx'[p].cur = tx[p].cur
           /\ Acked(p)' = IF result = "acked" THEN Acked(p) \cup {k} ELSE Acked(p)
  <1> DEFINE rows == [tx[p].mail EXCEPT ![k] = Attempted(@, result)]
  <1>1. /\ tx \in [Workers -> Tx] /\ tx[p] \in Tx /\ tx[p].phase = "sending"
        /\ k \in tx[p].todo /\ UNCHANGED <<work, mail, rec>> /\ TurnSends(p)
    BY DEF CountInv, LInv, Inv, TypeOK, Send, tables, TurnsSend
  <1>2. tx[p].mail \in [Kinds -> MailRow] /\ tx[p].mail[k] \in MailRow
    BY <1>1 DEF Tx
  <1>3. tx[p].mail[k].tries = 0 /\ tx[p].row.status = "completed" /\ k \notin Acked(p)
    BY <1>1 DEF TurnSends, Acked
  <1>4. /\ result = "acked" => Attempted(tx[p].mail[k], result).status = "delivered"
        /\ result # "acked" => /\ Attempted(tx[p].mail[k], result).status = "failed"
                               /\ Attempted(tx[p].mail[k], result).tries = 1
    BY <1>2, <1>3 DEF Attempted, MailRow
  <1>5. rows[k] = Attempted(tx[p].mail[k], result) /\ \A j \in Kinds : j # k => rows[j] = tx[p].mail[j]
    BY <1>2
  <1>6. /\ tx'[p].phase = "sending" /\ tx'[p].cur = tx[p].cur /\ tx'[p].row = tx[p].row
        /\ tx'[p].mail = rows /\ tx'[p].todo = tx[p].todo \ {k}
        /\ tx'[p].dirty = tx[p].dirty \cup {k}
        /\ \A q \in Workers \ {p} : tx'[q] = tx[q]
    BY <1>1 DEF Send, Tx
  <1>7. tx[p].dirty \subseteq Kinds /\ tx[p].todo \subseteq Kinds
    BY <1>1 DEF Tx
  <1> HIDE DEF rows
  <1>8. ASSUME NEW j \in tx'[p].dirty
        PROVE  TurnWrote(p, j)'
    <2>1. CASE j = k
      BY <1>3, <1>4, <1>5, <1>6, <2>1 DEF TurnWrote
    <2>2. CASE j # k
      <3>1. j \in tx[p].dirty /\ j \in Kinds /\ rows[j] = tx[p].mail[j]
        BY <1>5, <1>6, <1>7, <1>8, <2>2
      <3>2. TurnWrote(p, j)
        BY <1>1, <3>1 DEF TurnSends
      <3> QED
        BY <1>1, <1>6, <3>1, <3>2 DEF TurnWrote, Posts
    <2> QED
      BY <2>1, <2>2
  <1>9. \A j \in tx'[p].todo : rows[j].status = "pending" /\ rows[j].tries = 0
    BY <1>1, <1>5, <1>6, <1>7 DEF TurnSends
  <1>10. Acked(p)' = IF result = "acked" THEN Acked(p) \cup {k} ELSE Acked(p)
    BY <1>3, <1>4, <1>5, <1>6, <1>7 DEF Acked
  <1>11. "apology" \in Acked(p)' \cup tx'[p].todo => Posts(tx[p].cur, "apology")'
    BY <1>1, <1>6, <1>10 DEF TurnSends, Posts
  <1>12. TurnSends(p)'
    BY <1>3, <1>6, <1>8, <1>9, <1>11 DEF TurnSends
  <1> QED
    BY <1>3, <1>6, <1>10, <1>12

\* A send is accounted for by the turn that made it, or given up for lost.
LEMMA SendCounts ==
    ASSUME CountInv, NEW p \in Workers, NEW k \in Kinds, NEW result \in SendResults,
           Send(p, k, result), [Next]_vars
    PROVE  RowsCount' /\ TurnsSend' /\ SendsCounted'
  <1>1. /\ LInv /\ TypeOK /\ RowsCount /\ TurnsSend /\ k \in tx[p].todo
        /\ UNCHANGED <<work, mail, rec>> /\ Counted(tx[p].cur, k, result)
        /\ tx[p].cur \in Works
    BY CurType DEF CountInv, LInv, Inv, Send, tables
  <1>2. /\ TurnSends(p)' /\ k \notin Acked(p)
        /\ \A q \in Workers \ {p} : tx'[q] = tx[q]
        /\ tx'[p].cur = tx[p].cur
        /\ Acked(p)' = IF result = "acked" THEN Acked(p) \cup {k} ELSE Acked(p)
    BY SendSends
  <1>3. RowsCount' /\ TurnsSend'
    BY <1>1, <1>2, RowsKept, SameMail, TurnSendsKept DEF TurnsSend
  <1>4. ASSUME NEW v \in Works, NEW j \in Kinds
        PROVE  Balanced(v, j)'
    <2>1. Balanced(v, j)
      BY DEF CountInv, SendsCounted
    <2>2. (Delivered(v, j) => Delivered(v, j)') /\ (InCycle(v, j) => InCycle(v, j)')
      BY <1>1 DEF Delivered, InCycle
    <2>3. Overwritten(v, j) => Overwritten(v, j)'
      BY <1>1, OverwrittenStays
    <2>4. InTurn(v, j) => InTurn(v, j)'
      <3>1. \A q \in Workers \ {p} : Acked(q)' = Acked(q)
        BY <1>2 DEF Acked
      <3> QED
        BY <1>2, <3>1 DEF InTurn
    <2>5. /\ received[v][j] \in Nat /\ lost[v][j] \in Nat
          /\ received'[v][j] = IF v = tx[p].cur /\ j = k /\ result # "refused"
                               THEN received[v][j] + 1 ELSE received[v][j]
          /\ lost'[v][j] = IF v = tx[p].cur /\ j = k /\ result = "unacked"
                           THEN lost[v][j] + 1 ELSE lost[v][j]
      BY <1>1, CountTypes, CountedEffect
    <2>6. CASE v = tx[p].cur /\ j = k /\ result = "acked"
      <3>1. ~InTurn(v, j)
        BY <1>1, <1>2, <2>6, OneSender DEF InTurn, Acked
      <3>2. InTurn(v, j)'
        BY <1>2, <2>6 DEF InTurn
      <3>3. OnRecord(v, j) \in 0..3 /\ OnRecord(v, j)' \in 0..3
            /\ OnRecord(v, j) + 1 <= OnRecord(v, j)'
        BY <2>2, <3>1, <3>2 DEF OnRecord, One
      <3> QED
        BY <2>1, <2>3, <2>5, <2>6, <3>3 DEF Balanced, One
    <2>7. CASE v = tx[p].cur /\ j = k /\ result # "acked"
      <3>1. result \in {"unacked", "refused"}
        BY <2>7, TurnsAssumption DEF TurnsAssumption
      <3>2. OnRecord(v, j) \in 0..3 /\ OnRecord(v, j)' \in 0..3
            /\ OnRecord(v, j) <= OnRecord(v, j)'
        BY <2>2, <2>4 DEF OnRecord, One
      <3> QED
        BY <2>1, <2>3, <2>5, <2>7, <3>1, <3>2 DEF Balanced, One
    <2>8. CASE ~(v = tx[p].cur /\ j = k)
      <3>1. received'[v][j] = received[v][j] /\ lost'[v][j] = lost[v][j]
        BY <2>5, <2>8
      <3> QED
        BY <1>1, <2>1, <2>2, <2>3, <2>4, <3>1, BalanceKept
    <2> QED
      BY <2>6, <2>7, <2>8
  <1> QED
    BY <1>3, <1>4 DEF SendsCounted

\* A rollback loses the acknowledgements its turn had, and counts them as lost.
LEMMA AbortCounts ==
    ASSUME CountInv, NEW p \in Workers, Abort(p), [Next]_vars
    PROVE  RowsCount' /\ TurnsSend' /\ SendsCounted'
  <1>1. /\ LInv /\ TypeOK /\ RowsCount /\ TurnsSend /\ tx \in [Workers -> Tx]
        /\ UNCHANGED <<work, mail, rec, received>>
    BY DEF CountInv, LInv, Inv, TypeOK, Abort, tables
  <1>2. tx'[p] = IdleTx /\ \A q \in Workers \ {p} : tx'[q] = tx[q]
    BY <1>1 DEF Abort
  <1>3. TurnSends(p)'
    BY <1>2 DEF TurnSends, IdleTx, Acked
  <1>4. RowsCount' /\ TurnsSend'
    BY <1>1, <1>2, <1>3, RowsKept, SameMail, TurnSendsKept DEF TurnsSend
  <1>5. ASSUME NEW v \in Works, NEW j \in Kinds
        PROVE  Balanced(v, j)'
    <2>1. Balanced(v, j)
      BY DEF CountInv, SendsCounted
    <2>2. (Delivered(v, j) => Delivered(v, j)') /\ (InCycle(v, j) => InCycle(v, j)')
      BY <1>1 DEF Delivered, InCycle
    <2>3. Overwritten(v, j) => Overwritten(v, j)'
      BY <1>1, OverwrittenStays
    <2>4. /\ received[v][j] \in Nat /\ lost[v][j] \in Nat
          /\ lost \in [Works -> [Kinds -> Nat]]
      BY <1>1, CountTypes
    <2>5. CASE v = tx[p].cur /\ j \in Acked(p)
      <3>1. lost'[v][j] = lost[v][j] + 1
        BY <2>4, <2>5 DEF Abort
      <3>2. OnRecord(v, j) \in 0..3 /\ OnRecord(v, j)' \in 0..3
            /\ OnRecord(v, j) <= OnRecord(v, j)' + 1
        BY <2>2 DEF OnRecord, One
      <3>3. received'[v][j] = received[v][j]
        BY <1>1
      <3> QED
        BY <2>1, <2>3, <2>4, <3>1, <3>2, <3>3 DEF Balanced, One
    <2>6. CASE ~(v = tx[p].cur /\ j \in Acked(p))
      <3>1. lost'[v][j] = lost[v][j]
        BY <2>4, <2>6 DEF Abort
      <3>2. InTurn(v, j) => InTurn(v, j)'
        <4>1. \A q \in Workers \ {p} : Acked(q)' = Acked(q)
          BY <1>2 DEF Acked
        <4> QED
          BY <1>2, <2>6, <4>1 DEF InTurn
      <3> QED
        BY <1>1, <2>1, <2>2, <2>3, <3>1, <3>2, BalanceKept
    <2> QED
      BY <2>5, <2>6
  <1> QED
    BY <1>4, <1>5 DEF SendsCounted

\* What a commit does to one delivery.
LEMMA CommittedRow ==
    ASSUME CountInv, NEW p \in Workers, Commit(p), NEW v \in Works, NEW k \in Kinds
    PROVE  /\ ~(v = tx[p].cur /\ k \in tx[p].dirty) => mail'[v][k] = mail[v][k]
           /\ v = tx[p].cur /\ k \in tx[p].dirty =>
                /\ mail'[v][k].status = tx[p].mail[k].status
                /\ mail'[v][k].tries = IF tx[p].mail[k].status = "failed"
                                       THEN tx[p].mail[k].tries ELSE mail[v][k].tries
                /\ mail'[v][k] \in MailRow /\ <<v, k>> \notin Taken
  <1>1. /\ mail \in [Works -> [Kinds -> MailRow]] /\ tx[p] \in Tx /\ tx[p].cur \in Works
        /\ mail[v][k] \in MailRow /\ tx[p].mail[k] \in MailRow
    <2>1. TypeOK /\ tx[p].phase # "idle"
      BY DEF CountInv, LInv, Inv, Commit
    <2>2. tx[p] \in Tx /\ tx[p].cur \in Works
      BY <2>1, CurType DEF CountInv, LInv, Inv
    <2> QED
      BY <2>1, <2>2 DEF TypeOK, Tx
  <1>2. mail' = [mail EXCEPT ![tx[p].cur] =
              [k2 \in Kinds |-> IF k2 \in tx[p].dirty
                                THEN Flushed(mail[tx[p].cur][k2], tx[p].mail[k2])
                                ELSE mail[tx[p].cur][k2]]]
    BY <1>1 DEF Commit, CommittedMail
  <1> DEFINE new == Flushed(mail[v][k], tx[p].mail[k])
  <1>3. /\ new.status = tx[p].mail[k].status
        /\ new.tries = IF tx[p].mail[k].status = "failed" THEN tx[p].mail[k].tries
                       ELSE mail[v][k].tries
        /\ new \in MailRow
    BY <1>1 DEF Flushed, MailRow
  <1> HIDE DEF new
  <1>4. v = tx[p].cur /\ k \in tx[p].dirty => mail'[v][k] = new
    BY <1>1, <1>2 DEF new
  <1>5. ~(v = tx[p].cur /\ k \in tx[p].dirty) => mail'[v][k] = mail[v][k]
    BY <1>1, <1>2
  <1>6. v = tx[p].cur /\ k \in tx[p].dirty => <<v, k>> \notin Taken
    BY DEF Commit, FlushBlocked, Taken
  <1> QED
    BY <1>3, <1>4, <1>5, <1>6

\* What is committed of a delivery accounts for the sends of the turn.
LEMMA CommitBalances ==
    ASSUME CountInv, NEW p \in Workers, Commit(p), NEW v \in Works, NEW k \in Kinds,
           v = tx[p].cur, k \in tx[p].dirty
    PROVE  Balanced(v, k)'
  <1>1. /\ LInv /\ TypeOK /\ RowsCount /\ TurnsSend /\ TurnSends(p) /\ TurnWrote(p, k)
        /\ Balanced(v, k) /\ received' = received /\ lost' = lost
        /\ rec' = rec
    BY DEF CountInv, LInv, Inv, TurnsSend, TurnSends, SendsCounted, Commit
  <1>2. received[v][k] \in Nat /\ lost[v][k] \in Nat
    BY <1>1, CountTypes
  <1>3. mail'[v][k].status = tx[p].mail[k].status /\ <<v, k>> \notin Taken
    BY CommittedRow
  <1>4. ~InCycle(v, k)
    BY <1>3 DEF InCycle, Taken
  <1>5. work[v].status # "completed" /\ ~Overwritten(v, k) /\ (k = "reply" => ~Posts(v, k))
    BY <1>1, SendingIsOpen DEF Overwritten
  <1>6. InTurn(v, k) => tx[p].mail[k].status = "delivered"
    BY <1>1, OneSender DEF InTurn, Acked
  <1>7. Delivered(v, k)' <=> tx[p].mail[k].status = "delivered"
    BY <1>3 DEF Delivered
  <1>8. ~Posts(v, k) => ~Delivered(v, k)
    BY DEF Posts, Delivered
  <1>9. received[v][k] <= lost[v][k] + One(Delivered(v, k)) + One(InTurn(v, k))
    BY <1>1, <1>2, <1>4, <1>5 DEF Balanced, OnRecord, One
  <1>10. OnRecord(v, k)' \in 0..3 /\ OnRecord(v, k)' >= One(Delivered(v, k)')
    BY DEF OnRecord, One
  <1>11. One(Overwritten(v, k)') \in 0..1
    BY DEF One
  <1>12. CASE ~Posts(v, k)
    <2>1. received[v][k] <= lost[v][k] + One(InTurn(v, k))
      BY <1>2, <1>8, <1>9, <1>12 DEF One
    <2>2. One(InTurn(v, k)) <= One(Delivered(v, k)')
      BY <1>6, <1>7 DEF One
    <2> QED
      BY <1>1, <1>2, <1>10, <1>11, <2>1, <2>2 DEF Balanced, One
  <1>13. CASE Posts(v, k)
    <2>1. k = "apology"
      BY <1>5, <1>13, KindsAre
    <2>2. Overwritten(v, k)'
      <3>1. /\ tx[p].row.status = "completed"
            /\ tx[p].mail[k].status \in {"failed", "delivered"}
        BY <1>1, <1>13 DEF TurnWrote
      <3>2. work'[v] = tx[p].row
        BY <1>1, CommitEffect
      <3> QED
        BY <1>3, <2>1, <3>1, <3>2 DEF Overwritten, Posts
    <2>3. One(Delivered(v, k)) + One(InTurn(v, k)) <= One(Delivered(v, k)') + 1
      BY <1>6, <1>7 DEF One
    <2>4. One(Delivered(v, k)) \in 0..1 /\ One(InTurn(v, k)) \in 0..1
          /\ One(Delivered(v, k)') \in 0..1
      BY DEF One
    <2> QED
      BY <1>1, <1>2, <1>9, <1>10, <2>2, <2>3, <2>4 DEF Balanced, One
  <1> QED
    BY <1>12, <1>13

\* A commit puts on record what its turn has sent.
LEMMA CommitCounts ==
    ASSUME CountInv, NEW p \in Workers, Commit(p), [Next]_vars
    PROVE  RowsCount' /\ TurnsSend' /\ SendsCounted'
  <1>1. /\ LInv /\ TypeOK /\ RowsCount /\ TurnsSend /\ TurnSends(p) /\ tx \in [Workers -> Tx]
        /\ received' = received /\ lost' = lost /\ rec' = rec /\ tx[p].phase = "sending"
        /\ tx[p].cur \in Works
    BY CurType DEF CountInv, LInv, Inv, TypeOK, Commit, TurnsSend
  <1>2. tx'[p] = IdleTx /\ \A q \in Workers \ {p} : tx'[q] = tx[q]
    BY <1>1 DEF Commit
  <1>3. \A v \in Works, k \in Kinds :
            Posts(v, k)' <=> Posts(v, k) \/ (v = tx[p].cur /\ k \in tx[p].dirty)
    BY <1>1, CommitEffect
  <1>4. RowsCount'
    <2>1. ASSUME NEW v \in Works, NEW k \in Kinds
          PROVE  /\ mail'[v][k].tries <= MaxTries
                 /\ ~Posts(v, k)' \/ mail'[v][k].status = "pending" => mail'[v][k].tries = 0
      <3>1. /\ mail[v][k].tries <= MaxTries
            /\ ~Posts(v, k) \/ mail[v][k].status = "pending" => mail[v][k].tries = 0
        BY <1>1 DEF RowsCount
      <3>2. CASE v = tx[p].cur /\ k \in tx[p].dirty
        <4>1. TurnWrote(p, k) /\ MaxTries >= 1 /\ MaxTries \in Nat
          BY <1>1, <3>2, CountTypes DEF TurnSends
        <4>2. /\ mail'[v][k].status = tx[p].mail[k].status
              /\ mail'[v][k].tries = IF tx[p].mail[k].status = "failed"
                                     THEN tx[p].mail[k].tries ELSE mail[v][k].tries
          BY <3>2, CommittedRow
        <4>3. Posts(v, k)'
          BY <1>3, <3>2
        <4> QED
          BY <3>1, <3>2, <4>1, <4>2, <4>3 DEF TurnWrote
      <3>3. CASE ~(v = tx[p].cur /\ k \in tx[p].dirty)
        <4>1. mail'[v][k] = mail[v][k]
          BY <3>3, CommittedRow
        <4> QED
          BY <3>1, <4>1 DEF Posts
      <3> QED
        BY <3>2, <3>3
    <2>2. ASSUME NEW d \in Taken
          PROVE  mail'[d[1]][d[2]] = mail[d[1]][d[2]]
      <3>1. d[1] \in Works /\ d[2] \in Kinds /\ d = <<d[1], d[2]>>
        BY <1>1 DEF TypeOK, Rec, Taken, Deliveries
      <3> QED
        BY <3>1, CommittedRow
    <2> QED
      BY <1>1, <2>1, <2>2 DEF RowsCount, Taken, Posts
  <1>5. TurnsSend'
    <2>1. TurnSends(p)'
      BY <1>2 DEF TurnSends, IdleTx, Acked
    <2>2. ASSUME NEW q \in Workers \ {p}
          PROVE  TurnSends(q)'
      <3>1. CASE tx[q].phase = "sending"
        <4>1. tx[q].cur # tx[p].cur
          BY <1>1, <3>1, OneSender
        <4>2. \A w \in Works : w = tx[q].cur => \A k \in Kinds : Posts(w, k)' <=> Posts(w, k)
          BY <1>3, <4>1
        <4> QED
          BY <1>1, <1>2, <4>2, TurnSendsKept
      <3>2. CASE tx[q].phase # "sending"
        BY <1>1, <1>2, <3>2 DEF TurnsSend, TurnSends, Acked
      <3> QED
        BY <3>1, <3>2
    <2> QED
      BY <2>1, <2>2 DEF TurnsSend
  <1>6. ASSUME NEW v \in Works, NEW k \in Kinds
        PROVE  Balanced(v, k)'
    <2>1. CASE v = tx[p].cur /\ k \in tx[p].dirty
      BY <2>1, CommitBalances
    <2>2. CASE ~(v = tx[p].cur /\ k \in tx[p].dirty)
      <3>1. mail'[v][k] = mail[v][k]
        BY <2>2, CommittedRow
      <3>2. Balanced(v, k)
        BY DEF CountInv, SendsCounted
      <3>3. InTurn(v, k) => InTurn(v, k)'
        <4>1. \A q \in Workers \ {p} : Acked(q)' = Acked(q)
          BY <1>2 DEF Acked
        <4> QED
          BY <1>2, <2>2, <4>1 DEF InTurn, Acked
      <3>4. Overwritten(v, k) => Overwritten(v, k)'
        BY <1>1, OverwrittenStays
      <3>5. (Delivered(v, k) => Delivered(v, k)') /\ (InCycle(v, k) => InCycle(v, k)')
        BY <1>1, <3>1 DEF Delivered, InCycle
      <3> QED
        BY <1>1, <3>1, <3>2, <3>3, <3>4, <3>5, BalanceKept
    <2> QED
      BY <2>1, <2>2
  <1> QED
    BY <1>4, <1>5, <1>6 DEF SendsCounted

\* The recovery loop takes only what it may still try, and records each try.
LEMMA CycleRows ==
    ASSUME CountInv,
           \/ Sweep \/ Take \/ AbortCycle
           \/ \E d \in Deliveries, result \in SendResults : Resend(d, result)
    PROVE  RowsCount'
  <1>1. /\ RowsCount /\ rec \in Rec /\ UNCHANGED <<work, mail>> /\ TypeOK
    BY DEF CountInv, LInv, Inv, TypeOK, Sweep, Take, AbortCycle, Resend, tables
  <1>2. \A w \in Works, k \in Kinds :
          /\ mail'[w][k].tries <= MaxTries
          /\ ~Posts(w, k)' \/ mail'[w][k].status = "pending" => mail'[w][k].tries = 0
    BY <1>1 DEF RowsCount, Posts
  <1>3. CASE Sweep
    <2>1. /\ rec'.batch = rec.batch /\ rec'.acked = rec.acked /\ rec'.failed = rec.failed
          /\ rec.phase = "idle"
      BY <1>1, <1>3 DEF Sweep, Rec
    <2> QED
      BY <1>1, <1>2, <2>1 DEF RowsCount, Taken
  <1>4. CASE Take
    <2>1. rec.acked = {} /\ rec.failed = {}
      BY <1>1, <1>4 DEF Take, RowsCount, Taken
    <2>2. /\ rec'.acked = rec.acked /\ rec'.failed = rec.failed
          /\ rec'.phase = "mailing"
          /\ \A d \in rec'.batch : Retriable(d[1], d[2])
      BY <1>1, <1>4 DEF Take, Rec
    <2> QED
      BY <1>1, <1>2, <2>1, <2>2 DEF RowsCount, Taken, Retriable
  <1>5. CASE AbortCycle
    BY <1>1, <1>2, <1>5 DEF AbortCycle, IdleRec, RowsCount, Taken
  <1>6. ASSUME NEW d \in Deliveries, NEW result \in SendResults, Resend(d, result)
        PROVE  RowsCount'
    <2>1. /\ d \in rec.batch /\ rec'.phase = "mailing" /\ rec'.batch = rec.batch \ {d}
          /\ rec'.acked = IF result = "acked" THEN rec.acked \cup {d} ELSE rec.acked
          /\ rec'.failed = IF result = "acked" THEN rec.failed ELSE rec.failed \cup {d}
      BY <1>1, <1>6 DEF Resend, Rec
    <2> QED
      BY <1>1, <1>2, <2>1 DEF RowsCount, Taken
  <1> QED
    BY <1>3, <1>4, <1>5, <1>6

\* Nothing a cycle does before its commit touches a turn.
LEMMA CycleSends ==
    ASSUME CountInv, tx' = tx, \A w \in Works : \A k \in Kinds : Posts(w, k)' <=> Posts(w, k)
    PROVE  TurnsSend'
  <1>1. LInv /\ TurnsSend
    BY DEF CountInv
  <1> QED
    BY <1>1, TurnSendsKept DEF TurnsSend

\* A send of the loop is accounted for by its cycle, and lost with it.
LEMMA CycleCounts ==
    ASSUME CountInv, [Next]_vars,
           \/ Sweep \/ Take \/ AbortCycle
           \/ \E d \in Deliveries, result \in SendResults : Resend(d, result)
    PROVE  RowsCount' /\ TurnsSend' /\ SendsCounted'
  <1>1. /\ LInv /\ TypeOK /\ RowsCount /\ rec \in Rec /\ UNCHANGED <<work, mail, tx>>
    BY DEF CountInv, LInv, Inv, TypeOK, Sweep, Take, AbortCycle, Resend, tables
  <1>2. RowsCount' /\ TurnsSend'
    BY <1>1, CycleRows, CycleSends, SameMail
  <1>3. ASSUME NEW v \in Works, NEW k \in Kinds
        PROVE  Balanced(v, k)'
    <2>1. Balanced(v, k)
      BY DEF CountInv, SendsCounted
    <2>2. (Delivered(v, k) => Delivered(v, k)') /\ (InTurn(v, k) => InTurn(v, k)')
      BY <1>1 DEF Delivered, InTurn, Acked
    <2>3. Overwritten(v, k) => Overwritten(v, k)'
      BY <1>1, OverwrittenStays
    <2>4. received[v][k] \in Nat /\ lost[v][k] \in Nat
      BY <1>1, CountTypes
    <2>6. CASE Sweep \/ Take
      <3>1. received' = received /\ lost' = lost /\ rec'.acked = rec.acked
        BY <1>1, <2>6 DEF Sweep, Take, Rec
      <3>2. InCycle(v, k) => InCycle(v, k)'
        BY <3>1 DEF InCycle
      <3> QED
        BY <1>1, <2>1, <2>2, <2>3, <3>1, <3>2, BalanceKept
    <2>7. CASE AbortCycle
      <3>1. received'[v][k] = received[v][k]
            /\ lost'[v][k] = IF InCycle(v, k) THEN lost[v][k] + 1 ELSE lost[v][k]
        BY <2>7 DEF AbortCycle, InCycle
      <3>2. CASE InCycle(v, k)
        <4>1. OnRecord(v, k) \in 0..3 /\ OnRecord(v, k)' \in 0..3
              /\ OnRecord(v, k) <= OnRecord(v, k)' + 1
          BY <2>2 DEF OnRecord, One
        <4> QED
          BY <2>1, <2>3, <2>4, <3>1, <3>2, <4>1 DEF Balanced, One
      <3>3. CASE ~InCycle(v, k)
        BY <1>1, <2>1, <2>2, <2>3, <3>1, <3>3, BalanceKept
      <3> QED
        BY <3>2, <3>3
    <2>8. ASSUME NEW d \in Deliveries, NEW result \in SendResults, Resend(d, result)
          PROVE  Balanced(v, k)'
      <3>1. /\ d \in rec.batch /\ Counted(d[1], d[2], result)
            /\ rec'.acked = IF result = "acked" THEN rec.acked \cup {d} ELSE rec.acked
        BY <1>1, <2>8 DEF Resend, Rec
      <3>2. InCycle(v, k) => InCycle(v, k)'
        BY <3>1 DEF InCycle
      <3>3. d = <<d[1], d[2]>> /\ d[1] \in Works /\ d[2] \in Kinds
        BY DEF Deliveries
      <3>4. /\ received'[v][k] = IF d = <<v, k>> /\ result # "refused"
                                 THEN received[v][k] + 1 ELSE received[v][k]
            /\ lost'[v][k] = IF d = <<v, k>> /\ result = "unacked"
                             THEN lost[v][k] + 1 ELSE lost[v][k]
        BY <1>1, <3>1, <3>3, CountedEffect
      <3>5. CASE d = <<v, k>> /\ result = "acked"
        <4>1. ~InCycle(v, k) /\ InCycle(v, k)'
          BY <1>1, <3>1, <3>5 DEF InCycle, RowsCount
        <4>2. OnRecord(v, k) \in 0..3 /\ OnRecord(v, k)' \in 0..3
              /\ OnRecord(v, k) + 1 <= OnRecord(v, k)'
          BY <2>2, <4>1 DEF OnRecord, One
        <4> QED
          BY <2>1, <2>3, <2>4, <3>4, <3>5, <4>2 DEF Balanced, One
      <3>6. CASE ~(d = <<v, k>> /\ result = "acked")
        <4>1. OnRecord(v, k) \in 0..3 /\ OnRecord(v, k)' \in 0..3
              /\ OnRecord(v, k) <= OnRecord(v, k)'
          BY <2>2, <3>2 DEF OnRecord, One
        <4>2. result \in {"acked", "unacked", "refused"}
          BY TurnsAssumption DEF TurnsAssumption
        <4>3. received'[v][k] - received[v][k] = lost'[v][k] - lost[v][k]
          BY <2>4, <3>4, <3>6, <4>2
        <4>4. received'[v][k] \in Nat /\ lost'[v][k] \in Nat
          BY <2>4, <3>4
        <4> QED
          BY <2>1, <2>3, <2>4, <4>1, <4>3, <4>4 DEF Balanced, One
      <3> QED
        BY <3>5, <3>6
    <2> QED
      BY <2>6, <2>7, <2>8
  <1> QED
    BY <1>2, <1>3 DEF SendsCounted

\* The commit of a cycle puts on record what the loop has sent.
LEMMA CommitCycleCounts ==
    ASSUME CountInv, [Next]_vars, NEW revived \in {{}, Revivable}, CommitCycle(revived)
    PROVE  RowsCount' /\ TurnsSend' /\ SendsCounted'
  <1>1. /\ LInv /\ TypeOK /\ RowsCount /\ rec \in Rec /\ rec' = IdleRec
        /\ UNCHANGED <<tx, received, lost>>
    BY DEF CountInv, LInv, Inv, TypeOK, CommitCycle
  <1>2. \A w \in Works : \A k \in Kinds : Posts(w, k)' <=> Posts(w, k)
    BY <1>1, CycleEffect
  <1>3. TurnsSend'
    BY <1>1, <1>2, CycleSends
  <1>4. ASSUME NEW v \in Works, NEW k \in Kinds
        PROVE  /\ <<v, k>> \notin rec.acked \cup rec.failed => mail'[v][k] = mail[v][k]
               /\ <<v, k>> \in rec.acked \cup rec.failed =>
                    /\ mail'[v][k].tries = mail[v][k].tries + 1
                    /\ mail'[v][k].status = IF <<v, k>> \in rec.acked THEN "delivered" ELSE "failed"
                    /\ mail[v][k].tries < MaxTries /\ ~Delivered(v, k)
    <2>1. mail[v][k] \in MailRow
      BY <1>1, CountTypes
    <2>2. mail'[v][k] = IF <<v, k>> \in rec.acked \cup rec.failed THEN Retried(<<v, k>>)
                        ELSE mail[v][k]
      BY DEF CommitCycle
    <2>3. /\ Retried(<<v, k>>).tries = mail[v][k].tries + 1
          /\ Retried(<<v, k>>).status = IF <<v, k>> \in rec.acked THEN "delivered" ELSE "failed"
      BY <2>1 DEF Retried, MailRow
    <2>4. <<v, k>> \in rec.acked \cup rec.failed =>
              mail[v][k].status \in {"pending", "failed"} /\ mail[v][k].tries < MaxTries
      BY <1>1 DEF RowsCount, Taken
    <2> QED
      BY <2>2, <2>3, <2>4 DEF Delivered
  <1>5. RowsCount'
    <2>1. ASSUME NEW v \in Works, NEW k \in Kinds
          PROVE  /\ mail'[v][k].tries <= MaxTries
                 /\ ~Posts(v, k)' \/ mail'[v][k].status = "pending" => mail'[v][k].tries = 0
      <3>1. mail[v][k].tries \in Nat /\ MaxTries \in Nat
        BY <1>1, CountTypes
      <3>2. CASE <<v, k>> \in rec.acked \cup rec.failed
        <4>1. mail'[v][k].status \in {"delivered", "failed"}
          BY <1>4, <3>2
        <4> QED
          BY <1>4, <3>1, <3>2, <4>1 DEF Posts
      <3>3. CASE <<v, k>> \notin rec.acked \cup rec.failed
        BY <1>1, <1>4, <3>3 DEF RowsCount, Posts
      <3> QED
        BY <3>2, <3>3
    <2> QED
      BY <1>1, <2>1 DEF RowsCount, IdleRec, Taken
  <1>6. ASSUME NEW v \in Works, NEW k \in Kinds
        PROVE  Balanced(v, k)'
    <2>1. Balanced(v, k)
      BY DEF CountInv, SendsCounted
    <2>2. InTurn(v, k) => InTurn(v, k)'
      BY <1>1 DEF InTurn, Acked
    <2>3. Overwritten(v, k) => Overwritten(v, k)'
      BY <1>1, OverwrittenStays
    <2>4. received[v][k] \in Nat /\ lost[v][k] \in Nat
      BY <1>1, CountTypes
    <2>5. (Delivered(v, k) => Delivered(v, k)') /\ (InCycle(v, k) => Delivered(v, k)' /\ ~Delivered(v, k))
      BY <1>4 DEF Delivered, InCycle
    <2>6. OnRecord(v, k) \in 0..3 /\ OnRecord(v, k)' \in 0..3
          /\ OnRecord(v, k) <= OnRecord(v, k)'
      BY <2>2, <2>5 DEF OnRecord, One
    <2>7. received'[v][k] = received[v][k] /\ lost'[v][k] = lost[v][k]
      BY <1>1
    <2> QED
      BY <2>1, <2>3, <2>4, <2>6, <2>7 DEF Balanced, One
  <1> QED
    BY <1>3, <1>5, <1>6 DEF SendsCounted

\* Nothing was sent at the start.
LEMMA InitCounts == Init => CountInv
  <1> SUFFICES ASSUME Init
               PROVE  CountInv
    OBVIOUS
  <1>1. LInv /\ TypeOK
    BY InitAgrees DEF LInv, Inv
  <1>2. \A w \in Works, k \in Kinds : mail[w][k].status = "absent" /\ mail[w][k].tries = 0
    BY DEF Init, NoMail
  <1>3. /\ rec.phase = "idle" /\ rec.batch = {} /\ rec.acked = {} /\ rec.failed = {}
    BY DEF Init, IdleRec
  <1>4. RowsCount
    BY <1>2, <1>3, TurnsAssumption DEF RowsCount, Taken, Posts
  <1>5. TurnsSend
    BY DEF Init, IdleTx, TurnsSend, TurnSends, Acked
  <1>6. ASSUME NEW w \in Works, NEW k \in Kinds
        PROVE  Balanced(w, k)
    <2>1. received[w][k] = 0 /\ lost[w][k] = 0
      BY DEF Init
    <2>2. ~Overwritten(w, k) /\ OnRecord(w, k) \in 0..3
      BY <1>2 DEF Overwritten, Posts, OnRecord, One
    <2> QED
      BY <1>2, <2>1, <2>2 DEF Balanced, One
  <1> QED
    BY <1>1, <1>4, <1>5, <1>6 DEF CountInv, SendsCounted

\* Time and webhooks write no counter.
LEMMA OutsideRows ==
    ASSUME CountInv,
           \/ \E m \in Messages : Accept(m) \/ Age(m)
           \/ TimeStep \/ UNCHANGED vars
    PROVE  SameRows /\ UNCHANGED <<tx, rec, received, lost>>
  <1>1. mail \in [Works -> [Kinds -> MailRow]]
    BY DEF CountInv, LInv, Inv, TypeOK
  <1>2. ASSUME NEW m \in Messages, Accept(m) \/ Age(m)
        PROVE  mail' = mail /\ UNCHANGED <<tx, rec, received, lost>>
    BY <1>2 DEF Accept, Age, tables
  <1>3. ASSUME NEW w \in Works, WorkDue(w)
        PROVE  mail' = mail /\ UNCHANGED <<tx, rec, received, lost>>
    BY <1>3 DEF WorkDue
  <1>4. ASSUME NEW w \in Works, NEW k \in Kinds, MailDue(w, k)
        PROVE  SameRows /\ UNCHANGED <<tx, rec, received, lost>>
    <2>1. mail[w] \in [Kinds -> MailRow] /\ mail[w][k] \in MailRow
      BY <1>1
    <2>2. \A v \in Works, j \in Kinds : mail'[v][j].status = mail[v][j].status
                                        /\ mail'[v][j].tries = mail[v][j].tries
      BY <1>1, <1>4, <2>1 DEF MailDue, MailRow
    <2> QED
      BY <1>4, <2>2 DEF MailDue, SameRows
  <1>5. UNCHANGED vars => mail' = mail /\ UNCHANGED <<tx, rec, received, lost>>
    BY DEF vars, tables
  <1> QED
    BY <1>2, <1>3, <1>4, <1>5, SameMail DEF TimeStep

\* Every step keeps the account.
LEMMA NextCounts == CountInv /\ [Next]_vars => CountInv'
  <1> SUFFICES ASSUME CountInv, [Next]_vars
               PROVE  RowsCount' /\ TurnsSend' /\ SendsCounted'
    BY NextAgrees DEF CountInv
  <1>1. CASE (\E m \in Messages : Accept(m) \/ Age(m)) \/ TimeStep \/ UNCHANGED vars
    BY <1>1, OutsideRows, OutsideCounts
  <1>2. ASSUME NEW p \in Workers, WorkerStep(p)
        PROVE  RowsCount' /\ TurnsSend' /\ SendsCounted'
    BY <1>2, EarlyCounts, AnswerCounts, SendCounts, CommitCounts DEF WorkerStep
  <1>3. ASSUME NEW p \in Workers, Abort(p)
        PROVE  RowsCount' /\ TurnsSend' /\ SendsCounted'
    BY <1>3, AbortCounts
  <1>4. CASE CycleStep \/ AbortCycle
    BY <1>4, CycleCounts, CommitCycleCounts DEF CycleStep
  <1> QED
    BY <1>1, <1>2, <1>3, <1>4 DEF Next

\* Every copy the student received is accounted for in every reachable state.
THEOREM SendsAreCounted == Spec => []SendsCounted
  <1>1. CountInv => SendsCounted
    BY DEF CountInv
  <1> QED
    BY <1>1, InitCounts, NextCounts, PTL DEF Spec

\* Sending before the commit (workers/main.py:620) and retrying from another
\* loop (workers/main.py:600) duplicate a message only for the reasons named.
THEOREM DuplicatesAreExplained == Spec => []DuplicatesExplained
  BY InitCounts, NextCounts, CountedExplains, PTL DEF Spec

\* No delivery is tried more than max_attempts times (delivery/retry.py:40),
\* by the turn that posted it, a revived turn and the recovery loop together.
TriesBounded == \A w \in Works, k \in Kinds : mail[w][k].tries <= MaxTries

THEOREM TriesAreBounded == Spec => []TriesBounded
  <1>1. CountInv => TriesBounded
    BY DEF CountInv, RowsCount, TriesBounded
  <1> QED
    BY <1>1, InitCounts, NextCounts, PTL DEF Spec
=============================================================================
