-------------------------- MODULE WorkLedgerProofs --------------------------
(* What every implementation of WorkLedger inherits, for any set of Works. *)
EXTENDS WorkLedger, TLAPS

\* Only Works are posted; without it a step could say nothing of the others.
Inv == TypeOK /\ LedgerInv

\* Nothing is folded or posted at the start.
LEMMA InitInv == Init => Inv
  BY DEF Init, Inv, TypeOK, LedgerInv, States

\* A turn keeps what it folds in apart from what it answers.
LEMMA TurnInv ==
  ASSUME Inv, NEW w \in In("open"), NEW others \in SUBSET (In("open") \ {w}),
         NEW outcome \in {"open", "completed", "failed"}, Turn(w, others, outcome)
  PROVE  Inv'
<1>1. \A v \in In("open") : v \in Work /\ folded[v] = NoWork /\ v \notin posted
  BY DEF Inv, LedgerInv, In
<1>2. \A v \in Work : /\ state'[v] = IF v = w THEN outcome
                                     ELSE IF v \in others THEN "completed" ELSE state[v]
                      /\ folded'[v] = IF v \in others THEN w ELSE folded[v]
  BY DEF Turn
<1>3. posted' = posted \/ (outcome = "completed" /\ posted' = posted \cup {w})
  BY DEF Turn
<1>4. TypeOK'
  <2>1. state' \in [Work -> States] /\ folded' \in [Work -> Work \cup {NoWork}]
    BY <1>1 DEF Turn, Inv, TypeOK, States
  <2> QED
    BY <1>1, <1>3, <2>1 DEF Inv, TypeOK
<1>5. ASSUME NEW v \in Work, folded'[v] # NoWork
      PROVE  state'[v] = "completed" /\ folded'[v] # v /\ v \notin posted'
  <2>1. CASE v \in others
    BY <1>1, <1>2, <1>3, <2>1
  <2>2. CASE v \notin others
    <3>1. folded[v] # NoWork /\ folded'[v] = folded[v]
      BY <1>2, <1>5, <2>2
    <3>2. v # w
      BY <1>1, <3>1
    <3> QED
      BY <1>2, <1>3, <2>2, <3>1, <3>2 DEF Inv, LedgerInv
  <2> QED
    BY <2>1, <2>2
<1>6. ASSUME NEW v \in posted' PROVE state'[v] = "completed"
  <2>1. v \in posted \/ (v = w /\ outcome = "completed")
    BY <1>3
  <2>2. v \in Work
    BY <1>1, <2>1 DEF Inv, TypeOK
  <2>3. CASE v \in posted
    <3>1. state[v] = "completed" /\ v # w
      BY <1>1, <2>3 DEF Inv, LedgerInv
    <3> QED
      BY <1>2, <2>2, <3>1
  <2> QED
    BY <1>2, <2>1, <2>2, <2>3
<1> QED
  BY <1>4, <1>5, <1>6 DEF Inv, LedgerInv

\* Opening a Work never touches a completed one.
LEMMA OpenInv == Inv /\ Open => Inv'
<1> SUFFICES ASSUME Inv, Open PROVE Inv'
  OBVIOUS
<1>1. PICK new \in SUBSET In("absent"), again \in SUBSET In("failed") :
        state' = [w \in Work |-> IF w \in new \cup again THEN "open" ELSE state[w]]
  BY DEF Open
<1>2. TypeOK'
  BY <1>1 DEF Open, Inv, TypeOK, States
<1>3. \A w \in Work : state[w] = "completed" => state'[w] = "completed"
  BY <1>1 DEF In
<1> QED
  BY <1>2, <1>3 DEF Open, Inv, LedgerInv, TypeOK

\* So every step of the ledger keeps the invariant.
LEMMA StepInv == Inv /\ [Next]_vars => Inv'
<1>1. Inv /\ UNCHANGED vars => Inv'
  BY DEF vars, Inv, TypeOK, LedgerInv
<1> QED
  BY <1>1, TurnInv, OpenInv DEF Next

\* And it holds in every reachable state.
LEMMA InvHolds == Spec => []Inv
  BY InitInv, StepInv, PTL DEF Spec

\* A folded Work is completed by the turn it was folded into and has no reply
\* of its own (work/recovery.py:312).
THEOREM LedgerHolds == Spec => []LedgerInv
<1>1. Inv => LedgerInv
  BY DEF Inv
<1> QED
  BY <1>1, InvHolds, PTL

\* A completed Work is never reopened, answered again or folded elsewhere.
THEOREM CompletedStays == Spec => CompletedIsFinal
<1> DEFINE Final(w) == /\ state'[w] = "completed"
                       /\ folded'[w] = folded[w]
                       /\ (w \in posted' <=> w \in posted)
<1>1. ASSUME Inv, [Next]_vars, NEW w \in Work, state[w] = "completed", ~UNCHANGED vars
      PROVE  Final(w)
  <2>1. CASE Open
    BY <1>1, <2>1 DEF Open, In
  <2>2. ASSUME NEW v \in In("open"), NEW others \in SUBSET (In("open") \ {v}), NEW outcome,
               Turn(v, others, outcome)
        PROVE  Final(w)
    <3>1. v # w /\ w \notin others
      BY <1>1 DEF In
    <3> QED
      BY <1>1, <2>2, <3>1 DEF Turn
  <2> QED
    BY <1>1, <2>1, <2>2 DEF Next
<1>2. Inv /\ [Next]_vars => [\A w \in Work : state[w] = "completed" => Final(w)]_vars
  BY <1>1
<1> QED
  BY <1>2, InvHolds, PTL DEF CompletedIsFinal, Spec
=============================================================================
