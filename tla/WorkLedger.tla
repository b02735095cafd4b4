----------------------------- MODULE WorkLedger -----------------------------
(***************************************************************************)
(* What the durable Work table promises, with the workers, the locks, the  *)
(* transactions and the message channel taken away.  A Work is open from   *)
(* its creation until one turn closes it.  A turn closes the Work it runs  *)
(* together with the related Works it folds in, posts at most one reply    *)
(* for all of them, and never touches a Work that is already completed.    *)
(* Turns.tla is the detailed specification that implements this one.       *)
(***************************************************************************)
CONSTANTS
    Work,       \* every Work that can ever exist
    NoWork      \* "folded" of a Work that was not folded in; not a Work

VARIABLES
    state,      \* Work -> "absent", "open", "completed" or "failed"
    folded,     \* Work -> the Work whose turn it was folded into, or NoWork
    posted      \* the Works whose own reply is in the outbox

vars == <<state, folded, posted>>

States == {"absent", "open", "completed", "failed"}

TypeOK ==
    /\ state \in [Work -> States]
    /\ folded \in [Work -> Work \cup {NoWork}]
    /\ posted \subseteq Work

Init ==
    /\ state = [w \in Work |-> "absent"]
    /\ folded = [w \in Work |-> NoWork]
    /\ posted = {}

In(status) == {w \in Work : state[w] = status}

\* New Works appear, and failed ones may be opened once more.
Open ==
    /\ \E new \in SUBSET In("absent"), again \in SUBSET In("failed") :
        state' = [w \in Work |-> IF w \in new \cup again THEN "open" ELSE state[w]]
    /\ UNCHANGED <<folded, posted>>

\* The turn of w: the Works of "others" are folded into it, w ends in
\* "outcome", and a reply is posted for w alone and only if it completed.
Turn(w, others, outcome) ==
    /\ state' = [v \in Work |-> IF v = w THEN outcome
                                ELSE IF v \in others THEN "completed"
                                ELSE state[v]]
    /\ folded' = [v \in Work |-> IF v \in others THEN w ELSE folded[v]]
    /\ \/ posted' = posted
       \/ outcome = "completed" /\ posted' = posted \cup {w}

Next ==
    \/ Open
    \/ \E w \in In("open") : \E others \in SUBSET (In("open") \ {w}),
          outcome \in {"open", "completed", "failed"} : Turn(w, others, outcome)

Spec == Init /\ [][Next]_vars

-----------------------------------------------------------------------------
\* A Work is folded into at most one turn, is completed by it, and never has
\* a reply of its own besides.
LedgerInv ==
    /\ \A w \in Work : folded[w] # NoWork =>
            /\ state[w] = "completed"
            /\ folded[w] # w
            /\ w \notin posted
    /\ \A w \in posted : state[w] = "completed"

\* A completed Work is closed for good: nothing reopens it, re-posts it or
\* folds it elsewhere.
CompletedIsFinal ==
    [][\A w \in Work : state[w] = "completed" =>
            /\ state'[w] = "completed"
            /\ folded'[w] = folded[w]
            /\ (w \in posted' <=> w \in posted)]_vars
=============================================================================
