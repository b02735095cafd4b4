-------------------------- MODULE SurfaceContract --------------------------
(***************************************************************************)
(* What a web surface promises its owner and its visitors, whatever the    *)
(* sessions of wax/surfaces/service.py do to its row: while it is open its *)
(* pages are all there; once it is shut it stays shut with nobody inside,  *)
(* and only then may its files go; a revoked surface lets nobody in.       *)
(***************************************************************************)
EXTENDS Naturals

CONSTANT Visitors

VARIABLES
    state,      \* "absent", "open" or "shut"
    revoked,    \* the owner has revoked it
    pages,      \* revisions published
    whole,      \* each of them has its row and its file
    inside      \* visitors let in and not gone yet

vars == <<state, revoked, pages, whole, inside>>

TypeOK ==
    /\ state \in {"absent", "open", "shut"}
    /\ revoked \in BOOLEAN
    /\ pages \in Nat
    /\ whole \in BOOLEAN
    /\ inside \subseteq Visitors

Init ==
    /\ state = "absent"
    /\ revoked = FALSE
    /\ pages = 0
    /\ whole = TRUE
    /\ inside = {}

\* A shut surface has nobody inside, and is the only one to lose pages.
Decent(s, w, in) == (s = "shut" => in = {}) /\ (s # "shut" => w)

\* The owner's turn or the recovery loop writes: the surface appears, gets
\* pages, is revoked, expires, is cleaned, or a few of these at once.
Write ==
    /\ state' \in {"open", "shut"}
    /\ state = "shut" => state' = "shut"
    /\ revoked' \in (IF revoked THEN {TRUE} ELSE BOOLEAN)
    /\ pages' \in Nat /\ pages' >= pages
    /\ whole' \in BOOLEAN
    /\ inside' = inside
    /\ Decent(state', whole', inside')

\* A visitor is let in.
Enter(v) ==
    /\ state = "open" /\ ~revoked
    /\ inside' = inside \cup {v}
    /\ UNCHANGED <<state, revoked, pages, whole>>

\* A visitor leaves; the surface may have been kept open by that visit only.
Exit(v) ==
    /\ state = "open" /\ v \in inside
    /\ inside' = inside \ {v}
    /\ state' \in {"open", "shut"}
    /\ UNCHANGED <<revoked, pages, whole>>
    /\ Decent(state', whole', inside')

Next == Write \/ \E v \in Visitors : Enter(v) \/ Exit(v)

Spec == Init /\ [][Next]_vars

-----------------------------------------------------------------------------
\* What anyone who knows only the contract may rely on.
ShutIsFinal ==
    [][state = "shut" => state' = "shut" /\ inside' = {}]_vars
=============================================================================
