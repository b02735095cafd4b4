------------------------------- MODULE Memory -------------------------------
(***************************************************************************)
(* A student's memories (memory/store.py) under the turns that change      *)
(* them: the state directives of a tutor (TutorService._state).  Turns     *)
(* about messages are serialized (module Turns); a turn about a page's     *)
(* request or a scheduled wake runs beside them.                           *)
(*                                                                         *)
(* A turn is one session.  session.get hands back the copy the session has *)
(* loaded, however old; a flush writes the columns that differ from that   *)
(* copy and takes the row's lock until the session ends; a flush that      *)
(* fails breaks the session, although _execute catches the exception.      *)
(*                                                                         *)
(* Left out: content, tags, structured and metadata, which no operation    *)
(* reads to decide anything, and expires_at, which nothing enforces.       *)
(***************************************************************************)
EXTENDS Integers, FiniteSets

CONSTANTS
    Turns,
    Known,          \* memories committed before the turns
    MaxMemories,    \* bound: memories ever made
    MaxOps          \* bound: writing directives of one turn

ASSUME MemoryAssumption ==
    /\ MaxMemories \in Nat /\ MaxOps \in Nat
    /\ Known \subseteq 1..MaxMemories
    /\ 0 \notin Turns       \* Nobody

Ids == 1..MaxMemories
None == 0

Validity == {"absent", "active", "superseded", "forgotten"}
Row == [active : BOOLEAN, validity : Validity, heir : Ids \cup {None},
        origin : Ids \cup {None}]
Columns == {"active", "validity", "heir"}
NoRow == [active |-> FALSE, validity |-> "absent", heir |-> None, origin |-> None]
NewRow(origin) == [active |-> TRUE, validity |-> "active", heir |-> None, origin |-> origin]

VARIABLES
    row,        \* what is committed
    phase,      \* turn -> "idle", "open" or "ended"
    copy,       \* turn -> memory -> the row as its session has it, NoRow if not loaded
    dirty,      \* turn -> memory -> the columns its session has flushed
    op,         \* turn -> the directive whose flush is under way
    ops,        \* turn -> directives begun
    broken,     \* turns whose session a failed flush has broken
    holder      \* memory -> the turn that holds the row's lock

vars == <<row, phase, copy, dirty, op, ops, broken, holder>>

NoOp == [kind |-> "none", on |-> None, heir |-> None]

Init ==
    /\ row = [m \in Ids |-> IF m \in Known THEN NewRow(None) ELSE NoRow]
    /\ phase = [t \in Turns |-> "idle"]
    /\ copy = [t \in Turns |-> [m \in Ids |-> NoRow]]
    /\ dirty = [t \in Turns |-> [m \in Ids |-> {}]]
    /\ op = [t \in Turns |-> NoOp]
    /\ ops = [t \in Turns |-> 0]
    /\ broken = {}
    /\ holder = [m \in Ids |-> None]

Nobody == None

-----------------------------------------------------------------------------
(* Reading *)

Loaded(t, m) == copy[t][m].validity # "absent"

\* Mutant: a flush writes the whole row back.
MergedWhole(old, mine, columns) == mine

\* The flushed columns over what the row holds.
Merged(old, mine, columns) ==
    IF old.validity = "absent" THEN mine
    ELSE [old EXCEPT !.active = IF "active" \in columns THEN mine.active ELSE @,
                     !.validity = IF "validity" \in columns THEN mine.validity ELSE @,
                     !.heir = IF "heir" \in columns THEN mine.heir ELSE @]

\* What the database shows to the turn.
Fresh(t) == {m \in Ids : row[m].validity = "absent" /\ Loaded(t, m)}
Written(t, m) == m \in Fresh(t) \/ holder[m] = t
Visible(t, m) == IF Written(t, m) THEN Merged(row[m], copy[t][m], dirty[t][m]) ELSE row[m]

\* The rows a session has loaded it does not load again.
Loading(t, memories) ==
    copy' = [copy EXCEPT ![t] = [m \in Ids |->
                IF m \in memories /\ ~Loaded(t, m) THEN row[m] ELSE @[m]]]

InTurn(t) == phase[t] = "open" /\ op[t] = NoOp /\ t \notin broken

Open(t) ==
    /\ phase[t] = "idle"
    /\ phase' = [phase EXCEPT ![t] = "open"]
    /\ UNCHANGED <<row, copy, dirty, op, ops, broken, holder>>

\* memory_search and memory_list; include_inactive is the tutor's choice.
Search(t) ==
    /\ InTurn(t)
    /\ \E inactive \in BOOLEAN :
          Loading(t, {m \in Ids : Visible(t, m).active \/ inactive})
    /\ UNCHANGED <<row, phase, dirty, op, ops, broken, holder>>

-----------------------------------------------------------------------------
(* Writing: session.get first, the flush later *)

Unused == {m \in Ids : row[m].validity = "absent" /\ \A t \in Turns : ~Loaded(t, m)}
NewId == CHOOSE n \in Unused : TRUE

\* memory_create flushes an INSERT, for which nobody waits.
Inserted(t, n, origin) == [copy EXCEPT ![t][n] = NewRow(origin)]

Create(t) ==
    /\ InTurn(t) /\ ops[t] < MaxOps /\ Unused # {}
    /\ copy' = Inserted(t, NewId, None)
    /\ ops' = [ops EXCEPT ![t] = @ + 1]
    /\ UNCHANGED <<row, phase, dirty, op, broken, holder>>

\* session.get: the copy, or else the committed row; none of these looks at
\* whether the memory is still active.
Exists(t, m) == Loaded(t, m) \/ row[m].validity # "absent"

Begin(t, m) ==
    /\ InTurn(t) /\ ops[t] < MaxOps
    /\ Exists(t, m)
    /\ \E kind \in {"update", "forget"} :
          op' = [op EXCEPT ![t] = [kind |-> kind, on |-> m, heir |-> None]]
    /\ Loading(t, {m})
    /\ ops' = [ops EXCEPT ![t] = @ + 1]
    /\ UNCHANGED <<row, phase, dirty, broken, holder>>

\* memory_supersede has inserted the new memory before it marks the old one.
BeginSupersede(t, m) ==
    /\ InTurn(t) /\ ops[t] < MaxOps /\ Unused # {}
    /\ Exists(t, m)
    /\ op' = [op EXCEPT ![t] = [kind |-> "supersede", on |-> m, heir |-> NewId]]
    /\ copy' = [copy EXCEPT ![t][m] = IF Loaded(t, m) THEN @ ELSE row[m],
                            ![t][NewId] = NewRow(m)]
    /\ ops' = [ops EXCEPT ![t] = @ + 1]
    /\ UNCHANGED <<row, phase, dirty, broken, holder>>

\* Mutant: a memory is forgotten by its status alone.
ForgottenByStatus(mine) == [mine EXCEPT !.validity = "forgot"]

Forgotten(mine) == [mine EXCEPT !.active = FALSE, !.validity = "forgotten"]

Superseded(mine, n) ==
    [mine EXCEPT !.active = FALSE, !.validity = "superseded", !.heir = n]

After(t) ==
    LET mine == copy[t][op[t].on] IN
    CASE op[t].kind = "update" -> mine
      [] op[t].kind = "forget" -> Forgotten(mine)
      [] op[t].kind = "supersede" -> Superseded(mine, op[t].heir)

Changes(t) == {c \in Columns : After(t)[c] # copy[t][op[t].on][c]}

\* An UPDATE is sent when a column changed; that of memory_update changes the
\* content.  A row of the session's own making is nobody else's.
Sends(t) == (op[t].kind = "update" \/ Changes(t) # {}) /\ op[t].on \notin Fresh(t)

Waits(t) == op[t] # NoOp /\ Sends(t) /\ holder[op[t].on] \notin {Nobody, t}

Flush(t) ==
    /\ op[t] # NoOp
    /\ ~Waits(t)
    /\ LET m == op[t].on IN
       /\ copy' = [copy EXCEPT ![t][m] = After(t)]
       /\ dirty' = [dirty EXCEPT ![t][m] = @ \cup Changes(t)]
       /\ holder' = IF Sends(t) THEN [holder EXCEPT ![m] = t] ELSE holder
    /\ op' = [op EXCEPT ![t] = NoOp]
    /\ UNCHANGED <<row, phase, ops, broken>>

\* Mutant: each directive's flush is in a savepoint of its own.
BreaksInSavepoint(t) == broken

Breaks(t) == broken \cup {t}

\* The flush fails; the directive is answered with an error.  (The locks go with
\* the turn, which raises at once.)
FlushFails(t) ==
    /\ op[t] # NoOp
    /\ op' = [op EXCEPT ![t] = NoOp]
    /\ broken' = Breaks(t)
    /\ UNCHANGED <<row, phase, copy, dirty, ops, holder>>

WaitsFor(t, u) == Waits(t) /\ holder[op[t].on] = u

\* Mutant: nobody looks for deadlocks.
NeverDeadlocked(t) == FALSE

\* The database ends a deadlock by failing one of the two statements.
Deadlocked(t) == \E u \in Turns \ {t} : WaitsFor(t, u) /\ WaitsFor(u, t)

DeadlockFails(t) == Deadlocked(t) /\ FlushFails(t)

-----------------------------------------------------------------------------
(* The end of the turn *)

Ends(t) ==
    /\ phase' = [phase EXCEPT ![t] = "ended"]
    /\ copy' = [copy EXCEPT ![t] = [m \in Ids |-> NoRow]]
    /\ dirty' = [dirty EXCEPT ![t] = [m \in Ids |-> {}]]
    /\ op' = [op EXCEPT ![t] = NoOp]
    /\ broken' = broken \ {t}
    /\ holder' = [m \in Ids |-> IF holder[m] = t THEN Nobody ELSE holder[m]]
    /\ UNCHANGED ops

Commit(t) ==
    /\ InTurn(t)
    /\ row' = [m \in Ids |-> Visible(t, m)]
    /\ Ends(t)

\* A broken session raises at the next flush (agent.tick); any turn may raise.
Rollback(t) ==
    /\ phase[t] = "open"
    /\ UNCHANGED row
    /\ Ends(t)

BrokenEnds(t) == t \in broken /\ Rollback(t)

Next ==
    \E t \in Turns :
        \/ Open(t) \/ Search(t) \/ Create(t)
        \/ \E m \in Ids : Begin(t, m) \/ BeginSupersede(t, m)
        \/ Flush(t) \/ FlushFails(t) \/ Commit(t) \/ Rollback(t)

Spec == Init /\ [][Next]_vars

\* A statement whose row is free is executed, the database resolves deadlocks,
\* and a turn does not go on for ever (module Tutor).
FairSpec ==
    /\ Spec
    /\ \A t \in Turns : WF_vars(Flush(t)) /\ WF_vars(DeadlockFails(t)) /\ WF_vars(Commit(t) \/ BrokenEnds(t))

-----------------------------------------------------------------------------
\* Every variable keeps its type.
TypeOK ==
    /\ row \in [Ids -> Row]
    /\ phase \in [Turns -> {"idle", "open", "ended"}]
    /\ copy \in [Turns -> [Ids -> Row]]
    /\ dirty \in [Turns -> [Ids -> SUBSET Columns]]
    /\ op \in [Turns -> [kind : {"none", "update", "forget", "supersede"},
                         on : Ids \cup {None}, heir : Ids \cup {None}]]
    /\ ops \in [Turns -> 0..MaxOps]
    /\ broken \subseteq Turns
    /\ holder \in [Ids -> Turns \cup {Nobody}]

\* A memory that was forgotten or superseded is never active again, although
\* turns write over it from copies in which it still is (store.py:513, 459).
EndedStaysEnded ==
    [][\A m \in Ids :
          row[m].validity \notin {"absent", "active"} =>
              /\ row'[m].validity \notin {"absent", "active"}
              /\ ~row'[m].active]_vars

\* A replacement and the mark on what it replaces are committed together or not
\* at all, whichever of the two flushes failed and whoever else replaced or
\* forgot the memory meanwhile (store.py:441-474): a memory that was replaced
\* is not active beside its replacement, and a superseded one names a
\* memory that is there and replaces it.
LinesHold ==
    \A m \in Ids :
        /\ row[m].origin # None => ~row[row[m].origin].active
        /\ row[m].validity = "superseded" =>
              /\ row[m].heir # None
              /\ row[row[m].heir].origin = m

\* Turns that change the same memories in opposite orders end all the same.
MemoryTurnsEnd == \A t \in Turns : op[t] # NoOp ~> phase[t] = "ended"
=============================================================================
