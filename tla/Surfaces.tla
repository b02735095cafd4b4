------------------------------ MODULE Surfaces ------------------------------
(***************************************************************************)
(* One web surface of wax/surfaces/service.py and all that touches it:     *)
(* the owner's worker turns (wax/surfaces/ops.py, wax/workers/main.py),    *)
(* the browser's gateway requests (wax/api/main.py) and the lifecycle pass *)
(* of the recovery loop.                                                   *)
(*                                                                         *)
(* Each of them is a database session: it loads the surface's row once,    *)
(* changes its copy, and its flush writes the columns it changed, whatever *)
(* the row holds by then.  A flush takes the row's lock until the session  *)
(* ends.  Nothing loads the row FOR UPDATE.                                *)
(***************************************************************************)
EXTENDS Integers, FiniteSets

CONSTANTS
    Turns,          \* worker turns of the owner that may be in progress
    Visits,         \* gateway requests that may be in progress
    Keys,           \* idempotency keys of the browser's AI requests
    None,
    Storage,        \* how a delete may go: "deleted", "swallowed", "raised"
    MaxQuiet,       \* bound: how quiet a surface gets (1 a day, 2 a week)
    MaxEdits        \* bound: directives that change the surface

ASSUME SurfacesAssumption ==
    /\ IsFiniteSet(Turns) /\ IsFiniteSet(Visits)
    /\ Turns \cap Visits = {}
    /\ "recovery" \notin Turns \cup Visits
    /\ None \notin Keys \cup Turns \cup Visits \cup {"recovery"}
    /\ Storage \subseteq {"deleted", "swallowed", "raised"}
    /\ MaxQuiet \in 0..2 /\ MaxEdits \in Nat

Sessions == Turns \cup Visits \cup {"recovery"}
Revisions == 1..(MaxEdits + 1)

VARIABLES
    row,        \* the surfaces row
    uris,       \* revision rows that name a stored file
    bytes,      \* revisions whose file is in the artifact store
    asks,       \* surface_ai_requests: [Keys -> status]
    jobs,       \* surface_ai Works not completed: [Keys -> Nat]
    answers,    \* surface_ai Works completed: [Keys -> Nat]
    tx,         \* the sessions
    holder,     \* the session that holds the row's lock
    published,  \* history: revisions whose turn committed
    edits       \* directives so far (bounded)

store == <<uris, bytes>>
ai == <<asks, jobs, answers>>
vars == <<row, store, ai, tx, holder, published, edits>>

Live == {"active", "idle", "dormant"}
Status == Live \cup
    {"absent", "failed", "expired", "revoked", "cleanup_pending", "cleaned"}

\* expiry: expires_at lies ahead, has come, has come 48 hours ago.  quiet:
\* last_activity_at is recent, a day old, a week old.  revoked: revoked_at is
\* set.
Row == [status : Status, revoked : BOOLEAN, expiry : {"ahead", "due", "graced"},
        quiet : 0..2, current : {0} \cup Revisions]
Columns == {"status", "revoked", "expiry", "quiet", "current"}

NoRow == [status |-> "absent", revoked |-> FALSE, expiry |-> "ahead",
          quiet |-> 0, current |-> 0]

\* job: the AI request a turn answers or a visit makes.  fresh: revisions
\* stored.  forgot: revisions whose uri is cleared.
Tx == [phase : {"idle", "loaded", "applied", "closing", "granted", "asking",
                "expiring", "quieting", "ending"},
       job : Keys \cup {None}, copy : Row, dirty : SUBSET Columns,
       fresh : SUBSET Revisions, forgot : SUBSET Revisions]
IdleTx == [phase |-> "idle", job |-> None, copy |-> NoRow, dirty |-> {},
           fresh |-> {}, forgot |-> {}]

TypeOK ==
    /\ row \in Row
    /\ uris \subseteq Revisions
    /\ bytes \subseteq Revisions
    /\ asks \in [Keys -> {"none", "accepted", "completed"}]
    /\ jobs \in [Keys -> Nat]
    /\ answers \in [Keys -> Nat]
    /\ tx \in [Sessions -> Tx]
    /\ holder \in Sessions \cup {None}
    /\ published \in Nat
    /\ edits \in 0..MaxEdits

Init ==
    /\ row = NoRow
    /\ uris = {}
    /\ bytes = {}
    /\ asks = [k \in Keys |-> "none"]
    /\ jobs = [k \in Keys |-> 0]
    /\ answers = [k \in Keys |-> 0]
    /\ tx = [s \in Sessions |-> IdleTx]
    /\ holder = None
    /\ published = 0
    /\ edits = 0

-----------------------------------------------------------------------------
(* The session. *)

\* Of the columns it loads a session goes on to use the status and perhaps the
\* current revision; the copy keeps those.
LoadStatus(s, phase) ==
    tx' = [tx EXCEPT ![s].phase = phase,
                     ![s].copy = [NoRow EXCEPT !.status = row.status]]

Load(s, phase) ==
    tx' = [tx EXCEPT ![s].phase = phase,
                     ![s].copy = [NoRow EXCEPT !.status = row.status,
                                               !.current = row.current]]

\* The row after the session's flush: the columns it changed.
Merged(s) ==
    LET Written(c) == IF c \in tx[s].dirty THEN tx[s].copy[c] ELSE row[c]
    IN [status |-> Written("status"), revoked |-> Written("revoked"),
        expiry |-> Written("expiry"), quiet |-> Written("quiet"),
        current |-> Written("current")]

Unlocked(s) == holder \in {None, s}

\* The session's changes become visible; its lock is released.
Commit(s) ==
    /\ tx[s].dirty # {} => Unlocked(s)
    /\ row' = Merged(s)
    /\ uris' = (uris \cup tx[s].fresh) \ tx[s].forgot
    /\ bytes' = bytes \cup tx[s].fresh
    /\ published' = published + Cardinality(tx[s].fresh)
    /\ tx' = [tx EXCEPT ![s] = IdleTx]
    /\ holder' = IF holder = s THEN None ELSE holder

\* ... or are dropped.  A file that was stored stays, named by no row.
Rollback(s) ==
    /\ tx' = [tx EXCEPT ![s] = IdleTx]
    /\ holder' = IF holder = s THEN None ELSE holder
    /\ UNCHANGED <<row, store, ai, published>>

-----------------------------------------------------------------------------
(* Time. *)

\* The next mark the recovery loop looks at is passed.
Grow ==
    /\ row.quiet < MaxQuiet
    /\ \/ row.quiet = 0 /\ row.status \in {"active", "idle"}
       \/ row.quiet = 1 /\ row.status = "idle"
    /\ row' = [row EXCEPT !.quiet = @ + 1]
    /\ UNCHANGED <<store, ai, tx, holder, published, edits>>

\* expires_at comes, then the grace period ends.  The recovery loop runs every
\* few seconds and no session lasts 48 hours: a surface that is still live, in
\* the table or in a session's copy, is not past its grace.
Ripen ==
    /\ row.status # "absent"
    /\ \/ row.expiry = "ahead" /\ row' = [row EXCEPT !.expiry = "due"]
       \/ /\ row.expiry = "due"
          /\ row.status \notin Live
          /\ \A s \in Sessions : tx[s].copy.status \notin Live
          /\ row' = [row EXCEPT !.expiry = "graced"]
    /\ UNCHANGED <<store, ai, tx, holder, published, edits>>

-----------------------------------------------------------------------------
(* A worker's turn. *)

InProgress(t) == tx[t].phase # "idle"

\* (variants) the Work is not locked; a Work of a closed surface is passed over
MayBeginShared(t, k) == tx[t].phase = "idle" /\ (k # None => jobs[k] > 0)
MayBeginLive(t, k) ==
    /\ tx[t].phase = "idle"
    /\ k # None => jobs[k] > 0 /\ row.status \in Live
    /\ \A u \in Turns : InProgress(u) => tx[u].job # k

\* Turns about messages are serialised per student (module Turns); a turn
\* about an AI request of the page is not, but it holds its Work.
MayBegin(t, k) ==
    /\ tx[t].phase = "idle"
    /\ k # None => jobs[k] > 0
    /\ \A u \in Turns : InProgress(u) => tx[u].job # k

\* create: the row is inserted with revision 1 in the turn's transaction, or
\* as failed when the page cannot be stored.
Create(t) ==
    /\ MayBegin(t, None)
    /\ row.status = "absent" /\ holder = None
    /\ \E stored \in BOOLEAN :
        tx' = [tx EXCEPT ![t] = [IdleTx EXCEPT
            !.phase = "loaded",
            !.copy = [NoRow EXCEPT !.status = IF stored THEN "active" ELSE "failed",
                                   !.current = IF stored THEN 1 ELSE 0],
            !.dirty = Columns,
            !.fresh = IF stored THEN {1} ELSE {}]]
    /\ holder' = t
    /\ UNCHANGED <<row, store, ai, published, edits>>

\* A turn comes to its first session.get; the row is loaded once per session.
Begin(t, k) ==
    /\ MayBegin(t, k)
    /\ row.status # "absent"
    /\ tx' = [tx EXCEPT ![t] = [IdleTx EXCEPT
            !.phase = "loaded", !.job = k,
            !.copy.status = row.status, !.copy.current = row.current]]
    /\ UNCHANGED <<row, store, ai, holder, published, edits>>

\* (variant) the claim does not look at current_revision
ClaimsAnyRevision(t) == TRUE

\* The conditional UPDATE that claims the next revision finds the row, as the
\* turn sees it, at the revision of its copy.
Claims(t) == Merged(t).current = tx[t].copy.current

Woken(status) == IF status \in {"idle", "dormant"} THEN "active" ELSE status

\* What update assigns before it looks at the page (title, state and lifetime,
\* of which the lifetime matters here).
Touched(t, extend) ==
    IF extend THEN [tx[t] EXCEPT !.copy.expiry = "ahead", !.dirty = @ \cup {"expiry"}]
              ELSE tx[t]

\* update, up to its flush.  With a page it claims the next revision; a claim
\* that fails reloads the row, and what was not flushed is forgotten.
Update(t, page, extend) ==
    LET next == tx[t].copy.current + 1 IN
    /\ tx[t].phase = "loaded" /\ edits < MaxEdits
    /\ tx[t].copy.status \in Live
    /\ Unlocked(t)
    /\ IF page /\ ~Claims(t)
       THEN /\ tx' = [tx EXCEPT ![t].copy.status = Merged(t).status,
                               ![t].copy.current = Merged(t).current,
                               ![t].dirty = IF holder = t THEN @ ELSE {}]
            /\ holder' = holder
       ELSE /\ tx' = [tx EXCEPT ![t] = [Touched(t, extend) EXCEPT
                !.copy.status = Woken(@), !.copy.quiet = 0,
                !.copy.current = IF page THEN next ELSE @,
                !.dirty = @ \cup {"quiet"}
                    \cup (IF page THEN {"current"} ELSE {})
                    \cup (IF tx[t].copy.status # "active" THEN {"status"} ELSE {}),
                !.fresh = IF page THEN @ \cup {next} ELSE @]]
            /\ holder' = t
    /\ edits' = edits + 1
    /\ UNCHANGED <<row, store, ai, published>>

\* _write_revision increments from the loaded revision, which update put back.
Restored(revision) == revision

\* The page is too large, or is not stored after the claim: what was assigned
\* before is still flushed when the turn commits.
UpdateFails(t, extend) ==
    /\ tx[t].phase = "loaded" /\ edits < MaxEdits
    /\ tx[t].copy.status \in Live
    /\ \/ /\ tx' = [tx EXCEPT ![t] = Touched(t, extend)]
          /\ holder' = holder
       \/ /\ Unlocked(t) /\ Claims(t)
          /\ tx' = [tx EXCEPT ![t] = [Touched(t, extend) EXCEPT
                !.copy.current = Restored(@), !.dirty = @ \cup {"current"}]]
          /\ holder' = t
    /\ edits' = edits + 1
    /\ UNCHANGED <<row, store, ai, published>>

\* can_transition(status, REVOKED)
MayRevoke(status) == status \in Live

Revoke(t) ==
    /\ tx[t].phase = "loaded" /\ edits < MaxEdits
    /\ MayRevoke(tx[t].copy.status)
    /\ Unlocked(t)
    /\ tx' = [tx EXCEPT ![t].copy.status = "revoked", ![t].copy.revoked = TRUE,
                        ![t].dirty = @ \cup {"status", "revoked"}]
    /\ holder' = t
    /\ edits' = edits + 1
    /\ UNCHANGED <<row, store, ai, published>>

\* apply_ai_result: the reply goes into the request and into the state.
ApplyAiResult(t) ==
    /\ tx[t].phase = "loaded" /\ tx[t].job # None
    /\ Unlocked(t)
    /\ tx' = [tx EXCEPT ![t].phase = "applied",
                        ![t].copy.quiet = 0, ![t].dirty = @ \cup {"quiet"}]
    /\ holder' = t
    /\ UNCHANGED <<row, store, ai, published, edits>>

EndTurn(t) ==
    LET k == tx[t].job IN
    /\ tx[t].phase = IF k = None THEN "loaded" ELSE "applied"
    /\ Commit(t)
    /\ IF k = None THEN UNCHANGED ai
       ELSE /\ asks' = [asks EXCEPT ![k] = "completed"]
            /\ jobs' = [jobs EXCEPT ![k] = @ - 1]
            /\ answers' = [answers EXCEPT ![k] = @ + 1]
    /\ UNCHANGED edits

\* The tutor raises.  A message's turn rolls back and records the failure on
\* its Work.  A page's turn rolls back too, then reads work.attempt from the
\* expired Work, which raises: the Work stays as it was before the claim.
TurnFails(t) ==
    /\ tx[t].phase = "loaded"
    /\ Rollback(t)
    /\ UNCHANGED edits

-----------------------------------------------------------------------------
(* A gateway request. *)

\* (variant) revoked_at is not looked at
RefusedByStatus(r) == r.status = "revoked"

Refused(r) == r.status = "revoked" \/ r.revoked

Over(r) == r.status \in {"expired", "cleaned", "cleanup_pending"} \/ r.expiry # "ahead"

\* resolve_by_token.  A request that is not granted ends at once, except that
\* an active surface whose time has come is then marked expired.
Resolve(v) ==
    /\ tx[v].phase = "idle"
    /\ row.status \in Live
    /\ ~Refused(row)
    /\ IF Over(row)
       THEN row.status = "active" /\ LoadStatus(v, "closing")
       ELSE Load(v, "granted")
    /\ UNCHANGED <<row, store, ai, holder, published, edits>>

MarkExpired(v) ==
    /\ tx[v].phase = "closing"
    /\ holder = None
    /\ row' = [row EXCEPT !.status = "expired"]
    /\ tx' = [tx EXCEPT ![v] = IdleTx]
    /\ UNCHANGED <<store, ai, holder, published, edits>>

\* load_entry_html finds the page of the loaded revision, or nothing.
HasPage(r) == r.current \in uris \cap bytes

\* serve_surface: record_access, then commit.
Serve(v) ==
    /\ tx[v].phase = "granted"
    /\ IF HasPage(tx[v].copy)
       THEN /\ holder = None
            /\ row' = [row EXCEPT !.quiet = 0,
                        !.status = IF tx[v].copy.status = "active" THEN @ ELSE "active"]
       ELSE UNCHANGED row
    /\ tx' = [tx EXCEPT ![v] = IdleTx]
    /\ UNCHANGED <<store, ai, holder, published, edits>>

\* record_event.
PostEvent(v) ==
    /\ tx[v].phase = "granted"
    /\ holder = None
    /\ row' = [row EXCEPT !.quiet = 0]
    /\ tx' = [tx EXCEPT ![v] = IdleTx]
    /\ UNCHANGED <<store, ai, holder, published, edits>>

\* Requests that leave the tables alone: the reads, and the state writes, which
\* raise because the Surface model has no state_revision.
Leave(v) ==
    /\ tx[v].phase = "granted"
    /\ Rollback(v)
    /\ UNCHANGED edits

\* accept_ai_request finds no request with the key; if it does find one, it
\* answers with that one.
Ask(v, k) ==
    /\ tx[v].phase = "granted"
    /\ tx' = [tx EXCEPT ![v] = IF asks[k] = "none"
                               THEN [IdleTx EXCEPT !.phase = "asking", !.job = k]
                               ELSE IdleTx]
    /\ UNCHANGED <<row, store, ai, holder, published, edits>>

\* (variant) the key is not unique in the table
InsertsAnyway(k) == TRUE

Inserts(k) == asks[k] = "none"

\* The flush stores the request and its Work together, or neither when another
\* request stored the key meanwhile.
Accept(v) ==
    LET k == tx[v].job IN
    /\ tx[v].phase = "asking"
    /\ holder = None
    /\ IF Inserts(k)
       THEN /\ asks' = [asks EXCEPT ![k] = "accepted"]
            /\ jobs' = [jobs EXCEPT ![k] = @ + 1]
            /\ row' = [row EXCEPT !.quiet = 0]
       ELSE UNCHANGED <<asks, jobs, row>>
    /\ tx' = [tx EXCEPT ![v] = IdleTx]
    /\ UNCHANGED <<store, answers, holder, published, edits>>

-----------------------------------------------------------------------------
(* The recovery cycle: expire_due, mark_idle_dormant, cleanup_expired. *)

cycle == tx["recovery"]

\* Each of the three selects surfaces in other statuses, so a cycle does one of
\* them to this surface: a status it has just written is in no later selection,
\* since a surface that expires now is not past its grace.
Due(r) == r.status \in Live /\ r.expiry # "ahead"

SelectDue ==
    /\ cycle.phase = "idle"
    /\ Due(row)
    /\ LoadStatus("recovery", "expiring")
    /\ UNCHANGED <<row, store, ai, holder, published, edits>>

Expire ==
    /\ cycle.phase = "expiring"
    /\ Unlocked("recovery")
    /\ tx' = [tx EXCEPT !["recovery"] = [@ EXCEPT !.phase = "ending",
                !.copy.status = "expired", !.dirty = {"status"}]]
    /\ holder' = "recovery"
    /\ UNCHANGED <<row, store, ai, published, edits>>

SelectQuiet ==
    /\ cycle.phase = "idle"
    /\ ~Due(row)
    /\ \/ row.status = "active" /\ row.quiet >= 1
       \/ row.status = "idle" /\ row.quiet = 2
    /\ LoadStatus("recovery", "quieting")
    /\ UNCHANGED <<row, store, ai, holder, published, edits>>

Quieter(status) == IF status = "active" THEN "idle" ELSE "dormant"

MarkQuiet ==
    /\ cycle.phase = "quieting"
    /\ Unlocked("recovery")
    /\ tx' = [tx EXCEPT !["recovery"] = [@ EXCEPT !.phase = "ending",
                !.copy.status = Quieter(cycle.copy.status), !.dirty = {"status"}]]
    /\ holder' = "recovery"
    /\ UNCHANGED <<row, store, ai, published, edits>>

\* (variant) revoked surfaces are not cleaned
CleanableNotRevoked(r) == r.status \in {"expired", "failed"} /\ r.expiry = "graced"

\* (variant) any surface whose time has come is cleaned, closed or not
CleanableEarly(r) == r.expiry # "ahead" /\ r.status \notin {"absent", "cleaned"}

\* A surface with cleaned_at set has status cleaned.
Cleanable(r) ==
    /\ r.status \in {"expired", "revoked", "failed"}
    /\ r.expiry = "graced"

\* Each revision's file is deleted on the spot.  delete_uri logs a store's
\* error and returns, so its uri is cleared all the same; what does raise is
\* the making of the store, and leaves the surface in cleanup_pending.  The
\* status is written when the cycle commits.
Clean ==
    /\ cycle.phase = "idle"
    /\ Cleanable(row)
    /\ \E outcome \in [uris -> Storage] :
        LET raised == {r \in uris : outcome[r] = "raised"} IN
        /\ bytes' = bytes \ {r \in uris : outcome[r] = "deleted"}
        /\ tx' = [tx EXCEPT !["recovery"] = [IdleTx EXCEPT !.phase = "ending",
                    !.copy.status =
                        IF raised = {} THEN "cleaned" ELSE "cleanup_pending",
                    !.dirty = {"status"},
                    !.forgot = uris \ raised]]
    /\ UNCHANGED <<row, uris, ai, holder, published, edits>>

EndCycle ==
    /\ cycle.phase = "ending"
    /\ Commit("recovery")
    /\ UNCHANGED <<ai, edits>>

\* The process stops, or a later part of the cycle spoils the transaction.
CycleFails ==
    /\ cycle.phase # "idle"
    /\ Rollback("recovery")
    /\ UNCHANGED edits

-----------------------------------------------------------------------------
Turn(t) ==
    \/ \E page, extend \in BOOLEAN : Update(t, page, extend)
    \/ \E extend \in BOOLEAN : UpdateFails(t, extend)
    \/ Revoke(t) \/ ApplyAiResult(t) \/ EndTurn(t) \/ TurnFails(t)

Visit(v) ==
    \/ MarkExpired(v) \/ Serve(v) \/ PostEvent(v) \/ Leave(v)
    \/ \E k \in Keys : Ask(v, k)
    \/ Accept(v)

Cycle ==
    \/ SelectDue \/ Expire \/ SelectQuiet \/ MarkQuiet \/ Clean \/ EndCycle

Next ==
    \/ Grow \/ Ripen
    \/ \E t \in Turns :
        \/ Create(t) \/ Turn(t)
        \/ \E k \in Keys \cup {None} : Begin(t, k)
    \/ \E v \in Visits : Visit(v) \/ Resolve(v)
    \/ Cycle \/ CycleFails

Spec == Init /\ [][Next]_vars

\* Time passes; sessions end.  A recovery cycle that failed is run again 5 s
\* later and does not fail for ever; the worker comes to a Work of the page
\* again and again, and the tutor does not raise each time.
FairSpec ==
    /\ Spec
    /\ WF_vars(Ripen)
    /\ WF_vars(Cycle) /\ SF_vars(Expire) /\ SF_vars(EndCycle)
    /\ \A t \in Turns : WF_vars(Turn(t)) /\ SF_vars(ApplyAiResult(t))
    /\ \A v \in Visits : WF_vars(Visit(v))
    /\ \A k \in Keys : SF_vars(\E t \in Turns : Begin(t, k))

-----------------------------------------------------------------------------
(* Safety. *)

\* While a surface can be opened, each of its revisions has its row and its
\* file, up to the one the row points to: service.py, update, _write_revision
\* and cleanup_expired.
PageWhole ==
    row.status \in Live => uris = 1..row.current /\ uris \subseteq bytes

\* current_revision counts the pages whose turn committed: two turns never
\* publish under one number, and a page that was not stored is not counted.
EveryPageCounts == row.current = published

\* An AI request of the page, however often the browser repeats it, has one
\* Work and gets one answer (accept_ai_request, process_surface_ai).
AnsweredOnce == \A k \in Keys : jobs[k] + answers[k] <= 1

-----------------------------------------------------------------------------
(* Surfaces implements SurfaceContract. *)

\* Neither the row nor a session knows a status the surface can be used in.
Shut ==
    /\ row.status \notin Live \cup {"absent"}
    /\ \A s \in Sessions : tx[s].copy.status \notin Live

Contract == INSTANCE SurfaceContract WITH
    Visitors <- Visits,
    state <- IF row.status = "absent" THEN "absent" ELSE IF Shut THEN "shut" ELSE "open",
    revoked <- row.revoked,
    pages <- row.current,
    whole <- uris = 1..row.current /\ uris \subseteq bytes,
    inside <- {v \in Visits : tx[v].phase = "granted"}

\* Stale statuses written over newer ones, pages stored and files deleted before
\* their transaction commits: none of it breaks what a surface promises.
ImplementsContract == Contract!Spec

-----------------------------------------------------------------------------
(* Liveness. *)

\* A surface that is over is cleaned up, or left in cleanup_pending.
ClosedIsSwept ==
    row.status \in {"expired", "revoked", "failed"} ~>
        row.status \in {"cleaned", "cleanup_pending"}

\* An AI request that was accepted is answered, as often as its turn fails:
\* accepted ends in completed, and nothing undoes that.
AsksSettle == \A k \in Keys : []<>(asks[k] # "accepted")
=============================================================================
