---------------------------- MODULE SurfacesProofs ----------------------------
(***************************************************************************)
(* Theorems about module Surfaces, for any sessions, keys and bounds.      *)
(*                                                                         *)
(* Any session may write its stale status over a revocation, so the status *)
(* alone says little.  What cannot be undone is Shut: neither the row nor  *)
(* any session's copy is live, and no step makes a live copy from that.    *)
(* Until a surface is Shut its pages are whole.                            *)
(***************************************************************************)
EXTENDS Surfaces, FiniteSetTheorems, TLAPS

\* A turn in progress: what it may have changed, and what it then holds.  The
\* revisions it stored are those between the row's and its copy's.
TurnOK(t) ==
    /\ tx[t].phase \in {"idle", "loaded", "applied"}
    /\ tx[t].phase = "idle" => tx[t] = IdleTx
    /\ tx[t].phase # "idle" =>
            /\ tx[t].copy.status # "absent"
            /\ row.status = "absent" => tx[t].dirty = Columns
    /\ tx[t].job # None => jobs[tx[t].job] > 0
    /\ tx[t].copy.expiry = "ahead"
    /\ "revoked" \in tx[t].dirty =>
            holder = t /\ (row.revoked => tx[t].copy.revoked)
    /\ "current" \in tx[t].dirty =>
            /\ holder = t
            /\ tx[t].copy.current >= row.current
            /\ tx[t].fresh = (row.current + 1)..tx[t].copy.current
    /\ "current" \notin tx[t].dirty => tx[t].fresh = {}
    /\ tx[t].forgot = {}

\* A request changes the tables in the step that ends it.
VisitOK(v) ==
    /\ tx[v].phase \in {"idle", "closing", "granted", "asking"}
    /\ tx[v].phase = "granted" => tx[v].copy.status \in Live
    /\ tx[v].phase = "asking" => tx[v].job \in Keys
    /\ tx[v].dirty = {} /\ tx[v].fresh = {} /\ tx[v].forgot = {}

\* A recovery cycle writes a status it has not made up.
CycleOK ==
    /\ cycle.phase \in {"idle", "expiring", "quieting", "ending"}
    /\ cycle.phase = "quieting" => cycle.copy.status \in Live
    /\ cycle.phase = "ending" => cycle.copy.status # "absent"
    /\ cycle.phase # "ending" => cycle.dirty = {} /\ cycle.forgot = {}
    /\ cycle.dirty \subseteq {"status"}
    /\ cycle.fresh = {}

SessionOK(s) ==
    /\ s \in Turns => TurnOK(s)
    /\ s \in Visits => VisitOK(s)
    /\ s = "recovery" => CycleOK

SessionsOK == \A s \in Sessions : SessionOK(s)

\* Two turns never work on one AI request.
JobsApart ==
    \A t, u \in Turns : t # u /\ tx[t].job # None => tx[t].job # tx[u].job

\* Each directive stores one page at most.
Bounded ==
    /\ row.current <= edits + 1
    /\ \A s \in Sessions : tx[s].copy.current <= edits + 1

RowOK ==
    /\ row.status = "absent" => row = NoRow
    /\ row.expiry = "graced" => Shut

PagesOK ==
    \/ Shut
    \/ uris = 1..row.current /\ uris \subseteq bytes /\ tx["recovery"].forgot = {}

AsksOK ==
    \A k \in Keys : jobs[k] + answers[k] = IF asks[k] = "none" THEN 0 ELSE 1

Inv ==
    /\ TypeOK
    /\ RowOK /\ SessionsOK /\ JobsApart /\ Bounded /\ PagesOK /\ AsksOK
    /\ EveryPageCounts

\* What every step does: it keeps the invariant and takes nothing back of what
\* the surface has become.
Onward ==
    /\ Inv'
    /\ row.status # "absent" => row'.status # "absent"
    /\ Shut => Shut'
    /\ row.revoked => row'.revoked
    /\ row'.current >= row.current

-----------------------------------------------------------------------------
\* The three kinds of session are apart, and None is none of them.
LEMMA Kinds ==
    /\ \A t \in Turns : t \in Sessions /\ t # "recovery" /\ t \notin Visits /\ t # None
    /\ \A v \in Visits : v \in Sessions /\ v # "recovery" /\ v \notin Turns /\ v # None
    /\ "recovery" \in Sessions \ (Turns \cup Visits) /\ "recovery" # None
    /\ None \notin Keys \cup Sessions
  BY SurfacesAssumption DEF Sessions

\* A session that is over answers for nothing.
LEMMA IdleTxIs ==
    /\ NoRow \in Row /\ IdleTx \in Tx
    /\ NoRow.status = "absent" /\ NoRow.expiry = "ahead" /\ NoRow.current = 0
    /\ IdleTx.phase = "idle" /\ IdleTx.job = None /\ IdleTx.copy = NoRow
    /\ IdleTx.dirty = {} /\ IdleTx.fresh = {} /\ IdleTx.forgot = {}
  BY SurfacesAssumption DEF NoRow, Row, IdleTx, Tx, Status, Live, Revisions

\* TypeOK, session by session.
LEMMA Types ==
    ASSUME TypeOK
    PROVE  /\ row \in Row
           /\ row.status \in Status /\ row.current \in 0..(MaxEdits + 1)
           /\ edits \in 0..MaxEdits /\ MaxEdits \in Nat
           /\ \A s \in Sessions :
                /\ tx[s] \in Tx /\ tx[s].copy \in Row /\ tx[s].dirty \subseteq Columns
                /\ tx[s].copy.current \in 0..(MaxEdits + 1)
                /\ tx[s].copy.status \in Status
                /\ tx[s].job \in Keys \cup {None}
                /\ tx[s].fresh \subseteq Revisions /\ tx[s].forgot \subseteq Revisions
  BY SurfacesAssumption DEF TypeOK, Tx, Row, Revisions

\* What a session has to do with is its own record, the lock while it holds it,
\* and the Work of its request.
LEMMA OthersKept ==
    ASSUME Inv, NEW s, NEW r \in Sessions \ {s}, tx'[r] = tx[r],
           holder = r => /\ holder' = r
                         /\ row'.current = row.current
                         /\ row'.revoked = row.revoked,
           row'.status = "absent" => row.status = "absent",
           r \in Turns /\ tx[r].job # None => jobs'[tx[r].job] > 0
    PROVE  SessionOK(r)'
  <1>1. SessionOK(r)
    BY DEF Inv, SessionsOK
  <1>2. ASSUME r \in Turns PROVE TurnOK(r)'
    <2>1. TurnOK(r)
      BY <1>1, <1>2 DEF SessionOK
    <2> QED
      BY <1>2, <2>1 DEF TurnOK
  <1>3. ASSUME r \in Visits PROVE VisitOK(r)'
    BY <1>1, <1>3 DEF SessionOK, VisitOK
  <1>4. ASSUME r = "recovery" PROVE CycleOK'
    BY <1>1, <1>4 DEF SessionOK, CycleOK, cycle
  <1> QED
    BY <1>2, <1>3, <1>4 DEF SessionOK

\* A session that is over keeps what is asked of it.
LEMMA OverOK ==
    ASSUME NEW s \in Sessions, tx'[s] = IdleTx
    PROVE  SessionOK(s)'
  <1>1. ASSUME s \in Turns PROVE TurnOK(s)'
    BY <1>1, IdleTxIs DEF TurnOK
  <1>2. ASSUME s \in Visits PROVE VisitOK(s)'
    BY <1>2, IdleTxIs DEF VisitOK
  <1>3. ASSUME s = "recovery" PROVE CycleOK'
    BY <1>3, IdleTxIs DEF CycleOK, cycle
  <1> QED
    BY <1>1, <1>2, <1>3 DEF SessionOK

\* A step within one session's transaction: it may take the lock or let go of
\* its own, and it makes no live copy of a shut surface.
LEMMA LocalStep ==
    ASSUME Inv, NEW s \in Sessions,
           tx' \in [Sessions -> Tx],
           \A r \in Sessions \ {s} : tx'[r] = tx[r],
           UNCHANGED <<row, store, ai, published>>,
           holder' \in Sessions \cup {None},
           \A r \in Sessions \ {s} : holder = r => holder' = r,
           edits' \in 0..MaxEdits, edits' >= edits,
           tx'[s].copy.current <= edits' + 1,
           SessionOK(s)',
           s \in Turns /\ tx'[s].job # None =>
               \A u \in Turns \ {s} : tx[u].job # tx'[s].job,
           Shut => tx'[s].copy.status \notin Live,
           s = "recovery" => tx'[s].forgot = {} \/ Shut
    PROVE  Onward
  <1>1. TypeOK'
    BY DEF Inv, TypeOK, store, ai
  <1>2. SessionsOK'
    <2>1. ASSUME NEW r \in Sessions \ {s} PROVE SessionOK(r)'
      <3>1. r \in Turns /\ tx[r].job # None => jobs'[tx[r].job] > 0
        BY DEF Inv, SessionsOK, SessionOK, TurnOK, ai
      <3> QED
        BY <3>1, OthersKept
    <2> QED
      BY <2>1 DEF SessionsOK
  <1>3. JobsApart'
    BY Kinds DEF Inv, JobsApart
  <1>4. Bounded'
    <2>1. row.current \in Nat /\ edits \in Nat /\ edits' \in Nat
      BY Types DEF Inv
    <2>2. ASSUME NEW r \in Sessions \ {s} PROVE tx'[r].copy.current <= edits' + 1
      <3>1. tx[r].copy.current \in Nat /\ tx[r].copy.current <= edits + 1
        BY Types DEF Inv, Bounded
      <3> QED
        BY <2>1, <3>1
    <2>3. row'.current <= edits' + 1
      BY <2>1 DEF Inv, Bounded
    <2> QED
      BY <2>2, <2>3 DEF Bounded
  <1>5. Shut => Shut'
    BY DEF Shut
  <1>6. RowOK' /\ EveryPageCounts' /\ AsksOK'
    BY <1>5 DEF Inv, RowOK, EveryPageCounts, AsksOK, ai
  <1>7. PagesOK'
    <2>1. CASE Shut
      BY <1>5, <2>1 DEF PagesOK
    <2>2. CASE ~Shut
      <3>1. tx'["recovery"].forgot = {}
        BY <2>2, Kinds DEF Inv, PagesOK
      <3> QED
        BY <2>2, <3>1 DEF Inv, PagesOK, store
    <2> QED
      BY <2>1, <2>2
  <1>8. row'.current >= row.current
    BY Types DEF Inv
  <1> QED
    BY <1>1, <1>2, <1>3, <1>4, <1>5, <1>6, <1>7, <1>8 DEF Inv, Onward
-----------------------------------------------------------------------------
(* A turn's directives. *)

\* What a turn stores and claims when it inserts the surface: all columns are
\* its own, and the revision is the first.
LEMMA CreateKeeps ==
    ASSUME Inv, NEW t \in Turns, Create(t)
    PROVE  Onward
<1>1. row = NoRow /\ holder = None /\ tx[t].phase = "idle" /\ ~Shut
  BY DEF Create, MayBegin, Inv, RowOK, Shut
<1>2. PICK made \in {"active", "failed"}, n \in 0..1 :
        tx' = [tx EXCEPT ![t] = [IdleTx EXCEPT !.phase = "loaded",
                !.copy = [NoRow EXCEPT !.status = made, !.current = n],
                !.dirty = Columns, !.fresh = 1..n]]
  <2>1. 1..1 = {1} /\ 1..0 = {}
    OBVIOUS
  <2>2. CASE tx' = [tx EXCEPT ![t] = [IdleTx EXCEPT !.phase = "loaded",
            !.copy = [NoRow EXCEPT !.status = "active", !.current = 1],
            !.dirty = Columns, !.fresh = {1}]]
    BY <2>1, <2>2
  <2>3. CASE tx' = [tx EXCEPT ![t] = [IdleTx EXCEPT !.phase = "loaded",
            !.copy = [NoRow EXCEPT !.status = "failed", !.current = 0],
            !.dirty = Columns, !.fresh = {}]]
    BY <2>1, <2>3
  <2> QED
    BY <2>2, <2>3 DEF Create
<1> DEFINE mine == [NoRow EXCEPT !.status = made, !.current = n]
           new == [IdleTx EXCEPT !.phase = "loaded", !.copy = mine,
                                 !.dirty = Columns, !.fresh = 1..n]
<1>3. /\ mine \in Row /\ mine.status # "absent"
      /\ mine.expiry = "ahead" /\ mine.current = n
  <2>1. made \in Status /\ made # "absent"
    BY DEF Status, Live
  <2>2. n \in {0} \cup Revisions
    BY SurfacesAssumption DEF Revisions
  <2>3. mine \in Row
    BY <2>1, <2>2, IdleTxIs DEF Row
  <2> QED
    BY <2>1, <2>3 DEF NoRow
<1>4. /\ new \in Tx /\ new.phase = "loaded"
      /\ new.copy = mine /\ new.dirty = Columns
      /\ new.fresh = 1..n /\ new.forgot = {}
      /\ new.job = None
  <2>1. 1..n \subseteq Revisions
    BY SurfacesAssumption DEF Revisions
  <2>2. None \in Keys \cup {None} /\ Columns \subseteq Columns
    OBVIOUS
  <2> HIDE DEF mine
  <2> QED
    BY <1>3, <2>1, <2>2 DEF IdleTx, Tx
<1>5. tx' \in [Sessions -> Tx] /\ tx'[t] = new
      /\ \A r \in Sessions \ {t} : tx'[r] = tx[r]
  BY <1>2, <1>4, Kinds DEF Inv, TypeOK
<1>6. holder' = t /\ UNCHANGED <<row, store, ai, published, edits>>
  BY DEF Create
<1> HIDE DEF mine, new
<1>7. TurnOK(t)'
  <2>1. row'.current = 0 /\ row'.revoked = FALSE
    BY <1>1, <1>6 DEF NoRow
  <2>2. tx'[t].fresh = (row'.current + 1)..tx'[t].copy.current
        /\ tx'[t].copy.current >= row'.current
    BY <2>1, <1>3, <1>4, <1>5
  <2> QED
    BY <2>1, <2>2, <1>3, <1>4, <1>5, <1>6 DEF TurnOK, Columns
<1>8. SessionOK(t)'
  BY <1>7, Kinds DEF SessionOK
<1>9. edits' \in 0..MaxEdits /\ edits' >= edits /\ tx'[t].copy.current <= edits' + 1
  BY <1>3, <1>4, <1>5, <1>6, Types DEF Inv
<1> QED
  BY <1>1, <1>4, <1>5, <1>6, <1>8, <1>9, Kinds, LocalStep

\* A turn begins with the status and the revision of the row as it is.
LEMMA BeginKeeps ==
    ASSUME Inv, NEW t \in Turns, NEW k \in Keys \cup {None}, Begin(t, k)
    PROVE  Onward
<1> DEFINE mine == [NoRow EXCEPT !.status = row.status, !.current = row.current]
           new == [IdleTx EXCEPT !.phase = "loaded", !.job = k, !.copy.status = row.status,
                                 !.copy.current = row.current]
<1>1. mine \in Row /\ mine.status = row.status /\ mine.expiry = "ahead"
      /\ mine.current = row.current /\ row.status # "absent"
  BY SurfacesAssumption, IdleTxIs, Types DEF Inv, NoRow, Row, Status, Live, Revisions, Begin
<1>2. new.copy = mine
  BY DEF IdleTx, NoRow
<1>3. new \in Tx /\ new.phase = "loaded" /\ new.dirty = {} /\ new.fresh = {}
      /\ new.forgot = {} /\ new.job = k
  BY <1>1, <1>2, SurfacesAssumption DEF IdleTx, Tx, Revisions
<1>4. tx' \in [Sessions -> Tx] /\ tx'[t] = new
      /\ \A r \in Sessions \ {t} : tx'[r] = tx[r]
  BY <1>3, Kinds DEF Inv, TypeOK, Begin
<1>5. holder' = holder /\ UNCHANGED <<row, store, ai, published, edits>>
  BY DEF Begin
<1> HIDE DEF mine, new
<1>6. k # None => jobs'[k] > 0
  BY <1>5 DEF Begin, MayBegin, ai
<1>7. TurnOK(t)'
  BY <1>1, <1>2, <1>3, <1>4, <1>5, <1>6 DEF TurnOK
<1>8. SessionOK(t)'
  BY <1>7, Kinds DEF SessionOK
<1>9. edits' \in 0..MaxEdits /\ edits' >= edits /\ tx'[t].copy.current <= edits' + 1
  BY <1>1, <1>2, <1>3, <1>4, <1>5, Types DEF Inv, Bounded
<1>10. ASSUME NEW u \in Turns \ {t}, k # None PROVE tx[u].job # k
  <2>1. tx[u].phase # "idle" => tx[u].job # k
    BY DEF Begin, MayBegin, InProgress
  <2>2. tx[u].phase = "idle" => tx[u].job = None
    BY IdleTxIs, Kinds DEF Inv, SessionsOK, SessionOK, TurnOK
  <2> QED
    BY <1>10, <2>1, <2>2
<1>11. Shut => tx'[t].copy.status \notin Live
  BY <1>1, <1>2, <1>4 DEF Shut
<1>12. holder' \in Sessions \cup {None}
  BY <1>5 DEF Inv, TypeOK
<1> QED
  BY <1>3, <1>4, <1>5, <1>8, <1>9, <1>10, <1>11, <1>12, Kinds, LocalStep

\* The row a flush would leave, column by column.
LEMMA MergedIs ==
    ASSUME NEW s
    PROVE  /\ Merged(s).status = IF "status" \in tx[s].dirty
                                 THEN tx[s].copy.status ELSE row.status
           /\ Merged(s).revoked = IF "revoked" \in tx[s].dirty
                                  THEN tx[s].copy.revoked ELSE row.revoked
           /\ Merged(s).expiry = IF "expiry" \in tx[s].dirty
                                 THEN tx[s].copy.expiry ELSE row.expiry
           /\ Merged(s).quiet = IF "quiet" \in tx[s].dirty
                                THEN tx[s].copy.quiet ELSE row.quiet
           /\ Merged(s).current = IF "current" \in tx[s].dirty
                                  THEN tx[s].copy.current ELSE row.current
  BY DEF Merged

\* Each of them is a row.
LEMMA MergedRow ==
    ASSUME TypeOK, NEW s \in Sessions
    PROVE  /\ Merged(s) \in Row
           /\ tx[s].dirty = {} => Merged(s) = row
<1>1. row \in Row /\ tx[s].copy \in Row
  BY Types
<1>2. Merged(s) \in Row
  BY <1>1 DEF Merged, Row
<1>3. tx[s].dirty = {} => Merged(s) = row
  BY <1>1 DEF Merged, Row
<1> QED
  BY <1>2, <1>3

\* The parts of the invariant for a turn in progress.
LEMMA TurnFacts ==
    ASSUME Inv, NEW t \in Turns
    PROVE  /\ TurnOK(t) /\ tx[t] \in Tx /\ tx[t].copy \in Row /\ tx[t].dirty \subseteq Columns
           /\ t \in Sessions /\ tx \in [Sessions -> Tx] /\ row \in Row
           /\ tx[t].copy.current \in Nat /\ row.current \in Nat
           /\ edits \in Nat /\ MaxEdits \in Nat /\ edits <= MaxEdits
           /\ tx[t].copy.current <= edits + 1 /\ row.current <= edits + 1
           /\ holder \in Sessions \cup {None}
<1>1. TurnOK(t)
  BY Kinds DEF Inv, SessionsOK, SessionOK
<1>2. tx[t].copy.current <= edits + 1 /\ row.current <= edits + 1
  BY Kinds DEF Inv, Bounded
<1> QED
  BY <1>1, <1>2, Types, Kinds DEF Inv, TypeOK

\* What update assigns first leaves the revision and the status alone.
LEMMA TouchedIs ==
    ASSUME Inv, NEW t \in Turns, NEW extend \in BOOLEAN
    PROVE  LET r == Touched(t, extend) IN
           /\ r \in Tx
           /\ r.phase = tx[t].phase /\ r.job = tx[t].job
           /\ r.fresh = tx[t].fresh /\ r.forgot = tx[t].forgot
           /\ r.copy.status = tx[t].copy.status /\ r.copy.revoked = tx[t].copy.revoked
           /\ r.copy.current = tx[t].copy.current /\ r.copy.expiry = "ahead"
           /\ r.dirty = tx[t].dirty \cup (IF extend THEN {"expiry"} ELSE {})
<1>1. tx[t] \in Tx /\ tx[t].copy \in Row /\ tx[t].copy.expiry = "ahead"
  BY TurnFacts DEF TurnOK
<1>2. CASE extend
  <2>1. "expiry" \in Columns /\ "ahead" \in {"ahead", "due", "graced"}
    BY DEF Columns
  <2> QED
    BY <1>1, <1>2, <2>1 DEF Touched, Tx, Row
<1>3. CASE ~extend
  BY <1>1, <1>3 DEF Touched
<1> QED
  BY <1>2, <1>3

\* A directive of t that keeps its job and its place in the turn: what is left
\* to show is what it says of the revision, the status and the lock.
LEMMA Directive ==
    ASSUME Inv, NEW t \in Turns, NEW new \in Tx, tx' = [tx EXCEPT ![t] = new],
           UNCHANGED <<row, store, ai, published>>,
           edits' \in 0..MaxEdits, edits' >= edits,
           holder' = holder \/ (Unlocked(t) /\ holder' = t),
           tx[t].phase # "idle", new.phase \in {"loaded", "applied"},
           new.job = tx[t].job, new.forgot = {},
           new.copy.expiry = "ahead", new.copy.status # "absent",
           new.copy.current <= edits' + 1,
           row.status = "absent" => new.dirty = Columns,
           "revoked" \in new.dirty => holder' = t /\ (row.revoked => new.copy.revoked),
           "current" \in new.dirty => /\ holder' = t
                                      /\ new.copy.current >= row.current
                                      /\ new.fresh = (row.current + 1)..new.copy.current,
           "current" \notin new.dirty => new.fresh = {},
           Shut => new.copy.status \notin Live
    PROVE  Onward
<1>1. tx' \in [Sessions -> Tx] /\ tx'[t] = new
      /\ \A r \in Sessions \ {t} : tx'[r] = tx[r]
  BY TurnFacts
<1>2. new.job # None => jobs'[new.job] > 0
  BY TurnFacts DEF TurnOK, ai
<1>3. TurnOK(t)'
  BY <1>1, <1>2 DEF TurnOK
<1>4. SessionOK(t)'
  BY <1>3, Kinds DEF SessionOK
<1>5. new.job # None => \A u \in Turns \ {t} : tx[u].job # new.job
  BY DEF Inv, JobsApart
<1>6. holder' \in Sessions \cup {None} /\ \A r \in Sessions \ {t} : holder = r => holder' = r
  BY TurnFacts, Kinds DEF Unlocked
<1> QED
  BY <1>1, <1>4, <1>5, <1>6, Kinds, LocalStep

\* A revocation marks the copy, and takes the row.
LEMMA RevokeKeeps ==
    ASSUME Inv, NEW t \in Turns, Revoke(t)
    PROVE  Onward
<1> DEFINE new == [tx[t] EXCEPT !.copy.status = "revoked", !.copy.revoked = TRUE,
                                !.dirty = @ \cup {"status", "revoked"}]
<1>1. tx[t] \in Tx /\ tx[t].copy \in Row /\ TurnOK(t) /\ tx \in [Sessions -> Tx] /\ t \in Sessions
  BY TurnFacts
<1>2. "revoked" \in Status /\ "revoked" \in Columns /\ "status" \in Columns
      /\ "revoked" \notin Live
  BY DEF Status, Live, Columns
<1>3. new \in Tx
  BY <1>1, <1>2 DEF Tx, Row
<1>4. /\ new.phase = tx[t].phase /\ new.job = tx[t].job
      /\ new.fresh = tx[t].fresh /\ new.forgot = tx[t].forgot
      /\ new.copy.status = "revoked" /\ new.copy.revoked = TRUE
      /\ new.copy.current = tx[t].copy.current /\ new.copy.expiry = tx[t].copy.expiry
      /\ new.dirty = tx[t].dirty \cup {"status", "revoked"}
  BY <1>1 DEF Tx, Row
<1>5. tx' = [tx EXCEPT ![t] = new]
  BY <1>1 DEF Revoke
<1>6. UNCHANGED <<row, store, ai, published>> /\ holder' = t /\ Unlocked(t) /\ edits' = edits + 1
      /\ edits < MaxEdits /\ tx[t].phase = "loaded"
  BY DEF Revoke
<1> HIDE DEF new
<1>7. edits' \in 0..MaxEdits /\ edits' >= edits /\ new.copy.current <= edits' + 1
  BY <1>4, <1>6, TurnFacts
<1>8. row.status = "absent" => new.dirty = Columns
  BY <1>1, <1>4, <1>6, <1>2 DEF TurnOK
<1> QED
  BY <1>1, <1>2, <1>3, <1>4, <1>5, <1>6, <1>7, <1>8, Directive DEF TurnOK

\* An answer touches the surface.
LEMMA ApplyKeeps ==
    ASSUME Inv, NEW t \in Turns, ApplyAiResult(t)
    PROVE  Onward
<1> DEFINE new == [tx[t] EXCEPT !.phase = "applied", !.copy.quiet = 0,
                                !.dirty = @ \cup {"quiet"}]
<1>1. tx[t] \in Tx /\ tx[t].copy \in Row /\ TurnOK(t) /\ tx \in [Sessions -> Tx] /\ t \in Sessions
  BY TurnFacts
<1>2. "quiet" \in Columns
  BY DEF Columns
<1>3. new \in Tx
  <2>1. [tx[t].copy EXCEPT !.quiet = 0] \in Row
    BY <1>1 DEF Row
  <2>2. new = [tx[t] EXCEPT !.phase = "applied", !.copy = [tx[t].copy EXCEPT !.quiet = 0],
                            !.dirty = @ \cup {"quiet"}]
    BY <1>1 DEF Tx
  <2> HIDE DEF new
  <2> QED
    BY <1>1, <1>2, <2>1, <2>2 DEF Tx
<1>4. /\ new.phase = "applied" /\ new.job = tx[t].job
      /\ new.fresh = tx[t].fresh /\ new.forgot = tx[t].forgot
      /\ new.copy.status = tx[t].copy.status /\ new.copy.revoked = tx[t].copy.revoked
      /\ new.copy.current = tx[t].copy.current /\ new.copy.expiry = tx[t].copy.expiry
      /\ new.dirty = tx[t].dirty \cup {"quiet"}
  BY <1>1 DEF Tx, Row
<1>5. tx' = [tx EXCEPT ![t] = new]
  BY <1>1 DEF ApplyAiResult
<1>6. UNCHANGED <<row, store, ai, published, edits>> /\ holder' = t /\ Unlocked(t)
      /\ tx[t].phase = "loaded"
  BY DEF ApplyAiResult
<1> HIDE DEF new
<1>7. edits' \in 0..MaxEdits /\ edits' >= edits /\ new.copy.current <= edits' + 1
  BY <1>4, <1>6, TurnFacts
<1>8. Shut => new.copy.status \notin Live
  BY <1>1, <1>4 DEF Shut
<1>9. row.status = "absent" => new.dirty = Columns
  BY <1>1, <1>4, <1>6, <1>2 DEF TurnOK
<1> QED
  BY <1>1, <1>3, <1>4, <1>5, <1>6, <1>7, <1>8, <1>9, Directive DEF TurnOK

\* What a session that still believes in the surface makes of its status.
LEMMA WokenIs ==
    ASSUME NEW status \in Live
    PROVE  Woken(status) \in Live
  BY DEF Woken, Live

\* A claim of the revision after the copy's finds the row, as the turn left it,
\* at the revision of the copy: what the turn stored goes on without a gap.
LEMMA ClaimedNext ==
    ASSUME Inv, NEW t \in Turns, Claims(t)
    PROVE  /\ tx[t].copy.current >= row.current
           /\ tx[t].fresh = (row.current + 1)..tx[t].copy.current
<1>1. TurnOK(t) /\ row.current \in Nat /\ tx[t].copy.current \in Nat
  BY TurnFacts
<1>2. CASE "current" \in tx[t].dirty
  BY <1>1, <1>2 DEF TurnOK
<1>3. CASE "current" \notin tx[t].dirty
  <2>1. row.current = tx[t].copy.current
    BY <1>3, MergedIs DEF Claims
  <2>2. (row.current + 1)..row.current = {}
    BY <1>1
  <2>3. tx[t].fresh = {}
    BY <1>1, <1>3 DEF TurnOK
  <2> QED
    BY <1>1, <2>1, <2>2, <2>3
<1> QED
  BY <1>2, <1>3

\* A page that is stored takes the next revision, a change without one none.
LEMMA AcceptedKeeps ==
    ASSUME Inv, NEW t \in Turns, NEW page \in BOOLEAN, NEW extend \in BOOLEAN,
           Update(t, page, extend), page => Claims(t)
    PROVE  Onward
<1> DEFINE r == Touched(t, extend)
           next == tx[t].copy.current + 1
           more == {"quiet"} \cup (IF page THEN {"current"} ELSE {})
                     \cup (IF tx[t].copy.status # "active" THEN {"status"} ELSE {})
           mine == [r.copy EXCEPT !.status = Woken(@), !.quiet = 0,
                                  !.current = IF page THEN next ELSE @]
           new == [r EXCEPT !.copy.status = Woken(@), !.copy.quiet = 0,
                            !.copy.current = IF page THEN next ELSE @,
                            !.dirty = @ \cup {"quiet"}
                                \cup (IF page THEN {"current"} ELSE {})
                                \cup (IF tx[t].copy.status # "active" THEN {"status"} ELSE {}),
                            !.fresh = IF page THEN @ \cup {next} ELSE @]
<1>1. TurnOK(t) /\ tx[t] \in Tx /\ tx[t].copy \in Row /\ t \in Sessions
      /\ tx[t].copy.current \in Nat /\ row.current \in Nat /\ edits \in Nat /\ MaxEdits \in Nat
      /\ tx[t].copy.current <= edits + 1 /\ row.current <= edits + 1
  BY TurnFacts
<1>2. /\ tx[t].phase = "loaded" /\ edits < MaxEdits /\ tx[t].copy.status \in Live /\ Unlocked(t)
      /\ tx' = [tx EXCEPT ![t] = new] /\ holder' = t
      /\ edits' = edits + 1 /\ UNCHANGED <<row, store, ai, published>>
  BY DEF Update
<1>3. /\ r \in Tx /\ r.copy \in Row
      /\ r.phase = tx[t].phase /\ r.job = tx[t].job
      /\ r.fresh = tx[t].fresh /\ r.forgot = tx[t].forgot
      /\ r.copy.status = tx[t].copy.status /\ r.copy.revoked = tx[t].copy.revoked
      /\ r.copy.current = tx[t].copy.current /\ r.copy.expiry = "ahead"
      /\ r.dirty = tx[t].dirty \cup (IF extend THEN {"expiry"} ELSE {})
  BY TouchedIs DEF Tx
<1> HIDE DEF r
<1>4. next \in Revisions /\ next <= edits' + 1
  BY <1>1, <1>2 DEF Revisions
<1> HIDE DEF next
<1>5. Woken(r.copy.status) \in Live /\ Woken(r.copy.status) # "absent"
      /\ Woken(r.copy.status) \in Status
  BY <1>2, <1>3, WokenIs DEF Status, Live
<1>6. more \subseteq Columns /\ "revoked" \notin more /\ ("current" \in more <=> page)
  BY DEF Columns
<1> HIDE DEF more
<1>7. mine \in Row /\ mine.status = Woken(r.copy.status) /\ mine.revoked = r.copy.revoked
      /\ mine.expiry = "ahead" /\ mine.current = (IF page THEN next ELSE r.copy.current)
  <2>1. (IF page THEN next ELSE r.copy.current) \in {0} \cup Revisions
    BY <1>3, <1>4 DEF Row
  <2>2. \A a \in Status, c \in {0} \cup Revisions :
            [r.copy EXCEPT !.status = a, !.quiet = 0, !.current = c] \in Row
    <3>1. ASSUME NEW q \in Row, NEW a \in Status
          PROVE  [q EXCEPT !.status = a, !.quiet = 0] \in Row
      <4>1. [q EXCEPT !.quiet = 0] \in Row
        BY DEF Row
      <4>2. \A p \in Row : [p EXCEPT !.status = a] \in Row
        BY DEF Row
      <4>3. [q EXCEPT !.status = a, !.quiet = 0]
              = [[q EXCEPT !.quiet = 0] EXCEPT !.status = a]
        BY DEF Row
      <4> QED
        BY <4>1, <4>2, <4>3
    <3>2. ASSUME NEW q \in Row, NEW c \in {0} \cup Revisions
          PROVE  [q EXCEPT !.current = c] \in Row
      BY DEF Row
    <3>3. ASSUME NEW a \in Status, NEW c \in {0} \cup Revisions
          PROVE  [r.copy EXCEPT !.status = a, !.quiet = 0, !.current = c] \in Row
      BY <1>3, <3>1, <3>2
    <3> QED
      BY <3>3
  <2>3. mine \in Row
    BY <1>5, <2>1, <2>2
  <2> QED
    BY <1>3, <2>3 DEF Row
<1>8. new.copy = mine
  BY <1>3 DEF Tx, Row
<1> HIDE DEF mine
<1>9. /\ new.phase = "loaded" /\ new.job = tx[t].job /\ new.forgot = tx[t].forgot
      /\ new.dirty = r.dirty \cup more
      /\ new.fresh = IF page THEN tx[t].fresh \cup {next} ELSE tx[t].fresh
  BY <1>2, <1>3 DEF Tx, more
<1>10. new \in Tx
  <2>1. r.dirty \cup more \subseteq Columns
    BY <1>3, <1>6 DEF Tx
  <2>2. (IF page THEN tx[t].fresh \cup {next} ELSE tx[t].fresh) \subseteq Revisions
    BY <1>1, <1>4 DEF Tx
  <2>3. new = [r EXCEPT !.copy = mine, !.dirty = r.dirty \cup more,
                        !.fresh = IF page THEN tx[t].fresh \cup {next} ELSE tx[t].fresh]
    BY <1>3 DEF Tx, Row, mine, more
  <2> HIDE DEF new
  <2> QED
    BY <1>3, <1>7, <2>1, <2>2, <2>3 DEF Tx
<1> HIDE DEF new
<1>11. "current" \in new.dirty => /\ new.copy.current >= row.current
                                  /\ new.fresh = (row.current + 1)..new.copy.current
  <2>1. CASE page
    <3>1. tx[t].copy.current >= row.current
          /\ tx[t].fresh = (row.current + 1)..tx[t].copy.current
      BY <2>1, ClaimedNext
    <3>2. (row.current + 1)..(tx[t].copy.current + 1)
             = ((row.current + 1)..tx[t].copy.current) \cup {tx[t].copy.current + 1}
      BY <1>1, <3>1
    <3>3. new.copy.current = tx[t].copy.current + 1
          /\ new.fresh = tx[t].fresh \cup {tx[t].copy.current + 1}
      BY <2>1, <1>7, <1>8, <1>9 DEF next
    <3> QED
      BY <1>1, <3>1, <3>2, <3>3
  <2>2. CASE ~page
    BY <1>1, <1>3, <1>6, <1>7, <1>8, <1>9, <2>2 DEF TurnOK
  <2> QED
    BY <2>1, <2>2
<1>12. "current" \notin new.dirty => new.fresh = {}
  BY <1>1, <1>3, <1>6, <1>9 DEF TurnOK
<1>13. "revoked" \in new.dirty => (row.revoked => new.copy.revoked)
  BY <1>1, <1>3, <1>6, <1>7, <1>8, <1>9 DEF TurnOK
<1>14. row.status = "absent" => new.dirty = Columns
  BY <1>1, <1>2, <1>3, <1>6, <1>9, <1>10 DEF TurnOK, Tx
<1>15. ~Shut
  BY <1>1, <1>2 DEF Shut
<1>16. edits' \in 0..MaxEdits /\ edits' >= edits /\ new.copy.current <= edits' + 1
  BY <1>1, <1>2, <1>3, <1>4, <1>7, <1>8
<1> QED
  BY <1>1, <1>2, <1>5, <1>7, <1>8, <1>9, <1>10, <1>11, <1>12, <1>13, <1>14, <1>15, <1>16,
     Directive DEF TurnOK

\* A claim that fails reloads the row; the turn has not stored a page then.
LEMMA RefusedKeeps ==
    ASSUME Inv, NEW t \in Turns, NEW extend \in BOOLEAN, Update(t, TRUE, extend), ~Claims(t)
    PROVE  Onward
<1> DEFINE dirty == IF holder = t THEN tx[t].dirty ELSE {}
           mine == [tx[t].copy EXCEPT !.status = Merged(t).status,
                                      !.current = Merged(t).current]
           new == [tx[t] EXCEPT !.copy.status = Merged(t).status,
                                !.copy.current = Merged(t).current,
                                !.dirty = IF holder = t THEN @ ELSE {}]
<1>1. TurnOK(t) /\ tx[t] \in Tx /\ tx[t].copy \in Row /\ t \in Sessions
      /\ tx[t].copy.current \in Nat /\ row.current \in Nat /\ edits \in Nat /\ MaxEdits \in Nat
      /\ tx[t].copy.current <= edits + 1 /\ row.current <= edits + 1 /\ row \in Row
      /\ tx \in [Sessions -> Tx]
  BY TurnFacts
<1>2. /\ tx[t].phase = "loaded" /\ edits < MaxEdits /\ tx[t].copy.status \in Live
      /\ tx' = [tx EXCEPT ![t] = new] /\ holder' = holder
      /\ edits' = edits + 1 /\ UNCHANGED <<row, store, ai, published>>
  BY <1>1 DEF Update
<1>3. "current" \notin tx[t].dirty
  BY MergedIs DEF Claims
<1>4. Merged(t).current = row.current
      /\ Merged(t).status \in {row.status, tx[t].copy.status}
  BY <1>3, MergedIs
<1>5. row.status # "absent"
  BY <1>1, <1>2, <1>3 DEF TurnOK, Columns
<1>6. Merged(t).status \in Status /\ Merged(t).status # "absent"
  BY <1>1, <1>2, <1>4, <1>5 DEF Row, TurnOK
<1>7. mine \in Row /\ mine.current = row.current /\ mine.status = Merged(t).status
      /\ mine.revoked = tx[t].copy.revoked /\ mine.expiry = tx[t].copy.expiry
  BY <1>1, <1>4, <1>6 DEF Row
<1>8. new.copy = mine
  BY <1>1 DEF Tx, Row
<1> HIDE DEF mine
<1>9. dirty \subseteq tx[t].dirty
  OBVIOUS
<1>10. /\ new.phase = "loaded" /\ new.job = tx[t].job /\ new.forgot = tx[t].forgot
       /\ new.dirty = dirty /\ new.fresh = tx[t].fresh
  BY <1>1, <1>2 DEF Tx
<1>11. new \in Tx
  <2>1. new = [tx[t] EXCEPT !.copy = mine, !.dirty = dirty]
    BY <1>1 DEF Tx, Row, mine
  <2>2. dirty \subseteq Columns
    BY <1>1, <1>9 DEF Tx
  <2> HIDE DEF new, dirty
  <2> QED
    BY <1>1, <1>7, <2>1, <2>2 DEF Tx
<1> HIDE DEF new
<1>12. "revoked" \in new.dirty => holder' = t /\ (row.revoked => new.copy.revoked)
  BY <1>1, <1>2, <1>7, <1>8, <1>10 DEF TurnOK
<1> HIDE DEF dirty
<1>13. "current" \notin new.dirty /\ new.fresh = {}
  BY <1>1, <1>3, <1>9, <1>10 DEF TurnOK
<1>14. ~Shut
  BY <1>1, <1>2 DEF Shut
<1>15. edits' \in 0..MaxEdits /\ edits' >= edits /\ new.copy.current <= edits' + 1
  BY <1>1, <1>2, <1>7, <1>8
<1> QED
  BY <1>1, <1>2, <1>5, <1>6, <1>7, <1>8, <1>10, <1>11, <1>12, <1>13, <1>14, <1>15,
     Directive DEF TurnOK

\* So whatever an update does keeps the invariant.
LEMMA UpdateKeeps ==
    ASSUME Inv, NEW t \in Turns, NEW page \in BOOLEAN, NEW extend \in BOOLEAN,
           Update(t, page, extend)
    PROVE  Onward
<1>1. CASE page /\ ~Claims(t)
  <2>1. Update(t, TRUE, extend)
    BY <1>1
  <2> QED
    BY <1>1, <2>1, RefusedKeeps
<1> QED
  BY <1>1, AcceptedKeeps

\* An update that fails may leave its revision taken back, with nothing stored.
LEMMA UpdateFailsKeeps ==
    ASSUME Inv, NEW t \in Turns, NEW extend \in BOOLEAN, UpdateFails(t, extend)
    PROVE  Onward
<1> DEFINE r == Touched(t, extend)
           undone == [r EXCEPT !.copy.current = Restored(@), !.dirty = @ \cup {"current"}]
<1>1. TurnOK(t) /\ tx[t] \in Tx /\ tx[t].copy \in Row /\ t \in Sessions
      /\ tx[t].copy.current \in Nat /\ row.current \in Nat /\ edits \in Nat /\ MaxEdits \in Nat
      /\ tx[t].copy.current <= edits + 1 /\ row.current <= edits + 1
      /\ tx[t].dirty \subseteq Columns
  BY TurnFacts
<1>2. /\ tx[t].phase = "loaded" /\ edits < MaxEdits /\ tx[t].copy.status \in Live
      /\ edits' = edits + 1 /\ UNCHANGED <<row, store, ai, published>>
  BY DEF UpdateFails
<1>3. \/ tx' = [tx EXCEPT ![t] = r] /\ holder' = holder
      \/ Unlocked(t) /\ Claims(t) /\ tx' = [tx EXCEPT ![t] = undone] /\ holder' = t
  BY DEF UpdateFails
<1>4. /\ r \in Tx /\ r.copy \in Row
      /\ r.phase = tx[t].phase /\ r.job = tx[t].job
      /\ r.fresh = tx[t].fresh /\ r.forgot = tx[t].forgot
      /\ r.copy.status = tx[t].copy.status /\ r.copy.revoked = tx[t].copy.revoked
      /\ r.copy.current = tx[t].copy.current /\ r.copy.expiry = "ahead"
      /\ r.dirty = tx[t].dirty \cup (IF extend THEN {"expiry"} ELSE {})
  BY TouchedIs DEF Tx
<1> HIDE DEF r
<1>5. edits' \in 0..MaxEdits /\ edits' >= edits /\ r.copy.current <= edits' + 1
  BY <1>1, <1>2, <1>4
<1>6. ~Shut
  BY <1>1, <1>2 DEF Shut
<1>7. row.status = "absent" => r.dirty = Columns
  BY <1>1, <1>2, <1>4 DEF TurnOK, Columns
<1>8. /\ "revoked" \in r.dirty <=> "revoked" \in tx[t].dirty
      /\ "current" \in r.dirty <=> "current" \in tx[t].dirty
  BY <1>4
<1>9. "revoked" \in r.dirty => holder = t /\ (row.revoked => r.copy.revoked)
  BY <1>1, <1>4, <1>8 DEF TurnOK
<1>10. CASE tx' = [tx EXCEPT ![t] = r] /\ holder' = holder
  BY <1>1, <1>2, <1>4, <1>5, <1>6, <1>7, <1>8, <1>9, <1>10, Directive DEF TurnOK
<1>11. CASE Unlocked(t) /\ Claims(t) /\ tx' = [tx EXCEPT ![t] = undone] /\ holder' = t
  <2>1. undone \in Tx /\ undone.phase = r.phase /\ undone.job = r.job
        /\ undone.copy = r.copy /\ undone.fresh = r.fresh /\ undone.forgot = r.forgot
        /\ undone.dirty = r.dirty \cup {"current"}
    BY <1>4 DEF Restored, Tx, Row, Columns
  <2> HIDE DEF undone
  <2>2. undone.copy.current >= row.current
        /\ undone.fresh = (row.current + 1)..undone.copy.current
    BY <1>4, <1>11, <2>1, ClaimedNext
  <2>3. row.status = "absent" => undone.dirty = Columns
    BY <1>7, <2>1 DEF Columns
  <2>4. "revoked" \in undone.dirty => holder' = t /\ (row.revoked => undone.copy.revoked)
    BY <1>9, <1>11, <2>1
  <2>5. undone.forgot = {} /\ undone.job = tx[t].job /\ undone.phase = "loaded"
        /\ undone.copy.expiry = "ahead" /\ undone.copy.status # "absent"
        /\ undone.copy.current <= edits' + 1 /\ "current" \in undone.dirty
    BY <1>1, <1>2, <1>4, <1>5, <2>1 DEF TurnOK
  <2> QED
    BY <1>2, <1>5, <1>6, <1>11, <2>1, <2>2, <2>3, <2>4, <2>5, Directive
<1> QED
  BY <1>3, <1>10, <1>11
-----------------------------------------------------------------------------
(* Sessions that end, and sessions that begin. *)

\* A session whose work is dropped.
LEMMA RollbackKeeps ==
    ASSUME Inv, NEW s \in Sessions, Rollback(s), edits' = edits
    PROVE  Onward
<1>1. tx' \in [Sessions -> Tx] /\ tx'[s] = IdleTx
      /\ \A r \in Sessions \ {s} : tx'[r] = tx[r]
  BY IdleTxIs DEF Rollback, Inv, TypeOK
<1>2. UNCHANGED <<row, store, ai, published>>
  BY DEF Rollback
<1>3. holder' \in Sessions \cup {None} /\ \A r \in Sessions \ {s} : holder = r => holder' = r
  BY DEF Rollback, Inv, TypeOK
<1>4. edits' \in 0..MaxEdits /\ edits' >= edits
  BY Types DEF Inv
<1>5. tx'[s].copy.current <= edits' + 1 /\ tx'[s].copy.status \notin Live
      /\ tx'[s].job = None /\ tx'[s].forgot = {}
  BY <1>1, <1>4, IdleTxIs, Types DEF Inv, Live
<1> QED
  BY <1>1, <1>2, <1>3, <1>4, <1>5, OverOK, LocalStep

\* The copy a load makes of a row.
LEMMA LoadedRow ==
    ASSUME Inv
    PROVE  /\ [NoRow EXCEPT !.status = row.status] \in Row
           /\ [NoRow EXCEPT !.status = row.status, !.current = row.current] \in Row
<1>1. row.status \in Status /\ row.current \in {0} \cup Revisions
  BY Types DEF Inv, Row
<1>2. \A q \in Row, c \in {0} \cup Revisions : [q EXCEPT !.current = c] \in Row
  BY DEF Row
<1>3. \A q \in Row, a \in Status : [q EXCEPT !.status = a] \in Row
  BY DEF Row
<1>4. [NoRow EXCEPT !.status = row.status, !.current = row.current]
        = [[NoRow EXCEPT !.status = row.status] EXCEPT !.current = row.current]
  OBVIOUS
<1> QED
  BY <1>1, <1>2, <1>3, <1>4, IdleTxIs

\* A request, or the recovery loop, loads the row and has changed nothing yet.
LEMMA LoadKeeps ==
    ASSUME Inv, NEW s \in Visits \cup {"recovery"}, NEW ph, NEW mine \in Row,
           tx[s].phase = "idle",
           \/ ph \in {"closing", "granted"} /\ s \in Visits
           \/ ph \in {"expiring", "quieting"} /\ s = "recovery",
           mine.status = row.status, mine.current \in {0, row.current},
           ph \in {"granted", "quieting"} => row.status \in Live,
           tx' = [tx EXCEPT ![s].phase = ph, ![s].copy = mine],
           UNCHANGED <<row, store, ai, holder, published, edits>>
    PROVE  Onward
<1> DEFINE new == [tx[s] EXCEPT !.phase = ph, !.copy = mine]
<1>1. s \in Sessions /\ s \notin Turns /\ (s \in Visits <=> s # "recovery")
  BY Kinds
<1>2. SessionOK(s) /\ tx[s] \in Tx /\ tx \in [Sessions -> Tx]
  BY <1>1, Types DEF Inv, SessionsOK, TypeOK
<1>3. tx[s].dirty = {} /\ tx[s].fresh = {} /\ tx[s].forgot = {}
  BY <1>1, <1>2 DEF SessionOK, VisitOK, CycleOK, cycle
<1>4. new \in Tx /\ new.phase = ph /\ new.copy = mine
      /\ new.dirty = {} /\ new.fresh = {} /\ new.forgot = {}
  BY <1>2, <1>3 DEF Tx
<1>5. tx' = [tx EXCEPT ![s] = new]
  BY <1>1 DEF Inv, TypeOK
<1> HIDE DEF new
<1>6. tx' \in [Sessions -> Tx] /\ tx'[s] = new
      /\ \A r \in Sessions \ {s} : tx'[r] = tx[r]
  BY <1>1, <1>2, <1>4, <1>5
<1>7. SessionOK(s)'
  BY <1>1, <1>4, <1>6 DEF SessionOK, VisitOK, CycleOK, cycle
<1>8. edits' \in 0..MaxEdits /\ edits' >= edits /\ tx'[s].copy.current <= edits' + 1
  BY <1>4, <1>6, Types DEF Inv, Bounded
<1>9. Shut => tx'[s].copy.status \notin Live
  BY <1>4, <1>6 DEF Shut
<1>10. holder' \in Sessions \cup {None} /\ holder' = holder
  BY DEF Inv, TypeOK
<1> QED
  BY <1>1, <1>4, <1>6, <1>7, <1>8, <1>9, <1>10, LocalStep

\* The first row of a request.
LEMMA ResolveKeeps ==
    ASSUME Inv, NEW v \in Visits, Resolve(v)
    PROVE  Onward
<1> DEFINE brief == [NoRow EXCEPT !.status = row.status]
           full == [NoRow EXCEPT !.status = row.status, !.current = row.current]
<1>1. brief \in Row /\ brief.status = row.status /\ brief.current = 0
  BY LoadedRow, IdleTxIs DEF Row
<1>2. full \in Row /\ full.status = row.status /\ full.current = row.current
  BY LoadedRow, IdleTxIs DEF Row
<1>3. tx[v].phase = "idle" /\ row.status \in Live
      /\ UNCHANGED <<row, store, ai, holder, published, edits>>
  BY DEF Resolve
<1>4. \/ tx' = [tx EXCEPT ![v].phase = "closing", ![v].copy = brief]
      \/ tx' = [tx EXCEPT ![v].phase = "granted", ![v].copy = full]
  BY DEF Resolve, Load, LoadStatus
<1> HIDE DEF brief, full
<1>5. CASE tx' = [tx EXCEPT ![v].phase = "closing", ![v].copy = brief]
  BY <1>1, <1>3, <1>5, LoadKeeps
<1>6. CASE tx' = [tx EXCEPT ![v].phase = "granted", ![v].copy = full]
  BY <1>2, <1>3, <1>6, LoadKeeps
<1> QED
  BY <1>4, <1>5, <1>6

\* The rows a recovery cycle looks at.
LEMMA SelectKeeps ==
    ASSUME Inv, SelectDue \/ SelectQuiet
    PROVE  Onward
<1> DEFINE brief == [NoRow EXCEPT !.status = row.status]
<1>1. brief \in Row /\ brief.status = row.status /\ brief.current = 0
  BY LoadedRow, IdleTxIs DEF Row
<1>2. tx["recovery"].phase = "idle" /\ UNCHANGED <<row, store, ai, holder, published, edits>>
  BY DEF SelectDue, SelectQuiet, cycle
<1>3. row.status \in Live
  BY DEF SelectDue, SelectQuiet, Due, Live
<1>4. \/ tx' = [tx EXCEPT !["recovery"].phase = "expiring", !["recovery"].copy = brief]
      \/ tx' = [tx EXCEPT !["recovery"].phase = "quieting", !["recovery"].copy = brief]
  BY DEF SelectDue, SelectQuiet, LoadStatus
<1> HIDE DEF brief
<1> QED
  BY <1>1, <1>2, <1>3, <1>4, LoadKeeps

\* A cycle that has seen a live surface writes what follows on its status.
LEMMA StatusKeeps ==
    ASSUME Inv, NEW status \in Status, cycle.phase \in {"expiring", "quieting"},
           status # "absent", Shut => status \notin Live, Unlocked("recovery"),
           tx' = [tx EXCEPT !["recovery"] = [@ EXCEPT !.phase = "ending",
                    !.copy.status = status, !.dirty = {"status"}]],
           holder' = "recovery",
           UNCHANGED <<row, store, ai, published, edits>>
    PROVE  Onward
<1> DEFINE s == "recovery"
           mine == [tx[s].copy EXCEPT !.status = status]
           new == [tx[s] EXCEPT !.phase = "ending", !.copy = mine, !.dirty = {"status"}]
<1>1. s \in Sessions /\ s \notin Turns /\ s \notin Visits
  BY Kinds
<1>2. CycleOK /\ tx[s] \in Tx /\ tx[s].copy \in Row
  BY <1>1, Types DEF Inv, SessionsOK, SessionOK
<1>3. mine \in Row /\ mine.status = status /\ mine.current = tx[s].copy.current
  BY <1>2 DEF Row
<1>4. new = [tx[s] EXCEPT !.phase = "ending", !.copy.status = status, !.dirty = {"status"}]
  BY <1>2 DEF Tx, Row
<1> HIDE DEF mine
<1>5. new \in Tx /\ new.phase = "ending" /\ new.copy = mine
      /\ new.dirty = {"status"} /\ new.fresh = tx[s].fresh /\ new.forgot = tx[s].forgot
  BY <1>2, <1>3 DEF Tx, Columns
<1>6. tx' = [tx EXCEPT ![s] = new]
  BY <1>1, <1>4 DEF Inv, TypeOK
<1> HIDE DEF new
<1>7. tx' \in [Sessions -> Tx] /\ tx'[s] = new
      /\ \A r \in Sessions \ {s} : tx'[r] = tx[r]
  BY <1>1, <1>5, <1>6 DEF Inv, TypeOK
<1>8. tx[s].fresh = {} /\ tx[s].forgot = {}
  BY <1>2 DEF CycleOK, cycle
<1>9. SessionOK(s)'
  BY <1>1, <1>3, <1>5, <1>7, <1>8 DEF SessionOK, CycleOK, cycle
<1>10. edits' \in 0..MaxEdits /\ edits' >= edits /\ tx'[s].copy.current <= edits' + 1
  BY <1>1, <1>3, <1>5, <1>7, Types DEF Inv, Bounded
<1>11. holder' \in Sessions \cup {None} /\ \A r \in Sessions \ {s} : holder = r => holder' = r
  BY <1>1, Kinds DEF Unlocked
<1> QED
  BY <1>1, <1>3, <1>5, <1>7, <1>8, <1>9, <1>10, <1>11, LocalStep

\* expire_due and mark_idle_dormant.
LEMMA ExpireKeeps ==
    ASSUME Inv, Expire \/ MarkQuiet
    PROVE  Onward
<1>1. CASE Expire
  <2>1. "expired" \in Status /\ "expired" \notin Live
    BY DEF Status, Live
  <2> QED
    BY <1>1, <2>1, StatusKeeps DEF Expire
<1>2. CASE MarkQuiet
  <2> DEFINE quieter == Quieter(cycle.copy.status)
  <2>1. quieter \in Status /\ quieter # "absent"
    BY DEF Quieter, Status, Live
  <2>2. tx' = [tx EXCEPT !["recovery"] = [@ EXCEPT !.phase = "ending",
                    !.copy.status = quieter, !.dirty = {"status"}]]
    BY <1>2 DEF MarkQuiet
  <2>3. ~Shut
    BY <1>2, Kinds DEF MarkQuiet, Inv, SessionsOK, SessionOK, CycleOK, Shut, cycle
  <2> HIDE DEF quieter
  <2> QED
    BY <1>2, <2>1, <2>2, <2>3, StatusKeeps DEF MarkQuiet
<1> QED
  BY <1>1, <1>2

\* A request that found no answer with its key goes on to store one.
LEMMA AskKeeps ==
    ASSUME Inv, NEW v \in Visits, NEW k \in Keys, Ask(v, k)
    PROVE  Onward
<1> DEFINE asking == [IdleTx EXCEPT !.phase = "asking", !.job = k]
           new == IF asks[k] = "none" THEN asking ELSE IdleTx
<1>1. asking \in Tx /\ asking.phase = "asking" /\ asking.job = k /\ asking.copy = NoRow
      /\ asking.dirty = {} /\ asking.fresh = {} /\ asking.forgot = {}
  BY IdleTxIs DEF Tx
<1> HIDE DEF asking
<1>2. new \in Tx /\ new.phase \in {"idle", "asking"} /\ (new.phase = "asking" => new.job \in Keys)
      /\ new.copy = NoRow /\ new.dirty = {} /\ new.fresh = {} /\ new.forgot = {}
  BY <1>1, IdleTxIs
<1>3. tx' = [tx EXCEPT ![v] = new] /\ UNCHANGED <<row, store, ai, holder, published, edits>>
  BY DEF Ask, asking
<1> HIDE DEF new
<1>4. v \in Sessions /\ v \notin Turns /\ v # "recovery"
  BY Kinds
<1>5. tx' \in [Sessions -> Tx] /\ tx'[v] = new
      /\ \A r \in Sessions \ {v} : tx'[r] = tx[r]
  BY <1>2, <1>3, <1>4 DEF Inv, TypeOK
<1>6. SessionOK(v)'
  BY <1>2, <1>4, <1>5 DEF SessionOK, VisitOK
<1>7. edits' \in 0..MaxEdits /\ edits' >= edits /\ tx'[v].copy.current <= edits' + 1
      /\ tx'[v].copy.status \notin Live
  BY <1>2, <1>3, <1>5, IdleTxIs, Types DEF Inv, Live
<1>8. holder' \in Sessions \cup {None} /\ holder' = holder
  BY <1>3 DEF Inv, TypeOK
<1> QED
  BY <1>3, <1>4, <1>5, <1>6, <1>7, <1>8, LocalStep
-----------------------------------------------------------------------------
(* Steps that change the row and end a request, or are time. *)

\* A change of the row that no turn's revision or revocation rests on.
LEMMA RowStep ==
    ASSUME Inv, row' \in Row,
           row'.current = row.current, row'.revoked = row.revoked,
           row'.status = "absent" => row' = NoRow /\ row.status = "absent",
           row'.expiry = "graced" => row.expiry = "graced" \/ Shut',
           Shut => row'.status \notin Live,
           tx' \in [Sessions -> Tx],
           \A r \in Sessions : tx'[r] = tx[r] \/ tx'[r] = IdleTx,
           holder' = holder, UNCHANGED <<store, published, edits>>,
           asks' \in [Keys -> {"none", "accepted", "completed"}],
           jobs' \in [Keys -> Nat], answers' \in [Keys -> Nat],
           \A k \in Keys : jobs'[k] >= jobs[k],
           AsksOK'
    PROVE  Onward
<1>1. TypeOK'
  BY DEF Inv, TypeOK, store
<1>2. SessionsOK'
  <2>1. ASSUME NEW r \in Sessions PROVE SessionOK(r)'
    <3>1. CASE tx'[r] = IdleTx
      BY <3>1, OverOK
    <3>2. CASE tx'[r] = tx[r]
      <4>1. ASSUME r \in Turns, tx[r].job # None PROVE jobs'[tx[r].job] > 0
        <5>1. TurnOK(r) /\ tx[r].job \in Keys
          BY <4>1, TurnFacts DEF Tx
        <5>2. jobs[tx[r].job] > 0 /\ jobs[tx[r].job] \in Nat /\ jobs'[tx[r].job] \in Nat
          BY <4>1, <5>1 DEF TurnOK, Inv, TypeOK
        <5> QED
          BY <5>1, <5>2
      <4>2. r \in Sessions \ {None}
        BY Kinds
      <4> QED
        BY <3>2, <4>1, <4>2, OthersKept
    <3> QED
      BY <3>1, <3>2
  <2> QED
    BY <2>1 DEF SessionsOK
<1>3. JobsApart'
  <2>1. ASSUME NEW t \in Turns, NEW u \in Turns, t # u, tx'[t].job # None
        PROVE  tx'[t].job # tx'[u].job
    <3>1. tx'[t] = tx[t] /\ (tx'[u] = tx[u] \/ tx'[u].job = None)
      BY <2>1, Kinds, IdleTxIs
    <3> QED
      BY <2>1, <3>1 DEF Inv, JobsApart
  <2> QED
    BY <2>1 DEF JobsApart
<1>4. Bounded'
  <2>1. \A r \in Sessions : tx'[r].copy.current <= edits + 1
    BY IdleTxIs, Types DEF Inv, Bounded
  <2> QED
    BY <2>1 DEF Inv, Bounded
<1>5. Shut => Shut'
  BY IdleTxIs DEF Shut, Live
<1>6. RowOK' /\ EveryPageCounts'
  BY <1>5 DEF Inv, RowOK, EveryPageCounts
<1>7. PagesOK'
  BY <1>5, Kinds, IdleTxIs DEF Inv, PagesOK, store
<1>8. row'.current >= row.current
  BY Types DEF Inv
<1> QED
  BY <1>1, <1>2, <1>3, <1>4, <1>5, <1>6, <1>7, <1>8 DEF Inv, Onward

\* The marks of time.
LEMMA TimeKeeps ==
    ASSUME Inv, Grow \/ Ripen
    PROVE  Onward
<1>1. row \in Row /\ tx \in [Sessions -> Tx] /\ row.status # "absent"
  BY DEF Inv, TypeOK, Grow, Ripen
<1>2. UNCHANGED <<store, ai, tx, holder, published, edits>>
  BY DEF Grow, Ripen
<1>3. asks' \in [Keys -> {"none", "accepted", "completed"}]
      /\ jobs' \in [Keys -> Nat] /\ answers' \in [Keys -> Nat]
      /\ \A k \in Keys : jobs'[k] >= jobs[k]
  BY <1>2 DEF Inv, TypeOK, ai
<1>4. AsksOK'
  BY <1>2 DEF Inv, AsksOK, ai
<1>5. CASE Grow
  <2>1. row' = [row EXCEPT !.quiet = row.quiet + 1] /\ row.quiet + 1 \in 0..2
    BY <1>5 DEF Grow
  <2>2. row' \in Row /\ row'.current = row.current /\ row'.revoked = row.revoked
        /\ row'.status = row.status /\ row'.expiry = row.expiry
    BY <1>1, <2>1 DEF Row
  <2> QED
    BY <1>1, <1>2, <1>3, <1>4, <2>2, RowStep DEF Shut
<1>6. CASE Ripen
  <2>1. PICK mark \in {"due", "graced"} :
            /\ row' = [row EXCEPT !.expiry = mark]
            /\ mark = "graced" => /\ row.status \notin Live
                                  /\ \A s \in Sessions : tx[s].copy.status \notin Live
    BY <1>6 DEF Ripen
  <2>2. row' \in Row /\ row'.current = row.current /\ row'.revoked = row.revoked
        /\ row'.status = row.status /\ row'.expiry = mark
    BY <1>1, <2>1 DEF Row
  <2>3. mark = "graced" => Shut'
    BY <1>1, <1>2, <2>1, <2>2 DEF Shut
  <2> QED
    BY <1>1, <1>2, <1>3, <1>4, <2>2, <2>3, RowStep DEF Shut
<1> QED
  BY <1>5, <1>6

\* A request that writes one or two columns as it ends.
LEMMA VisitWrites ==
    ASSUME Inv, NEW v \in Visits, NEW status \in Status, NEW quiet \in 0..2,
           row' = [row EXCEPT !.status = status, !.quiet = quiet],
           Shut => status \notin Live,
           status = "absent" => row.status = "absent" /\ quiet = 0,
           tx' = [tx EXCEPT ![v] = IdleTx],
           UNCHANGED <<store, holder, published, edits>>,
           asks' \in [Keys -> {"none", "accepted", "completed"}],
           jobs' \in [Keys -> Nat], answers' \in [Keys -> Nat],
           \A k \in Keys : jobs'[k] >= jobs[k],
           AsksOK'
    PROVE  Onward
<1>1. row \in Row /\ tx \in [Sessions -> Tx]
  BY DEF Inv, TypeOK
<1>2. row' \in Row /\ row'.current = row.current /\ row'.revoked = row.revoked
      /\ row'.status = status /\ row'.expiry = row.expiry
  <2>1. \A q \in Row : [q EXCEPT !.status = status] \in Row
    BY DEF Row
  <2>2. \A q \in Row : [q EXCEPT !.quiet = quiet] \in Row
    BY DEF Row
  <2>3. row' = [[row EXCEPT !.status = status] EXCEPT !.quiet = quiet]
    BY <1>1 DEF Row
  <2> QED
    BY <1>1, <2>1, <2>2, <2>3 DEF Row
<1>3. status = "absent" => row' = NoRow
  <2>1. status = "absent" => row = NoRow /\ row.status = status /\ row.quiet = quiet
    BY IdleTxIs DEF Inv, RowOK, NoRow
  <2>2. row = [row EXCEPT !.status = row.status, !.quiet = row.quiet]
    BY <1>1 DEF Row
  <2> QED
    BY <2>1, <2>2
<1>4. tx' \in [Sessions -> Tx] /\ \A r \in Sessions : tx'[r] = tx[r] \/ tx'[r] = IdleTx
  BY <1>1, IdleTxIs
<1> QED
  BY <1>2, <1>3, <1>4, RowStep

\* The gateway's writes.
LEMMA VisitKeeps ==
    ASSUME Inv, NEW v \in Visits, MarkExpired(v) \/ Serve(v) \/ PostEvent(v)
    PROVE  Onward
<1>1. row \in Row /\ row.status \in Status /\ row.quiet \in 0..2 /\ VisitOK(v) /\ v \in Sessions
      /\ (row.status = "absent" => row.quiet = 0)
  BY Kinds DEF Inv, TypeOK, Row, SessionsOK, SessionOK, RowOK, NoRow
<1>2. tx' = [tx EXCEPT ![v] = IdleTx] /\ UNCHANGED <<store, ai, holder, published, edits>>
  BY DEF MarkExpired, Serve, PostEvent
<1>3. /\ asks' \in [Keys -> {"none", "accepted", "completed"}]
      /\ jobs' \in [Keys -> Nat] /\ answers' \in [Keys -> Nat]
      /\ \A k \in Keys : jobs'[k] >= jobs[k]
      /\ AsksOK'
  BY <1>2 DEF Inv, TypeOK, ai, AsksOK
<1>4. row = [row EXCEPT !.status = row.status, !.quiet = row.quiet]
  BY <1>1 DEF Row
<1>5. CASE MarkExpired(v)
  <2>1. row' = [row EXCEPT !.status = "expired", !.quiet = row.quiet]
    BY <1>1, <1>5 DEF MarkExpired, Row
  <2>2. "expired" \in Status \ (Live \cup {"absent"})
    BY DEF Status, Live
  <2> QED
    BY <1>1, <1>2, <1>3, <2>1, <2>2, VisitWrites
<1>6. (Shut => row.status \notin Live) /\ 0 \in 0..2
  BY DEF Shut
<1>7. CASE Serve(v)
  <2>1. CASE UNCHANGED row
    BY <1>1, <1>2, <1>3, <1>4, <1>6, <2>1, VisitWrites
  <2>2. CASE row' = [row EXCEPT !.quiet = 0, !.status = @]
    <3>1. row' = [row EXCEPT !.status = row.status, !.quiet = 0]
      BY <1>1, <2>2 DEF Row
    <3> QED
      BY <1>1, <1>2, <1>3, <1>6, <3>1, VisitWrites
  <2>3. CASE row' = [row EXCEPT !.quiet = 0, !.status = "active"]
    <3>1. row' = [row EXCEPT !.status = "active", !.quiet = 0]
      BY <1>1, <2>3 DEF Row
    <3>2. "active" \in Status /\ ~Shut
      BY <1>1, <1>7 DEF Serve, VisitOK, Shut, Status, Live
    <3> QED
      BY <1>1, <1>2, <1>3, <1>6, <3>1, <3>2, VisitWrites
  <2> QED
    BY <1>7, <2>1, <2>2, <2>3 DEF Serve
<1>8. CASE PostEvent(v)
  <2>1. row' = [row EXCEPT !.status = row.status, !.quiet = 0]
    BY <1>1, <1>8 DEF PostEvent, Row
  <2> QED
    BY <1>1, <1>2, <1>3, <1>6, <2>1, VisitWrites
<1> QED
  BY <1>5, <1>7, <1>8

\* The request and its Work are stored together, once.
LEMMA AcceptKeeps ==
    ASSUME Inv, NEW v \in Visits, Accept(v)
    PROVE  Onward
<1> DEFINE k == tx[v].job
<1>1. row \in Row /\ row.status \in Status /\ row.quiet \in 0..2 /\ VisitOK(v) /\ v \in Sessions
      /\ (row.status = "absent" => row.quiet = 0) /\ (Shut => row.status \notin Live)
  BY Kinds DEF Inv, TypeOK, Row, SessionsOK, SessionOK, RowOK, NoRow, Shut
<1>2. k \in Keys
  BY <1>1 DEF Accept, VisitOK
<1>3. tx' = [tx EXCEPT ![v] = IdleTx] /\ UNCHANGED <<store, answers, holder, published, edits>>
  BY DEF Accept
<1>4. asks \in [Keys -> {"none", "accepted", "completed"}] /\ jobs \in [Keys -> Nat]
      /\ answers \in [Keys -> Nat] /\ AsksOK
  BY DEF Inv, TypeOK
<1>5. CASE Inserts(k)
  <2>1. asks[k] = "none" /\ asks' = [asks EXCEPT ![k] = "accepted"]
        /\ jobs' = [jobs EXCEPT ![k] = @ + 1] /\ row' = [row EXCEPT !.quiet = 0]
    BY <1>5 DEF Accept, Inserts
  <2> HIDE DEF k
  <2>2. row' = [row EXCEPT !.status = row.status, !.quiet = 0]
    BY <1>1, <2>1 DEF Row
  <2>3. asks' \in [Keys -> {"none", "accepted", "completed"}] /\ jobs' \in [Keys -> Nat]
        /\ answers' \in [Keys -> Nat]
    BY <1>2, <1>3, <1>4, <2>1
  <2>4. \A j \in Keys : jobs'[j] = IF j = k THEN jobs[k] + 1 ELSE jobs[j]
    BY <1>2, <1>4, <2>1
  <2>5. \A j \in Keys : jobs'[j] >= jobs[j]
    BY <1>4, <2>4
  <2>6. AsksOK'
    <3>1. ASSUME NEW j \in Keys
          PROVE  jobs'[j] + answers'[j] = IF asks'[j] = "none" THEN 0 ELSE 1
      <4>1. jobs[j] + answers[j] = IF asks[j] = "none" THEN 0 ELSE 1
        BY <1>4 DEF AsksOK
      <4>2. asks'[j] = IF j = k THEN "accepted" ELSE asks[j]
        BY <1>2, <1>4, <2>1
      <4>3. jobs[j] \in Nat /\ answers[j] \in Nat /\ answers'[j] = answers[j]
        BY <1>3, <1>4
      <4> QED
        BY <2>1, <2>4, <4>1, <4>2, <4>3
    <3> QED
      BY <3>1 DEF AsksOK
  <2>7. 0 \in 0..2
    OBVIOUS
  <2> QED
    BY <1>1, <1>3, <2>2, <2>3, <2>5, <2>6, <2>7, VisitWrites
<1>6. CASE ~Inserts(k)
  <2>1. UNCHANGED <<asks, jobs, row>>
    BY <1>6 DEF Accept
  <2>2. row' = [row EXCEPT !.status = row.status, !.quiet = row.quiet]
    BY <1>1, <2>1 DEF Row
  <2>3. \A j \in Keys : jobs'[j] >= jobs[j]
    BY <1>4, <2>1
  <2>4. AsksOK'
    BY <1>3, <1>4, <2>1 DEF AsksOK
  <2> QED
    BY <1>1, <1>3, <1>4, <2>1, <2>2, <2>3, <2>4, VisitWrites
<1> QED
  BY <1>5, <1>6
-----------------------------------------------------------------------------
(* Cleanup and commit. *)

\* Files go only when no session can open the surface any more.
LEMMA CleanKeeps ==
    ASSUME Inv, Clean
    PROVE  Onward
<1> DEFINE s == "recovery"
<1>1. Shut
  BY DEF Clean, Cleanable, Inv, RowOK
<1>2. PICK outcome \in [uris -> Storage] :
        LET raised == {r \in uris : outcome[r] = "raised"} IN
        /\ bytes' = bytes \ {r \in uris : outcome[r] = "deleted"}
        /\ tx' = [tx EXCEPT ![s] = [IdleTx EXCEPT !.phase = "ending",
                    !.copy.status =
                        IF raised = {} THEN "cleaned" ELSE "cleanup_pending",
                    !.dirty = {"status"},
                    !.forgot = uris \ raised]]
  BY DEF Clean
<1> DEFINE raised == {r \in uris : outcome[r] = "raised"}
           status == IF raised = {} THEN "cleaned" ELSE "cleanup_pending"
           mine == [NoRow EXCEPT !.status = status]
           new == [IdleTx EXCEPT !.phase = "ending", !.copy.status = status,
                                 !.dirty = {"status"}, !.forgot = uris \ raised]
<1>3. status \in Status \ (Live \cup {"absent"})
  BY DEF Status, Live
<1>4. tx' = [tx EXCEPT ![s] = new] /\ UNCHANGED <<row, uris, ai, holder, published, edits>>
  BY <1>2 DEF Clean
<1> HIDE DEF status
<1>5. mine \in Row /\ mine.status = status /\ mine.current = 0
  <2>1. \A q \in Row, a \in Status : [q EXCEPT !.status = a] \in Row
    BY DEF Row
  <2>2. mine \in Row
    BY <1>3, <2>1, IdleTxIs
  <2> QED
    BY <2>2, IdleTxIs DEF Row
<1>6. uris \ raised \subseteq Revisions /\ "status" \in Columns
  BY DEF Inv, TypeOK, Columns
<1>7. new = [IdleTx EXCEPT !.phase = "ending", !.copy = mine, !.dirty = {"status"},
                           !.forgot = uris \ raised]
  BY IdleTxIs DEF Tx, Row
<1> HIDE DEF raised, mine
<1>8. new \in Tx /\ new.phase = "ending" /\ new.copy = mine /\ new.dirty = {"status"}
      /\ new.fresh = {} /\ new.job = None
  BY <1>5, <1>6, <1>7, IdleTxIs DEF Tx
<1> HIDE DEF new
<1>9. s \in Sessions /\ s \notin Turns /\ s \notin Visits /\ tx \in [Sessions -> Tx]
  BY Kinds DEF Inv, TypeOK
<1>10. tx' \in [Sessions -> Tx] /\ tx'[s] = new /\ \A r \in Sessions \ {s} : tx'[r] = tx[r]
  BY <1>4, <1>8, <1>9
<1>11. TypeOK'
  BY <1>2, <1>4, <1>10 DEF Inv, TypeOK, ai
<1>12. SessionsOK'
  <2>1. SessionOK(s)'
    BY <1>3, <1>5, <1>8, <1>9, <1>10 DEF SessionOK, CycleOK, cycle
  <2>2. ASSUME NEW r \in Sessions \ {s} PROVE SessionOK(r)'
    <3>1. r \in Turns /\ tx[r].job # None => jobs'[tx[r].job] > 0
      BY <1>4 DEF Inv, SessionsOK, SessionOK, TurnOK, ai
    <3> QED
      BY <1>4, <1>10, <3>1, OthersKept
  <2> QED
    BY <2>1, <2>2 DEF SessionsOK
<1>13. JobsApart'
  BY <1>9, <1>10, Kinds DEF Inv, JobsApart
<1>14. Bounded'
  BY <1>4, <1>5, <1>8, <1>9, <1>10, Types DEF Inv, Bounded
<1>15. Shut'
  BY <1>1, <1>3, <1>4, <1>5, <1>8, <1>9, <1>10 DEF Shut
<1>16. RowOK' /\ PagesOK' /\ EveryPageCounts' /\ AsksOK'
  BY <1>4, <1>15 DEF Inv, RowOK, PagesOK, EveryPageCounts, AsksOK, ai
<1>17. row' = row /\ row'.current >= row.current
  BY <1>4, Types DEF Inv
<1> QED
  BY <1>11, <1>12, <1>13, <1>14, <1>15, <1>16, <1>17 DEF Inv, Onward

\* A session that may commit has a status to write if the row has none, and
\* writes no expiry but a new one.
LEMMA Committing ==
    ASSUME Inv, NEW s \in Sessions \ Visits,
           s \in Turns => tx[s].phase # "idle", s = "recovery" => tx[s].phase = "ending",
           tx[s].dirty # {} => Unlocked(s)
    PROVE  LET new == Merged(s) IN
           /\ new \in Row
           /\ new.status # "absent" \/ new = row
           /\ new.status = "absent" => row.status = "absent"
           /\ new.expiry = "graced" => row.expiry = "graced"
           /\ Shut => new.status \notin Live \cup {"absent"}
           /\ row.revoked => new.revoked
           /\ \A r \in Sessions \ {s} : holder = r => new = row
           /\ new.current \in Nat /\ new.current >= row.current
           /\ tx[s].fresh = (row.current + 1)..new.current
           /\ new.current <= edits + 1
<1>1. SessionOK(s) /\ TypeOK /\ row \in Row /\ tx[s].copy \in Row /\ row.current \in Nat
      /\ tx[s].copy.current \in Nat
      /\ row.current <= edits + 1 /\ tx[s].copy.current <= edits + 1
  BY Types DEF Inv, SessionsOK, Bounded
<1>2. Merged(s) \in Row /\ (tx[s].dirty = {} => Merged(s) = row)
  BY <1>1, MergedRow
<1>3. \A r \in Sessions \ {s} : holder = r => Merged(s) = row
  BY <1>2, Kinds DEF Unlocked
<1>4. s \in Turns \/ s = "recovery"
  BY DEF Sessions
<1>5. (row.current + 1)..row.current = {}
  BY <1>1
<1> DEFINE new == Merged(s)
<1>6. /\ new.status = (IF "status" \in tx[s].dirty THEN tx[s].copy.status ELSE row.status)
      /\ new.revoked = (IF "revoked" \in tx[s].dirty THEN tx[s].copy.revoked ELSE row.revoked)
      /\ new.expiry = (IF "expiry" \in tx[s].dirty THEN tx[s].copy.expiry ELSE row.expiry)
      /\ new.current = (IF "current" \in tx[s].dirty THEN tx[s].copy.current ELSE row.current)
  BY MergedIs
<1> HIDE DEF new
<1>7. CASE s \in Turns
  <2>1. TurnOK(s) /\ tx[s].phase # "idle"
    BY <1>1, <1>7 DEF SessionOK
  <2>2. new.status # "absent"
    <3>1. row.status = "absent" => "status" \in tx[s].dirty
      BY <2>1 DEF TurnOK, Columns
    <3> QED
      BY <1>6, <2>1, <3>1 DEF TurnOK
  <2>3. new.expiry = "graced" => row.expiry = "graced"
    BY <1>6, <2>1 DEF TurnOK
  <2>4. row.revoked => new.revoked
    BY <1>6, <2>1 DEF TurnOK
  <2>5. new.current >= row.current /\ tx[s].fresh = (row.current + 1)..new.current
    <3>1. CASE "current" \in tx[s].dirty
      BY <1>6, <2>1, <3>1 DEF TurnOK
    <3>2. CASE "current" \notin tx[s].dirty
      <4>1. new.current = row.current /\ tx[s].fresh = {}
        BY <1>6, <2>1, <3>2 DEF TurnOK
      <4> QED
        BY <1>1, <1>5, <4>1
    <3> QED
      BY <3>1, <3>2
  <2>6. Shut => new.status \notin Live
    BY <1>6 DEF Shut
  <2> QED
    BY <1>1, <1>2, <1>3, <1>6, <2>2, <2>3, <2>4, <2>5, <2>6 DEF new
<1>8. CASE s = "recovery"
  <2>1. CycleOK /\ cycle = tx[s] /\ cycle.phase = "ending"
    BY <1>1, <1>8 DEF SessionOK, cycle
  <2>2. new.revoked = row.revoked /\ new.expiry = row.expiry /\ new.current = row.current
    BY <1>6, <2>1 DEF CycleOK
  <2>3. new.status # "absent" \/ new = row
    BY <1>2, <1>6, <2>1 DEF CycleOK, new
  <2>4. new.status = "absent" => row.status = "absent"
    BY <1>6, <2>1 DEF CycleOK
  <2>5. Shut => new.status \notin Live \cup {"absent"}
    BY <1>6, <2>4 DEF Shut
  <2>6. tx[s].fresh = {}
    BY <2>1 DEF CycleOK
  <2> QED
    BY <1>1, <1>2, <1>3, <1>5, <2>2, <2>3, <2>4, <2>5, <2>6 DEF new
<1> QED
  BY <1>4, <1>7, <1>8

\* A commit publishes what the session stored and marks what it has changed.
LEMMA CommitKeeps ==
    ASSUME Inv, NEW s \in Sessions \ Visits, Commit(s), edits' = edits,
           s \in Turns => tx[s].phase # "idle", s = "recovery" => tx[s].phase = "ending",
           asks' \in [Keys -> {"none", "accepted", "completed"}],
           jobs' \in [Keys -> Nat], answers' \in [Keys -> Nat],
           \A r \in Turns \ {s} : tx[r].job # None => jobs'[tx[r].job] > 0,
           AsksOK'
    PROVE  Onward
<1>1. /\ row' = Merged(s) /\ tx' = [tx EXCEPT ![s] = IdleTx]
      /\ uris' = (uris \cup tx[s].fresh) \ tx[s].forgot
      /\ bytes' = bytes \cup tx[s].fresh
      /\ published' = published + Cardinality(tx[s].fresh)
      /\ holder' = IF holder = s THEN None ELSE holder
      /\ tx[s].dirty # {} => Unlocked(s)
  BY DEF Commit
<1>2. /\ row' \in Row /\ (row'.status # "absent" \/ row' = row)
      /\ row'.status = "absent" => row.status = "absent"
      /\ row'.expiry = "graced" => row.expiry = "graced"
      /\ Shut => row'.status \notin Live \cup {"absent"}
      /\ row.revoked => row'.revoked
      /\ \A r \in Sessions \ {s} : holder = r => row' = row
      /\ row'.current \in Nat /\ row'.current >= row.current
      /\ tx[s].fresh = (row.current + 1)..row'.current
      /\ row'.current <= edits + 1
  BY <1>1, Committing, MergedRow DEF Inv
<1>3. tx \in [Sessions -> Tx] /\ row.current \in Nat /\ published \in Nat
      /\ tx[s].fresh \subseteq Revisions /\ edits \in Nat
  BY Types DEF Inv, TypeOK
<1>4. tx' \in [Sessions -> Tx] /\ tx'[s] = IdleTx /\ \A r \in Sessions \ {s} : tx'[r] = tx[r]
  BY <1>1, <1>3, IdleTxIs
<1>5. Cardinality(tx[s].fresh) = row'.current - row.current
  <2>1. Cardinality((row.current + 1)..row'.current)
          = IF row.current + 1 > row'.current THEN 0 ELSE row'.current - (row.current + 1) + 1
    <3>1. \A a, b \in Int : Cardinality(a..b) = IF a > b THEN 0 ELSE b - a + 1
      BY FS_Interval
    <3>2. row.current + 1 \in Int /\ row'.current \in Int
      BY <1>2, <1>3
    <3> QED
      BY <3>1, <3>2
  <2> QED
    BY <1>2, <1>3, <2>1
<1>6. published' \in Nat /\ EveryPageCounts'
  BY <1>1, <1>2, <1>3, <1>5 DEF Inv, EveryPageCounts
<1>7. TypeOK'
  BY <1>1, <1>2, <1>3, <1>4, <1>6 DEF Inv, TypeOK
<1>8. SessionsOK'
  <2>1. ASSUME NEW r \in Sessions \ {s} PROVE SessionOK(r)'
    <3>1. holder = r => holder' = r /\ row'.current = row.current /\ row'.revoked = row.revoked
      BY <1>1, <1>2
    <3> QED
      BY <1>2, <1>4, <3>1, OthersKept
  <2> QED
    BY <1>4, <2>1, OverOK DEF SessionsOK
<1>9. JobsApart'
  <2>1. ASSUME NEW t \in Turns, NEW u \in Turns, t # u, tx'[t].job # None
        PROVE  tx'[t].job # tx'[u].job
    <3>1. tx'[t] = tx[t] /\ (tx'[u] = tx[u] \/ tx'[u].job = None)
      BY <1>4, <2>1, Kinds, IdleTxIs
    <3> QED
      BY <2>1, <3>1 DEF Inv, JobsApart
  <2> QED
    BY <2>1 DEF JobsApart
<1>10. Bounded'
  <2>1. \A r \in Sessions : tx'[r].copy.current <= edits + 1
    BY <1>3, <1>4, IdleTxIs DEF Inv, Bounded
  <2> QED
    BY <1>2, <2>1 DEF Bounded
<1>11. Shut => Shut'
  BY <1>2, <1>4, IdleTxIs DEF Shut, Live
<1>12. RowOK'
  BY <1>2, <1>11 DEF Inv, RowOK
<1>13. PagesOK'
  <2>1. CASE Shut
    BY <1>11, <2>1 DEF PagesOK
  <2>2. CASE ~Shut
    <3>1. uris = 1..row.current /\ uris \subseteq bytes /\ tx["recovery"].forgot = {}
      BY <2>2 DEF Inv, PagesOK
    <3>2. tx[s].forgot = {}
      BY <3>1 DEF Inv, SessionsOK, SessionOK, TurnOK, Sessions
    <3>3. 1..row'.current = (1..row.current) \cup ((row.current + 1)..row'.current)
      BY <1>2, <1>3
    <3>4. uris' = 1..row'.current /\ uris' \subseteq bytes'
      BY <1>1, <1>2, <3>1, <3>2, <3>3
    <3>5. tx'["recovery"].forgot = {}
      BY <1>4, <3>1, Kinds, IdleTxIs
    <3> QED
      BY <3>4, <3>5 DEF PagesOK
  <2> QED
    BY <2>1, <2>2
<1> QED
  BY <1>2, <1>6, <1>7, <1>8, <1>9, <1>10, <1>11, <1>12, <1>13 DEF Inv, Onward

\* A turn that ends has answered its request, which nobody else does.
LEMMA EndTurnKeeps ==
    ASSUME Inv, NEW t \in Turns, EndTurn(t)
    PROVE  Onward
<1> DEFINE k == tx[t].job
<1>1. Commit(t) /\ edits' = edits /\ tx[t].phase # "idle" /\ t \in Sessions \ Visits
      /\ t # "recovery"
  BY Kinds DEF EndTurn
<1>2. asks \in [Keys -> {"none", "accepted", "completed"}] /\ jobs \in [Keys -> Nat]
      /\ answers \in [Keys -> Nat] /\ AsksOK /\ TurnOK(t) /\ k \in Keys \cup {None}
  BY TurnFacts DEF Inv, TypeOK, Tx
<1>3. ASSUME NEW r \in Turns, tx[r].job # None
      PROVE  tx[r].job \in Keys /\ jobs[tx[r].job] > 0
  BY <1>3, TurnFacts DEF TurnOK, Tx
<1>4. CASE k = None
  <2>1. UNCHANGED ai
    BY <1>4 DEF EndTurn
  <2>2. AsksOK'
    BY <1>2, <2>1 DEF AsksOK, ai
  <2> QED
    BY <1>1, <1>2, <1>3, <2>1, <2>2, CommitKeeps DEF ai
<1>5. CASE k # None
  <2>1. asks' = [asks EXCEPT ![k] = "completed"] /\ jobs' = [jobs EXCEPT ![k] = @ - 1]
        /\ answers' = [answers EXCEPT ![k] = @ + 1]
    BY <1>5 DEF EndTurn
  <2>2. k \in Keys /\ jobs[k] > 0
    BY <1>3, <1>5
  <2>3. \A r \in Turns \ {t} : tx[r].job # k
    BY <1>5 DEF Inv, JobsApart
  <2> HIDE DEF k
  <2>4. \A j \in Keys : /\ jobs'[j] = (IF j = k THEN jobs[j] - 1 ELSE jobs[j])
                        /\ answers'[j] = (IF j = k THEN answers[j] + 1 ELSE answers[j])
                        /\ asks'[j] = (IF j = k THEN "completed" ELSE asks[j])
                        /\ jobs[j] \in Nat /\ answers[j] \in Nat
    BY <1>2, <2>1
  <2>5. asks' \in [Keys -> {"none", "accepted", "completed"}] /\ jobs' \in [Keys -> Nat]
        /\ answers' \in [Keys -> Nat]
    BY <1>2, <2>1, <2>2, <2>4
  <2>6. AsksOK'
    <3>1. ASSUME NEW j \in Keys
          PROVE  jobs'[j] + answers'[j] = IF asks'[j] = "none" THEN 0 ELSE 1
      <4>1. jobs[j] + answers[j] = IF asks[j] = "none" THEN 0 ELSE 1
        BY <1>2 DEF AsksOK
      <4> QED
        BY <2>2, <2>4, <4>1
    <3> QED
      BY <3>1 DEF AsksOK
  <2>7. \A r \in Turns \ {t} : tx[r].job # None => jobs'[tx[r].job] > 0
    BY <1>3, <2>3, <2>4
  <2> QED
    BY <1>1, <2>5, <2>6, <2>7, CommitKeeps
<1> QED
  BY <1>4, <1>5

\* The recovery loop's commit.
LEMMA EndCycleKeeps ==
    ASSUME Inv, EndCycle
    PROVE  Onward
<1>1. Commit("recovery") /\ edits' = edits /\ tx["recovery"].phase = "ending" /\ UNCHANGED ai
  BY DEF EndCycle, cycle
<1>2. "recovery" \in Sessions \ Visits /\ "recovery" \notin Turns
  BY Kinds
<1>3. asks' \in [Keys -> {"none", "accepted", "completed"}] /\ jobs' \in [Keys -> Nat]
      /\ answers' \in [Keys -> Nat] /\ AsksOK'
  BY <1>1 DEF Inv, TypeOK, AsksOK, ai
<1>4. \A r \in Turns : tx[r].job # None => jobs'[tx[r].job] > 0
  BY <1>1, TurnFacts DEF TurnOK, ai
<1> QED
  BY <1>1, <1>2, <1>3, <1>4, CommitKeeps
-----------------------------------------------------------------------------
(* The invariant. *)

\* There is no surface yet, and nobody is at work.
LEMMA InitInv == Init => Inv
<1> SUFFICES ASSUME Init PROVE Inv
  OBVIOUS
<1>1. \A s \in Sessions : tx[s] = IdleTx
  BY DEF Init
<1>2. TypeOK
  BY SurfacesAssumption, IdleTxIs DEF Init, TypeOK
<1>3. SessionsOK
  <2>1. ASSUME NEW t \in Turns PROVE TurnOK(t)
    BY <1>1, Kinds, IdleTxIs DEF TurnOK
  <2>2. ASSUME NEW v \in Visits PROVE VisitOK(v)
    BY <1>1, Kinds, IdleTxIs DEF VisitOK
  <2>3. CycleOK
    BY <1>1, Kinds, IdleTxIs DEF CycleOK, cycle
  <2> QED
    BY <2>1, <2>2, <2>3 DEF SessionsOK, SessionOK
<1>4. JobsApart
  BY <1>1, Kinds, IdleTxIs DEF JobsApart
<1>5. Bounded
  BY <1>1, IdleTxIs DEF Init, Bounded
<1>6. RowOK /\ EveryPageCounts
  BY IdleTxIs DEF Init, RowOK, EveryPageCounts
<1>7. PagesOK
  <2>1. 1..row.current = {}
    BY IdleTxIs DEF Init
  <2> QED
    BY <1>1, <2>1, Kinds, IdleTxIs DEF Init, PagesOK
<1>8. AsksOK
  BY DEF Init, AsksOK
<1> QED
  BY <1>2, <1>3, <1>4, <1>5, <1>6, <1>7, <1>8 DEF Inv

\* Every step goes onward.
LEMMA Step == Inv /\ [Next]_vars => Onward
<1> SUFFICES ASSUME Inv, [Next]_vars PROVE Onward
  OBVIOUS
<1>1. CASE Grow \/ Ripen
  BY <1>1, TimeKeeps
<1>2. ASSUME NEW t \in Turns, Create(t) \/ Turn(t) \/ \E k \in Keys \cup {None} : Begin(t, k)
      PROVE  Onward
  <2>1. TurnFails(t) => Onward
    BY Kinds, RollbackKeeps DEF TurnFails
  <2> QED
    BY <1>2, <2>1, CreateKeeps, BeginKeeps, UpdateKeeps, UpdateFailsKeeps, RevokeKeeps,
       ApplyKeeps, EndTurnKeeps DEF Turn
<1>3. ASSUME NEW v \in Visits, Visit(v) \/ Resolve(v)
      PROVE  Onward
  <2>1. Leave(v) => Onward
    BY Kinds, RollbackKeeps DEF Leave
  <2> QED
    BY <1>3, <2>1, ResolveKeeps, VisitKeeps, AskKeeps, AcceptKeeps DEF Visit
<1>4. CASE Cycle
  BY <1>4, SelectKeeps, ExpireKeeps, CleanKeeps, EndCycleKeeps DEF Cycle
<1>5. CASE CycleFails
  BY <1>5, Kinds, RollbackKeeps DEF CycleFails
<1>6. CASE UNCHANGED vars
  <2>1. TypeOK' /\ JobsApart' /\ Bounded' /\ AsksOK' /\ EveryPageCounts'
    BY <1>6 DEF vars, store, ai, Inv, TypeOK, JobsApart, Bounded, AsksOK, EveryPageCounts
  <2>2. (Shut <=> Shut') /\ RowOK' /\ PagesOK'
    BY <1>6 DEF vars, store, Inv, RowOK, PagesOK, Shut
  <2>3. SessionsOK'
    BY <1>6 DEF vars, ai, Inv, SessionsOK, SessionOK, TurnOK, VisitOK, CycleOK, cycle
  <2>4. row' = row /\ row'.current >= row.current
    BY <1>6, Types DEF Inv, vars
  <2> QED
    BY <2>1, <2>2, <2>3, <2>4 DEF Inv, Onward
<1> QED
  BY <1>1, <1>2, <1>3, <1>4, <1>5, <1>6 DEF Next

\* In particular it keeps the invariant.
LEMMA StepInv == Inv /\ [Next]_vars => Inv'
  BY Step DEF Onward

\* So it holds in every reachable state.
THEOREM InvHolds == Spec => []Inv
  BY InitInv, StepInv, PTL DEF Spec

-----------------------------------------------------------------------------
(* What the runs check. *)

\* Every variable keeps its type.
THEOREM TypeCorrect == Spec => []TypeOK
<1>1. Inv => TypeOK
  BY DEF Inv
<1> QED
  BY <1>1, InvHolds, PTL

\* While a surface can be opened every revision up to the current one has its
\* row and its file, whatever sessions race (surfaces/service.py, update,
\* _write_revision, cleanup_expired).
THEOREM PagesAreWhole == Spec => []PageWhole
<1>1. Inv => PageWhole
  BY DEF Inv, PagesOK, PageWhole, Shut
<1> QED
  BY <1>1, InvHolds, PTL

\* Turns that race for a revision publish under different numbers, and no
\* number is skipped (the conditional UPDATE of surfaces/service.py).
THEOREM PagesCount == Spec => []EveryPageCounts
<1>1. Inv => EveryPageCounts
  BY DEF Inv
<1> QED
  BY <1>1, InvHolds, PTL

\* However often a browser repeats a request, and however many requests race to
\* store it, it has one Work and at most one answer (accept_ai_request).
THEOREM AsksAreAnsweredOnce == Spec => []AnsweredOnce
<1>1. Inv => AnsweredOnce
  <2> SUFFICES ASSUME Inv, NEW k \in Keys PROVE jobs[k] + answers[k] <= 1
    BY DEF AnsweredOnce
  <2>1. jobs[k] + answers[k] = IF asks[k] = "none" THEN 0 ELSE 1
    BY DEF Inv, AsksOK
  <2> QED
    BY <2>1
<1> QED
  BY <1>1, InvHolds, PTL

\* A turn or a recovery cycle lets nobody in.
LEMMA OthersLetNobodyIn ==
    ASSUME Inv, NEW v \in Visits, Next, \A u \in Visits : ~Visit(u) /\ ~Resolve(u)
    PROVE  tx'[v] = tx[v]
<1>1. tx \in [Sessions -> Tx] /\ v \in Sessions /\ v # "recovery" /\ v \notin Turns
  BY Kinds DEF Inv, TypeOK
<1>2. CASE Grow \/ Ripen
  BY <1>2 DEF Grow, Ripen
<1>3. ASSUME NEW t \in Turns, Create(t) \/ Turn(t) \/ \E k \in Keys \cup {None} : Begin(t, k)
      PROVE  tx'[v] = tx[v]
  <2>1. t # v
    BY <1>1
  <2>2. Create(t) \/ (\E k \in Keys \cup {None} : Begin(t, k)) => tx'[v] = tx[v]
    BY <1>1, <2>1 DEF Create, Begin
  <2>3. (\E page, extend \in BOOLEAN : Update(t, page, extend)) => tx'[v] = tx[v]
    BY <1>1, <2>1 DEF Update
  <2>4. (\E extend \in BOOLEAN : UpdateFails(t, extend)) => tx'[v] = tx[v]
    BY <1>1, <2>1 DEF UpdateFails
  <2>5. Revoke(t) \/ ApplyAiResult(t) \/ EndTurn(t) \/ TurnFails(t) => tx'[v] = tx[v]
    BY <1>1, <2>1 DEF Revoke, ApplyAiResult, EndTurn, TurnFails, Commit, Rollback
  <2> QED
    BY <1>3, <2>2, <2>3, <2>4, <2>5 DEF Turn
<1>4. CASE Cycle \/ CycleFails
  BY <1>1, <1>4 DEF Cycle, CycleFails, SelectDue, Expire, SelectQuiet, MarkQuiet, Clean, EndCycle,
                    LoadStatus, Commit, Rollback
<1> QED
  BY <1>2, <1>3, <1>4 DEF Next

\* Of the requests' steps only the first of a request grants anything.
LEMMA OnlyResolveGrants ==
    ASSUME Inv, NEW u \in Visits, Visit(u) \/ Resolve(u), row.revoked,
           NEW v \in Visits, tx'[v].phase = "granted"
    PROVE  tx[v].phase = "granted"
<1>1. tx \in [Sessions -> Tx] /\ v \in Sessions /\ u \in Sessions
  BY Kinds DEF Inv, TypeOK
<1>2. ~Resolve(u)
  BY DEF Resolve, Refused
<1>3. CASE v = u
  <2>1. MarkExpired(u) \/ Serve(u) \/ PostEvent(u) \/ Leave(u) \/ Accept(u) => tx'[u] = IdleTx
    BY <1>1 DEF MarkExpired, Serve, PostEvent, Leave, Rollback, Accept
  <2>2. (\E k \in Keys : Ask(u, k)) => tx[u].phase = "granted"
    BY DEF Ask
  <2> QED
    BY <1>2, <1>3, <2>1, <2>2, IdleTxIs DEF Visit
<1>4. CASE v # u
  <2>1. tx'[v] = tx[v]
    BY <1>1, <1>2, <1>4 DEF Visit, MarkExpired, Serve, PostEvent, Leave, Rollback, Accept, Ask
  <2> QED
    BY <2>1
<1> QED
  BY <1>3, <1>4

\* Once the owner has revoked a surface it stays revoked and no later request
\* is granted, whatever status the other sessions write over "revoked".
RevokedStaysShut ==
    [][row.revoked =>
        /\ row'.revoked
        /\ \A v \in Visits :
            tx'[v].phase = "granted" => tx[v].phase = "granted"]_vars

\* After the owner's revocation nobody is let in any more, though other sessions
\* may write their stale status over "revoked" (resolve_by_token looks at
\* revoked_at, which no session clears).
THEOREM RevokedForGood == Spec => RevokedStaysShut
<1> DEFINE Shuts == /\ row'.revoked
                    /\ \A v \in Visits :
                          tx'[v].phase = "granted" => tx[v].phase = "granted"
<1>1. ASSUME Inv, Next, row.revoked PROVE Shuts
  <2>1. ASSUME NEW v \in Visits, tx'[v].phase = "granted" PROVE tx[v].phase = "granted"
    BY <1>1, <2>1, OthersLetNobodyIn, OnlyResolveGrants
  <2> QED
    BY <1>1, <2>1, Step DEF Onward
<1>2. Inv /\ [Next]_vars => [row.revoked => Shuts]_vars
  BY <1>1
<1> QED
  BY <1>2, InvHolds, PTL DEF RevokedStaysShut, Spec

-----------------------------------------------------------------------------
(* Surfaces implements SurfaceContract. *)

\* The abstract state, as Contract substitutes it.
State == IF row.status = "absent" THEN "absent" ELSE IF Shut THEN "shut" ELSE "open"
Whole == uris = 1..row.current /\ uris \subseteq bytes
Inside == {v \in Visits : tx[v].phase = "granted"}

\* Nobody comes in before there is a surface.
NobodyEarly == row.status = "absent" => \A v \in Visits : tx[v].phase = "idle"

\* A turn or a request that makes or ends a session leaves the others' phases;
\* a request leaves "idle" for a live row only.
LEMMA NobodyEarlyKept ==
    ASSUME Inv, NobodyEarly, [Next]_vars
    PROVE  NobodyEarly'
<1> SUFFICES ASSUME row'.status = "absent", NEW v \in Visits PROVE tx'[v].phase = "idle"
  BY DEF NobodyEarly
<1>1. row.status = "absent" /\ \A u \in Visits : tx[u].phase = "idle"
  BY Step DEF Onward, NobodyEarly
<1>2. tx \in [Sessions -> Tx] /\ v \in Sessions
  BY Kinds DEF Inv, TypeOK
<1>3. \A u \in Visits : ~Resolve(u)
  BY <1>1 DEF Resolve, Live
<1>4. \A u \in Visits : ~Visit(u)
  BY <1>1 DEF Visit, MarkExpired, Serve, PostEvent, Leave, Ask, Accept
<1>5. CASE Next
  BY <1>1, <1>3, <1>4, <1>5, OthersLetNobodyIn
<1>6. CASE UNCHANGED vars
  BY <1>1, <1>6 DEF vars
<1> QED
  BY <1>5, <1>6

\* The invariant as the contract sees it: no visitor is in a shut surface, and
\* the pages of any other are whole.
DecentNow ==
    /\ State = "shut" => Inside = {}
    /\ State # "shut" => Whole
    /\ \A v \in Inside : ~Shut

LEMMA DecentHolds == Inv => DecentNow
<1> SUFFICES ASSUME Inv PROVE DecentNow
  OBVIOUS
<1>1. \A v \in Inside : tx[v].copy.status \in Live /\ v \in Sessions
  BY Kinds DEF Inv, SessionsOK, SessionOK, VisitOK, Inside
<1>2. \A v \in Inside : ~Shut
  BY <1>1 DEF Shut
<1>3. row.status = "absent" => ~Shut
  BY DEF Shut
<1>4. State # "shut" => Whole
  BY <1>3 DEF Inv, PagesOK, State, Whole
<1> QED
  BY <1>2, <1>4 DEF State, DecentNow

\* ... and after every step.
LEMMA DecentNext == Inv' => DecentNow'
  BY DecentHolds, PTL

\* Only a request changes who is inside: it comes in when it is granted, and
\* any other step of a granted request takes it out.
LEMMA WhoIsInside ==
    ASSUME Inv, Next, Inside' # Inside
    PROVE  /\ UNCHANGED store
           /\ row'.current = row.current /\ row'.revoked = row.revoked
           /\ \E v \in Visits :
                \/ /\ Inside' = Inside \cup {v}
                   /\ row.status \in Live /\ ~row.revoked /\ row' = row
                \/ /\ v \in Inside
                   /\ Inside' = Inside \ {v}
<1>1. tx \in [Sessions -> Tx] /\ row \in Row /\ \A v \in Visits : v \in Sessions
  BY Kinds DEF Inv, TypeOK
<1>2. PICK v \in Visits : Visit(v) \/ Resolve(v)
  <2>1. (\A u \in Visits : ~Visit(u) /\ ~Resolve(u)) => \A w \in Visits : tx'[w] = tx[w]
    BY OthersLetNobodyIn
  <2>2. (\A w \in Visits : tx'[w] = tx[w]) => Inside' = Inside
    BY DEF Inside
  <2> QED
    BY <2>1, <2>2
<1>3. \A w \in Visits \ {v} : tx'[w] = tx[w]
  BY <1>1, <1>2 DEF Visit, Resolve, Load, LoadStatus, MarkExpired, Serve, PostEvent, Leave, Rollback,
                    Ask, Accept
<1>4. UNCHANGED store /\ row'.current = row.current /\ row'.revoked = row.revoked
  <2>1. MarkExpired(v) \/ Serve(v) \/ PostEvent(v) \/ Accept(v) =>
            UNCHANGED store /\ row'.current = row.current /\ row'.revoked = row.revoked
    BY <1>1 DEF MarkExpired, Serve, PostEvent, Accept, Row
  <2>2. Leave(v) \/ Resolve(v) \/ (\E k \in Keys : Ask(v, k)) => UNCHANGED <<store, row>>
    BY DEF Leave, Rollback, Resolve, Ask
  <2> QED
    BY <1>2, <2>1, <2>2 DEF Visit
<1>5. CASE v \in Inside
  <2>1. tx[v].phase = "granted"
    BY <1>5 DEF Inside
  <2>2. tx'[v].phase # "granted"
    <3>1. MarkExpired(v) \/ Serve(v) \/ PostEvent(v) \/ Leave(v) \/ Accept(v) => tx'[v] = IdleTx
      BY <1>1 DEF MarkExpired, Serve, PostEvent, Leave, Rollback, Accept
    <3>2. ASSUME NEW k \in Keys, Ask(v, k) PROVE tx'[v].phase \in {"idle", "asking"}
      BY <1>1, <3>2, IdleTxIs DEF Ask, Tx
    <3>3. ~Resolve(v)
      BY <2>1 DEF Resolve
    <3> QED
      BY <1>2, <3>1, <3>2, <3>3, IdleTxIs DEF Visit
  <2>3. Inside' = Inside \ {v}
    BY <1>3, <2>2 DEF Inside
  <2> QED
    BY <1>4, <1>5, <2>3
<1>6. CASE v \notin Inside
  <2>1. tx'[v].phase = "granted"
    BY <1>3, <1>6 DEF Inside
  <2>2. Resolve(v)
    <3>1. MarkExpired(v) \/ Serve(v) \/ PostEvent(v) \/ Leave(v) \/ Accept(v) => tx'[v] = IdleTx
      BY <1>1 DEF MarkExpired, Serve, PostEvent, Leave, Rollback, Accept
    <3>2. ASSUME NEW k \in Keys, Ask(v, k) PROVE FALSE
      BY <1>6, <3>2 DEF Ask, Inside
    <3> QED
      BY <1>2, <2>1, <3>1, <3>2, IdleTxIs DEF Visit
  <2>3. row.status \in Live /\ ~row.revoked /\ row' = row
    BY <2>2 DEF Resolve, Refused
  <2>4. Inside' = Inside \cup {v}
    BY <1>3, <2>1 DEF Inside
  <2> QED
    BY <1>4, <2>3, <2>4
<1> QED
  BY <1>5, <1>6

\* A step that does not change who is inside writes, or does nothing to the
\* abstract surface.
LEMMA WriteStep ==
    ASSUME Inv, NobodyEarly, Onward, NobodyEarly', Inside' = Inside
    PROVE  Contract!Write \/ UNCHANGED Contract!vars
<1>1. row \in Row /\ row.current \in Nat /\ row'.current \in Nat
      /\ row.revoked \in BOOLEAN /\ row'.revoked \in BOOLEAN
  <2>1. ASSUME TypeOK PROVE row.current \in Nat /\ row.revoked \in BOOLEAN
    BY <2>1, Types DEF Row
  <2>2. ASSUME TypeOK' PROVE row'.current \in Nat /\ row'.revoked \in BOOLEAN
    BY <2>2, SurfacesAssumption DEF TypeOK, Row, Revisions
  <2> QED
    BY <2>1, <2>2 DEF Onward, Inv, TypeOK
<1>2. CASE row'.status = "absent"
  <2>1. row = NoRow /\ row' = NoRow
    BY <1>2 DEF Onward, Inv, RowOK
  <2>2. Whole /\ Whole'
    <3>1. ~Shut /\ ~Shut'
      BY <2>1, IdleTxIs DEF Shut
    <3> QED
      BY <3>1 DEF Onward, Inv, PagesOK, Whole
  <2>3. UNCHANGED <<row, Whole, Inside>>
    BY <2>1, <2>2
  <2>4. row.status = "absent" /\ row'.status = "absent"
    BY <2>1, IdleTxIs
  <2> QED
    BY <2>3, <2>4 DEF Contract!vars, Whole, Inside
<1>3. CASE row'.status # "absent"
  <2>1. State' \in {"open", "shut"} /\ (State = "shut" => State' = "shut")
    BY <1>3 DEF State, Onward
  <2>2. row'.revoked \in (IF row.revoked THEN {TRUE} ELSE BOOLEAN)
    BY <1>1 DEF Onward
  <2>3. Whole' \in BOOLEAN
    BY DEF Whole
  <2>4. (State' = "shut" => Inside' = {}) /\ (State' # "shut" => Whole')
    <3>1. Inv'
      BY DEF Onward
    <3> QED
      BY <3>1, DecentNext DEF DecentNow
  <2>5. row'.current >= row.current
    BY DEF Onward
  <2> QED
    BY <1>1, <2>1, <2>2, <2>3, <2>4, <2>5 DEF Contract!Write, Contract!Decent, State, Whole, Inside
<1> QED
  BY <1>2, <1>3

\* A request that is granted enters; one that ends exits.
LEMMA VisitStep ==
    ASSUME Inv, NobodyEarly, Onward, Next, Inside' # Inside
    PROVE  \E v \in Visits : Contract!Enter(v) \/ Contract!Exit(v)
<1>1. /\ UNCHANGED store /\ row'.current = row.current /\ row'.revoked = row.revoked
      /\ \E v \in Visits :
            \/ /\ Inside' = Inside \cup {v}
               /\ row.status \in Live /\ ~row.revoked /\ row' = row
            \/ /\ v \in Inside
               /\ Inside' = Inside \ {v}
  BY WhoIsInside
<1>2. Whole' = Whole
  BY <1>1 DEF Whole, store
<1>3. DecentNow /\ DecentNow' /\ (Inside # {} => row.status # "absent")
  BY DecentHolds, DecentNext DEF Onward, NobodyEarly, Inside
<1>4. ASSUME NEW v \in Visits, Inside' = Inside \cup {v}, row.status \in Live, ~row.revoked,
             row' = row
      PROVE  Contract!Enter(v)
  <2>1. State = "open" /\ State' = "open"
    BY <1>4 DEF State, Shut, Live
  <2> QED
    BY <1>1, <1>2, <1>4, <2>1 DEF Contract!Enter, State, Whole, Inside
<1>5. ASSUME NEW v \in Visits, v \in Inside, Inside' = Inside \ {v}
      PROVE  Contract!Exit(v)
  <2>1. State = "open"
    BY <1>3, <1>5 DEF State, DecentNow
  <2>2. State' \in {"open", "shut"}
    BY <1>3, <1>5 DEF State, Onward
  <2>3. Contract!Decent(State', Whole', Inside')
    BY <1>3 DEF Contract!Decent, DecentNow
  <2> QED
    BY <1>1, <1>2, <1>5, <2>1, <2>2, <2>3 DEF Contract!Exit, State, Whole, Inside
<1> QED
  BY <1>1, <1>4, <1>5

\* Before the first directive the surface is absent, whole and empty.
LEMMA InitContract == Init => Contract!Init
<1> SUFFICES ASSUME Init PROVE Contract!Init
  OBVIOUS
<1>1. row.status = "absent" /\ row.revoked = FALSE /\ row.current = 0
  BY DEF Init, NoRow
<1>2. 1..0 = {}
  OBVIOUS
<1>3. {v \in Visits : tx[v].phase = "granted"} = {}
  BY Kinds, IdleTxIs DEF Init
<1> QED
  BY <1>1, <1>2, <1>3 DEF Init, Contract!Init

\* A web surface is what its contract says, for any number of turns, requests
\* and AI requests: while it can be opened its pages are all there, nobody is
\* let in once it is revoked, its files go when it is shut and nobody is
\* inside, and no stale status written over a newer one opens it again
\* (surfaces/service.py, api/main.py).
THEOREM SurfacesImplementContract == Spec => ImplementsContract
<1>1. Init => NobodyEarly
  BY Kinds, IdleTxIs DEF Init, NobodyEarly
<1>2. Inv /\ NobodyEarly /\ [Next]_vars => NobodyEarly'
  BY NobodyEarlyKept
<1>3. Inv /\ NobodyEarly /\ NobodyEarly' /\ [Next]_vars => [Contract!Next]_(Contract!vars)
  <2> SUFFICES ASSUME Inv, NobodyEarly, NobodyEarly', [Next]_vars
               PROVE  [Contract!Next]_(Contract!vars)
    OBVIOUS
  <2>1. Onward
    BY Step
  <2>2. CASE Inside' = Inside
    BY <2>1, <2>2, WriteStep DEF Contract!Next
  <2>3. CASE Inside' # Inside
    <3>1. Next
      BY <2>3 DEF vars, Inside
    <3> QED
      BY <2>1, <2>3, <3>1, VisitStep DEF Contract!Next
  <2> QED
    BY <2>2, <2>3
<1> QED
  BY <1>1, <1>2, <1>3, InitContract, InvHolds, PTL DEF Spec, ImplementsContract, Contract!Spec

\* So a surface that is shut stays shut, and nobody comes in any more: what a
\* reader of the contract alone may rely on.
THEOREM ShutForGood == Spec => Contract!ShutIsFinal
<1>1. Inv /\ [Next]_vars => [State = "shut" => State' = "shut" /\ Inside' = {}]_(Contract!vars)
  <2> SUFFICES ASSUME Inv, [Next]_vars, State = "shut"
               PROVE  State' = "shut" /\ Inside' = {}
    OBVIOUS
  <2>1. State' = "shut" /\ Inv'
    BY Step DEF Onward, State
  <2> QED
    BY <2>1, DecentNext DEF DecentNow
<1> QED
  BY <1>1, InvHolds, PTL DEF Spec, Contract!ShutIsFinal, State, Inside
=============================================================================
