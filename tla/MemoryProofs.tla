----------------------------- MODULE MemoryProofs -----------------------------
(***************************************************************************)
(* Theorems about module Memory, for any turns, memories and bounds.       *)
(*                                                                         *)
(* Two sessions may hold copies of one memory, and neither looks at what   *)
(* the other has made of it.  What saves the rows is that a copy never     *)
(* comes back to life: DirtyOK says that a copy which has ended either     *)
(* carries the columns that say so or was loaded from a row that had ended *)
(* already, so that whatever is merged with whatever is ended.  OriginsOK  *)
(* says that a session which may still commit a replacement has marked     *)
(* what it replaces.                                                       *)
(***************************************************************************)
EXTENDS Memory, TLAPS

Present(m) == row[m].validity # "absent"

Sane(r) ==
    /\ r.active <=> r.validity = "active"
    /\ r.validity = "absent" => r = NoRow
    /\ r.validity = "superseded" => r.heir # None

\* Rows name rows that are there, and what a row replaces has ended.
RowOK(m) ==
    /\ Sane(row[m])
    /\ row[m].heir # None => Present(row[m].heir) /\ row[row[m].heir].origin = m
    /\ row[m].origin # None => Present(row[m].origin) /\ ~row[row[m].origin].active

\* The heir a session gave to a copy is a row of its own making.
HeirOK(t, m) ==
    LET heir == copy[t][m].heir IN
    /\ heir # None => Present(heir) \/ Loaded(t, heir)
    /\ "heir" \in dirty[t][m] \/ (m \in Fresh(t) /\ heir # None) =>
            heir \in Fresh(t) /\ copy[t][heir].origin = m

OriginOK(t, m) ==
    LET origin == copy[t][m].origin IN
    m \in Fresh(t) /\ origin # None =>
        /\ Loaded(t, origin)
        /\ t \notin broken /\ op[t].heir # m => ~copy[t][origin].active

DirtyOK(t, m) ==
    /\ dirty[t][m] # {} => Loaded(t, m) /\ (holder[m] = t \/ m \in Fresh(t))
    /\ "active" \in dirty[t][m] => "validity" \in dirty[t][m]
    /\ "validity" \in dirty[t][m] =>
          /\ ~copy[t][m].active
          /\ copy[t][m].validity = "superseded" => "heir" \in dirty[t][m]
    /\ Loaded(t, m) /\ Present(m) /\ ~copy[t][m].active /\ "active" \notin dirty[t][m] =>
          ~row[m].active

CopyOK(t, m) == Sane(copy[t][m]) /\ HeirOK(t, m) /\ OriginOK(t, m) /\ DirtyOK(t, m)

\* The replacement of a supersede under way is there and nobody's heir yet.
OpOK(t) ==
    /\ op[t] # NoOp => op[t].on \in Ids /\ Loaded(t, op[t].on) /\ op[t].kind # "none"
    /\ op[t].heir # None => op[t].kind = "supersede"
    /\ op[t].kind = "supersede" =>
          /\ op[t].heir \in Fresh(t)
          /\ op[t].heir # op[t].on
          /\ copy[t][op[t].heir].origin = op[t].on
          /\ \A m \in Ids : copy[t][m].heir # op[t].heir

TurnOK(t) == OpOK(t) /\ \A m \in Ids : CopyOK(t, m)

\* A row that is not committed is in one session.
Apart == \A t, u \in Turns : t # u => Fresh(t) \cap Fresh(u) = {}

Inv ==
    /\ TypeOK
    /\ \A m \in Ids : RowOK(m)
    /\ \A t \in Turns : TurnOK(t)
    /\ Apart

-----------------------------------------------------------------------------
\* None is no memory, and an empty row names none.
LEMMA Nothing == /\ None \notin Ids /\ NoRow \in Row /\ Sane(NoRow)
                 /\ NoRow.validity = "absent" /\ NoRow.heir = None /\ NoRow.origin = None
                 /\ NoOp.kind = "none" /\ NoOp.on = None /\ NoOp.heir = None
  BY DEF None, Ids, NoRow, Row, Sane, Validity, NoOp

\* A new row is active and nobody has replaced it.
LEMMA NewRowIs ==
    ASSUME NEW origin \in Ids \cup {None}
    PROVE  /\ NewRow(origin) \in Row /\ Sane(NewRow(origin))
           /\ NewRow(origin).validity = "active" /\ NewRow(origin).heir = None
           /\ NewRow(origin).origin = origin /\ NewRow(origin).active
  BY Nothing DEF NewRow, Row, Sane, Validity

\* The records of a directive.
Op == [kind : {"none", "update", "forget", "supersede"},
       on : Ids \cup {None}, heir : Ids \cup {None}]

\* TypeOK, turn by turn.
LEMMA Types ==
    ASSUME TypeOK
    PROVE  /\ row \in [Ids -> Row] /\ copy \in [Turns -> [Ids -> Row]]
           /\ dirty \in [Turns -> [Ids -> SUBSET Columns]]
           /\ op \in [Turns -> Op] /\ ops \in [Turns -> 0..MaxOps]
           /\ holder \in [Ids -> Turns \cup {Nobody}] /\ broken \subseteq Turns
           /\ phase \in [Turns -> {"idle", "open", "ended"}]
           /\ \A m \in Ids : row[m] \in Row
           /\ \A t \in Turns : /\ copy[t] \in [Ids -> Row] /\ dirty[t] \in [Ids -> SUBSET Columns]
                               /\ op[t] \in Op
                               /\ \A m \in Ids : copy[t][m] \in Row
  BY DEF TypeOK, Op

\* A session that has not begun, or is over, answers for nothing.
LEMMA EmptySession ==
    ASSUME NEW t \in Turns, op'[t] = NoOp,
           \A m \in Ids : copy'[t][m] = NoRow /\ dirty'[t][m] = {}
    PROVE  TurnOK(t)' /\ Fresh(t)' = {}
  <1>1. \A m \in Ids : ~Loaded(t, m)' /\ m \notin Fresh(t)'
    BY Nothing DEF Loaded, Fresh
  <1>2. OpOK(t)'
    BY Nothing DEF OpOK
  <1>3. ASSUME NEW m \in Ids PROVE CopyOK(t, m)'
    BY <1>1, Nothing DEF CopyOK, HeirOK, OriginOK, DirtyOK, Sane
  <1> QED
    BY <1>1, <1>2, <1>3 DEF TurnOK, Fresh

\* What a step of one turn leaves to the others while no row is committed.
LEMMA OthersKept ==
    ASSUME Inv, row' = row, NEW u \in Turns,
           copy'[u] = copy[u], dirty'[u] = dirty[u], op'[u] = op[u],
           u \in broken' <=> u \in broken,
           \A m \in Ids : holder[m] = u => holder'[m] = u
    PROVE  TurnOK(u)' /\ Fresh(u)' = Fresh(u)
  <1>1. Fresh(u)' = Fresh(u)
    BY DEF Fresh, Loaded
  <1>2. TurnOK(u)
    BY DEF Inv
  <1>3. \A m \in Ids : (Loaded(u, m)' <=> Loaded(u, m)) /\ (Present(m)' <=> Present(m))
    BY DEF Loaded, Present
  <1>4. OpOK(u)'
    BY <1>1, <1>2, <1>3 DEF TurnOK, OpOK, Loaded
  <1>5. ASSUME NEW m \in Ids PROVE CopyOK(u, m)'
    <2>1. CopyOK(u, m)
      BY <1>2 DEF TurnOK
    <2>2. HeirOK(u, m)'
      BY <1>1, <2>1 DEF CopyOK, HeirOK, Loaded, Present
    <2>3. OriginOK(u, m)'
      BY <1>1, <2>1 DEF CopyOK, OriginOK, Loaded
    <2>4. DirtyOK(u, m)'
      BY <1>1, <1>3, <2>1 DEF CopyOK, DirtyOK
    <2> QED
      BY <2>1, <2>2, <2>3, <2>4 DEF CopyOK, Sane
  <1> QED
    BY <1>1, <1>4, <1>5 DEF TurnOK

\* The rows stay as they are when nothing is committed.
LEMMA RowsKept ==
    ASSUME Inv, row' = row
    PROVE  \A m \in Ids : RowOK(m)'
  BY DEF Inv, RowOK, Present, Sane

\* A step of one turn that commits nothing, for the rest of the invariant.
LEMMA OneTurn ==
    ASSUME Inv, row' = row, TypeOK', NEW t \in Turns, TurnOK(t)',
           \A u \in Turns \ {t} : /\ copy'[u] = copy[u] /\ dirty'[u] = dirty[u] /\ op'[u] = op[u]
                                  /\ u \in broken' <=> u \in broken
                                  /\ \A m \in Ids : holder[m] = u => holder'[m] = u,
           \A m \in Fresh(t)' : m \in Fresh(t) \/ \A u \in Turns : ~Loaded(u, m)
    PROVE  Inv'
  <1>1. \A u \in Turns \ {t} : TurnOK(u)' /\ Fresh(u)' = Fresh(u)
    BY OthersKept
  <1>2. \A u \in Turns : TurnOK(u)'
    BY <1>1
  <1>3. Apart'
    <2> SUFFICES ASSUME NEW p \in Turns, NEW q \in Turns, p # q,
                        NEW m \in Fresh(p)', m \in Fresh(q)'
                 PROVE  FALSE
      BY DEF Apart
    <2>1. ASSUME NEW u \in Turns \ {t}, m \in Fresh(u)', m \in Fresh(t)' PROVE FALSE
      <3>1. m \in Fresh(u) /\ Loaded(u, m)
        BY <1>1, <2>1 DEF Fresh
      <3>2. m \in Fresh(t)
        BY <2>1, <3>1
      <3> QED
        BY <2>1, <3>1, <3>2 DEF Inv, Apart
    <2>2. CASE p # t /\ q # t
      BY <1>1, <2>2 DEF Inv, Apart
    <2> QED
      BY <2>1, <2>2
  <1> QED
    BY <1>2, <1>3, RowsKept DEF Inv

-----------------------------------------------------------------------------
(* Reading and beginning *)

\* A session that loads committed rows keeps its copies as they are.
LEMMA LoadingKeeps ==
    ASSUME Inv, NEW t \in Turns, NEW S \in SUBSET Ids, Loading(t, S),
           UNCHANGED <<row, dirty, broken, holder>>, op'[t].heir = op[t].heir
    PROVE  /\ \A m \in Ids : CopyOK(t, m)'
           /\ Fresh(t)' = Fresh(t)
           /\ \A m \in Ids : Loaded(t, m) => copy'[t][m] = copy[t][m] /\ Loaded(t, m)'
           /\ \A m \in Ids : copy'[t][m] \in {copy[t][m], row[m]}
           /\ \A m \in S : Present(m) => Loaded(t, m)'
           /\ copy' \in [Turns -> [Ids -> Row]]
           /\ \A u \in Turns \ {t} : copy'[u] = copy[u]
  <1>1. row \in [Ids -> Row] /\ copy \in [Turns -> [Ids -> Row]] /\ copy[t] \in [Ids -> Row]
    BY Types DEF Inv
  <1>2. /\ \A m \in Ids : copy'[t][m] = IF m \in S /\ ~Loaded(t, m) THEN row[m] ELSE copy[t][m]
        /\ \A u \in Turns \ {t} : copy'[u] = copy[u]
    BY <1>1 DEF Loading
  <1>3. copy' \in [Turns -> [Ids -> Row]]
    BY <1>1 DEF Loading
  <1>4. TurnOK(t) /\ \A m \in Ids : RowOK(m)
    BY DEF Inv
  <1>5. \A m \in Ids : Loaded(t, m) => copy'[t][m] = copy[t][m] /\ Loaded(t, m)'
    BY <1>2 DEF Loaded
  <1>6. \A m \in S : Present(m) => Loaded(t, m)'
    BY <1>2, <1>5 DEF Loaded, Present
  <1>7. Fresh(t)' = Fresh(t)
    BY <1>2 DEF Fresh, Loaded
  <1>8. ASSUME NEW m \in Ids PROVE CopyOK(t, m)'
    <2>1. CopyOK(t, m) /\ RowOK(m) /\ row[m] \in Row /\ copy[t][m] \in Row
      BY <1>1, <1>4 DEF TurnOK
    <2>2. CASE copy'[t][m] = copy[t][m]
      <3>1. HeirOK(t, m)'
        <4>1. copy[t][m].heir \in Ids \cup {None}
          BY <2>1 DEF Row
        <4> QED
          BY <1>5, <1>7, <2>1, <2>2, <4>1, Nothing DEF CopyOK, HeirOK, Present, Fresh
      <3>2. OriginOK(t, m)'
        <4>1. copy[t][m].origin \in Ids \cup {None}
          BY <2>1 DEF Row
        <4> QED
          BY <1>5, <1>7, <2>1, <2>2, <4>1 DEF CopyOK, OriginOK
      <3>3. DirtyOK(t, m)'
        BY <1>7, <2>1, <2>2 DEF CopyOK, DirtyOK, Loaded, Present
      <3> QED
        BY <2>1, <2>2, <3>1, <3>2, <3>3 DEF CopyOK, Sane
    <2>3. CASE copy'[t][m] # copy[t][m]
      <3>1. ~Loaded(t, m) /\ copy'[t][m] = row[m]
        BY <1>2, <2>3
      <3>2. dirty'[t][m] = {}
        BY <2>1, <3>1 DEF CopyOK, DirtyOK
      <3>3. m \notin Fresh(t)'
        BY <1>7, <3>1 DEF Fresh
      <3>4. Sane(copy[t][m])'
        BY <2>1, <3>1 DEF RowOK, Sane
      <3>5. HeirOK(t, m)'
        BY <2>1, <3>1, <3>2, <3>3 DEF RowOK, HeirOK, Present
      <3>6. OriginOK(t, m)' /\ DirtyOK(t, m)'
        BY <3>1, <3>2, <3>3 DEF OriginOK, DirtyOK
      <3> QED
        BY <3>4, <3>5, <3>6 DEF CopyOK
    <2> QED
      BY <2>2, <2>3
  <1> QED
    BY <1>2, <1>3, <1>5, <1>6, <1>7, <1>8

\* A search loads, and that is all.
LEMMA SearchKeeps ==
    ASSUME Inv, NEW t \in Turns, Search(t)
    PROVE  Inv'
  <1>1. /\ UNCHANGED <<row, phase, dirty, op, ops, broken, holder>>
        /\ TypeOK /\ OpOK(t) /\ op[t] = NoOp
    BY DEF Search, InTurn, Inv, TurnOK
  <1>2. PICK S \in SUBSET Ids : Loading(t, S)
    BY DEF Search
  <1>3. /\ \A m \in Ids : CopyOK(t, m)'
        /\ Fresh(t)' = Fresh(t)
        /\ copy' \in [Turns -> [Ids -> Row]]
        /\ \A u \in Turns \ {t} : copy'[u] = copy[u]
    BY <1>1, <1>2, LoadingKeeps
  <1>4. OpOK(t)'
    BY <1>1, Nothing DEF OpOK
  <1>5. TypeOK'
    BY <1>1, <1>3 DEF TypeOK
  <1>6. TurnOK(t)'
    BY <1>3, <1>4 DEF TurnOK
  <1> QED
    BY <1>1, <1>3, <1>5, <1>6, OneTurn

\* An update or a forget under way has loaded its memory.
LEMMA BeginKeeps ==
    ASSUME Inv, NEW t \in Turns, NEW m \in Ids, Begin(t, m)
    PROVE  Inv'
  <1>1. /\ UNCHANGED <<row, phase, dirty, broken, holder>> /\ Loading(t, {m}) /\ Exists(t, m)
        /\ TypeOK /\ op[t] = NoOp /\ ops[t] < MaxOps
    BY DEF Begin, InTurn, Inv
  <1>2. PICK kind \in {"update", "forget"} :
            op' = [op EXCEPT ![t] = [kind |-> kind, on |-> m, heir |-> None]]
    BY DEF Begin
  <1>3. op \in [Turns -> Op] /\ ops \in [Turns -> 0..MaxOps]
    BY <1>1, Types
  <1>4. op'[t] = [kind |-> kind, on |-> m, heir |-> None]
    BY <1>2, <1>3
  <1>5. /\ \A x \in Ids : CopyOK(t, x)'
        /\ Fresh(t)' = Fresh(t)
        /\ \A x \in Ids : Loaded(t, x) => Loaded(t, x)'
        /\ \A x \in {m} : Present(x) => Loaded(t, x)'
        /\ copy' \in [Turns -> [Ids -> Row]]
        /\ \A u \in Turns \ {t} : copy'[u] = copy[u]
    BY <1>1, <1>4, LoadingKeeps, Nothing
  <1>6. OpOK(t)'
    BY <1>1, <1>4, <1>5 DEF OpOK, Exists, Present
  <1>7. TypeOK'
    <2>1. ops' \in [Turns -> 0..MaxOps]
      BY <1>1, <1>3, MemoryAssumption DEF Begin
    <2>2. op' \in [Turns -> Op]
      BY <1>2, <1>3 DEF Op
    <2> QED
      BY <1>1, <1>5, <2>1, <2>2 DEF TypeOK, Op
  <1>8. TurnOK(t)'
    BY <1>5, <1>6 DEF TurnOK
  <1>9. \A u \in Turns \ {t} : op'[u] = op[u]
    BY <1>2, <1>3
  <1> QED
    BY <1>1, <1>5, <1>7, <1>8, <1>9, OneTurn

-----------------------------------------------------------------------------
(* Inserting *)

\* A new id is no row's and in no session.
LEMMA NewIdIs ==
    ASSUME Unused # {}
    PROVE  /\ NewId \in Ids /\ row[NewId].validity = "absent"
           /\ \A u \in Turns : ~Loaded(u, NewId)
  <1>1. NewId \in Unused
    BY DEF NewId
  <1> QED
    BY <1>1 DEF Unused

\* A session that makes a row, and loads at most the one it replaces.
LEMMA InsertKeeps ==
    ASSUME Inv, NEW t \in Turns, NEW n \in Ids, NEW origin \in Ids \cup {None},
           row[n].validity = "absent", ~Loaded(t, n), op[t] = NoOp,
           UNCHANGED <<row, dirty, broken, holder>>, copy' \in [Turns -> [Ids -> Row]],
           copy'[t][n] = NewRow(origin),
           \A x \in Ids \ {n} : copy'[t][x] = copy[t][x]
                                \/ (~Loaded(t, x) /\ Present(x) /\ copy'[t][x] = row[x]),
           op'[t].heir \in {n, None},
           origin # None => Loaded(t, origin)' /\ op'[t].heir = n
    PROVE  /\ \A x \in Ids : CopyOK(t, x)'
           /\ Fresh(t)' = Fresh(t) \cup {n}
  <1>1. TurnOK(t) /\ (\A x \in Ids : RowOK(x) /\ CopyOK(t, x)) /\ row \in [Ids -> Row]
        /\ copy[t] \in [Ids -> Row]
    BY Types DEF Inv, TurnOK
  <1>2. /\ copy'[t][n].validity = "active" /\ copy'[t][n].heir = None
        /\ copy'[t][n].origin = origin /\ Sane(copy[t][n])'
    BY NewRowIs DEF Sane
  <1>3. Loaded(t, n)' /\ \A x \in Ids : Loaded(t, x) => Loaded(t, x)' /\ copy'[t][x] = copy[t][x]
    <2>1. Loaded(t, n)'
      BY <1>2 DEF Loaded
    <2>2. ASSUME NEW x \in Ids, Loaded(t, x) PROVE Loaded(t, x)' /\ copy'[t][x] = copy[t][x]
      BY <2>2 DEF Loaded
    <2> QED
      BY <2>1, <2>2
  <1>4. Fresh(t)' = Fresh(t) \cup {n}
    <2>1. ASSUME NEW x \in Ids \ {n} PROVE x \in Fresh(t)' <=> x \in Fresh(t)
      BY <2>1 DEF Fresh, Loaded, Present
    <2>2. n \in Fresh(t)'
      BY <1>3 DEF Fresh
    <2>3. Fresh(t)' \subseteq Ids /\ Fresh(t) \subseteq Ids
      BY DEF Fresh
    <2> QED
      BY <2>1, <2>2, <2>3
  <1>5. dirty[t][n] = {}
    BY <1>1 DEF CopyOK, DirtyOK
  <1>6. CopyOK(t, n)'
    <2>1. HeirOK(t, n)'
      BY <1>2, <1>5 DEF HeirOK
    <2>2. OriginOK(t, n)'
      BY <1>2, <1>4, Nothing DEF OriginOK
    <2>3. DirtyOK(t, n)'
      BY <1>3, <1>5 DEF DirtyOK, Present
    <2> QED
      BY <1>2, <2>1, <2>2, <2>3 DEF CopyOK
  <1>7. ASSUME NEW x \in Ids \ {n} PROVE CopyOK(t, x)'
    <2>1. CopyOK(t, x) /\ RowOK(x) /\ row[x] \in Row /\ copy[t][x] \in Row
      BY <1>1
    <2>2. CASE copy'[t][x] = copy[t][x]
      <3>1. HeirOK(t, x)'
        <4>1. copy[t][x].heir \in Ids \cup {None}
          BY <2>1 DEF Row
        <4> QED
          BY <1>3, <1>4, <2>1, <2>2, <4>1, Nothing DEF CopyOK, HeirOK, Present, Fresh
      <3>2. OriginOK(t, x)'
        <4>1. copy[t][x].origin \in Ids \cup {None}
          BY <2>1 DEF Row
        <4>2. op[t].heir # x
          BY Nothing
        <4> QED
          BY <1>3, <1>4, <2>1, <2>2, <4>1, <4>2 DEF CopyOK, OriginOK
      <3>3. DirtyOK(t, x)'
        BY <1>4, <2>1, <2>2 DEF CopyOK, DirtyOK, Loaded, Present
      <3> QED
        BY <2>1, <2>2, <3>1, <3>2, <3>3 DEF CopyOK, Sane
    <2>3. CASE ~Loaded(t, x) /\ Present(x) /\ copy'[t][x] = row[x]
      <3>1. dirty'[t][x] = {}
        BY <2>1, <2>3 DEF CopyOK, DirtyOK
      <3>2. x \notin Fresh(t)'
        BY <2>3 DEF Fresh, Present
      <3>3. HeirOK(t, x)' /\ Sane(copy[t][x])'
        BY <2>1, <2>3, <3>1, <3>2 DEF RowOK, HeirOK, Present, Sane
      <3>4. OriginOK(t, x)' /\ DirtyOK(t, x)'
        BY <2>3, <3>1, <3>2 DEF OriginOK, DirtyOK
      <3> QED
        BY <3>3, <3>4 DEF CopyOK
    <2> QED
      BY <2>2, <2>3
  <1> QED
    BY <1>4, <1>6, <1>7

\* A memory that replaces none.
LEMMA CreateKeeps ==
    ASSUME Inv, NEW t \in Turns, Create(t)
    PROVE  Inv'
  <1>1. /\ UNCHANGED <<row, phase, dirty, op, broken, holder>> /\ TypeOK /\ op[t] = NoOp
        /\ ops[t] < MaxOps /\ Unused # {}
        /\ copy' = [copy EXCEPT ![t][NewId] = NewRow(None)]
        /\ ops' = [ops EXCEPT ![t] = @ + 1]
    BY DEF Create, InTurn, Inserted, Inv
  <1> DEFINE n == NewId
  <1>2. n \in Ids /\ row[n].validity = "absent" /\ \A u \in Turns : ~Loaded(u, n)
    BY <1>1, NewIdIs
  <1> HIDE DEF n
  <1>3. copy \in [Turns -> [Ids -> Row]] /\ NewRow(None) \in Row /\ ops \in [Turns -> 0..MaxOps]
    BY <1>1, Types, NewRowIs
  <1>4. /\ copy' \in [Turns -> [Ids -> Row]] /\ copy'[t][n] = NewRow(None)
        /\ \A x \in Ids \ {n} : copy'[t][x] = copy[t][x]
        /\ \A u \in Turns \ {t} : copy'[u] = copy[u]
    BY <1>1, <1>2, <1>3 DEF n
  <1>5. (\A x \in Ids : CopyOK(t, x)') /\ Fresh(t)' = Fresh(t) \cup {n}
    BY <1>1, <1>2, <1>4, InsertKeeps, Nothing
  <1>6. OpOK(t)'
    BY <1>1, Nothing DEF OpOK
  <1>7. TypeOK'
    <2>1. ops' \in [Turns -> 0..MaxOps]
      BY <1>1, <1>3, MemoryAssumption
    <2> QED
      BY <1>1, <1>4, <2>1 DEF TypeOK
  <1>8. TurnOK(t)'
    BY <1>5, <1>6 DEF TurnOK
  <1>9. \A m \in Fresh(t)' : m \in Fresh(t) \/ \A u \in Turns : ~Loaded(u, m)
    BY <1>2, <1>5
  <1> QED
    BY <1>1, <1>4, <1>7, <1>8, <1>9, OneTurn

\* The replacement is inserted; the mark is under way.
LEMMA BeginSupersedeKeeps ==
    ASSUME Inv, NEW t \in Turns, NEW m \in Ids, BeginSupersede(t, m)
    PROVE  Inv'
  <1> DEFINE n == NewId
  <1>1. /\ UNCHANGED <<row, phase, dirty, broken, holder>> /\ TypeOK /\ op[t] = NoOp
        /\ ops[t] < MaxOps /\ Unused # {} /\ Exists(t, m)
        /\ op' = [op EXCEPT ![t] = [kind |-> "supersede", on |-> m, heir |-> n]]
        /\ copy' = [copy EXCEPT ![t][m] = IF Loaded(t, m) THEN @ ELSE row[m],
                                ![t][n] = NewRow(m)]
        /\ ops' = [ops EXCEPT ![t] = @ + 1]
    BY DEF BeginSupersede, InTurn, Inv
  <1>2. n \in Ids /\ row[n].validity = "absent" /\ \A u \in Turns : ~Loaded(u, n)
    BY <1>1, NewIdIs
  <1> HIDE DEF n
  <1>3. m # n
    BY <1>1, <1>2 DEF Exists
  <1>4. /\ copy \in [Turns -> [Ids -> Row]] /\ row \in [Ids -> Row] /\ NewRow(m) \in Row
        /\ ops \in [Turns -> 0..MaxOps] /\ op \in [Turns -> Op]
    BY <1>1, Types, NewRowIs
  <1>5. /\ copy' \in [Turns -> [Ids -> Row]] /\ copy'[t][n] = NewRow(m)
        /\ \A u \in Turns \ {t} : copy'[u] = copy[u]
        /\ \A x \in Ids \ {n, m} : copy'[t][x] = copy[t][x]
        /\ copy'[t][m] = IF Loaded(t, m) THEN copy[t][m] ELSE row[m]
    <2>1. PICK loaded \in Row : loaded = IF Loaded(t, m) THEN copy[t][m] ELSE row[m]
      BY <1>4
    <2> DEFINE first == [copy EXCEPT ![t][m] = loaded]
    <2>2. first \in [Turns -> [Ids -> Row]] /\ first[t][m] = loaded
          /\ (\A x \in Ids \ {m} : first[t][x] = copy[t][x])
          /\ \A u \in Turns \ {t} : first[u] = copy[u]
      BY <1>4
    <2>3. copy' = [first EXCEPT ![t][n] = NewRow(m)]
      BY <1>1, <2>1
    <2> HIDE DEF first
    <2> QED
      BY <1>2, <1>3, <1>4, <2>1, <2>2, <2>3
  <1>6. op'[t] = [kind |-> "supersede", on |-> m, heir |-> n]
        /\ \A u \in Turns \ {t} : op'[u] = op[u]
    BY <1>1, <1>4
  <1>7. Loaded(t, m)'
    BY <1>1, <1>5 DEF Exists, Loaded
  <1>8. \A x \in Ids \ {n} : copy'[t][x] = copy[t][x]
                             \/ (~Loaded(t, x) /\ Present(x) /\ copy'[t][x] = row[x])
    BY <1>1, <1>5 DEF Exists, Present
  <1>9. (\A x \in Ids : CopyOK(t, x)') /\ Fresh(t)' = Fresh(t) \cup {n}
    <2>1. op[t] = NoOp /\ UNCHANGED <<row, dirty, broken, holder>> /\ op'[t].heir = n
      BY <1>1, <1>6
    <2>2. copy' \in [Turns -> [Ids -> Row]] /\ copy'[t][n] = NewRow(m) /\ ~Loaded(t, n)
      BY <1>2, <1>5
    <2> QED
      BY <1>2, <1>7, <1>8, <2>1, <2>2, InsertKeeps
  <1>10. \A x \in Ids : copy'[t][x].heir # n
    <2>1. ASSUME NEW x \in Ids PROVE copy[t][x].heir # n /\ row[x].heir # n
      <3>1. CopyOK(t, x) /\ RowOK(x)
        BY DEF Inv, TurnOK
      <3> QED
        BY <1>2, <3>1, Nothing DEF CopyOK, HeirOK, RowOK, Present
    <2>2. copy'[t][n].heir # n
      BY <1>2, <1>5, NewRowIs, Nothing
    <2> QED
      BY <1>5, <2>1, <2>2
  <1>11. OpOK(t)'
    <2>1. n \in Fresh(t)' /\ copy'[t][n].origin = m
      BY <1>5, <1>9, NewRowIs
    <2> QED
      BY <1>3, <1>6, <1>7, <1>10, <2>1 DEF OpOK
  <1>12. TypeOK'
    <2>1. ops' \in [Turns -> 0..MaxOps]
      BY <1>1, <1>4, MemoryAssumption
    <2>2. op' \in [Turns -> Op]
      BY <1>1, <1>2, <1>4 DEF Op
    <2> QED
      BY <1>1, <1>5, <2>1, <2>2 DEF TypeOK, Op
  <1>13. TurnOK(t)'
    BY <1>9, <1>11 DEF TurnOK
  <1>14. \A x \in Fresh(t)' : x \in Fresh(t) \/ \A u \in Turns : ~Loaded(u, x)
    BY <1>2, <1>9
  <1> QED
    BY <1>1, <1>5, <1>6, <1>12, <1>13, <1>14, OneTurn

-----------------------------------------------------------------------------
(* Flushing *)

\* What a directive makes of a copy: it may end it, and never begins it again.
LEMMA AfterIs ==
    ASSUME Inv, NEW t \in Turns, op[t] # NoOp
    PROVE  LET m == op[t].on
               mine == copy[t][m]
           IN  /\ m \in Ids /\ Loaded(t, m) /\ mine \in Row
               /\ After(t) \in Row /\ Sane(After(t)) /\ After(t).origin = mine.origin
               /\ After(t).validity # "absent"
               /\ ~mine.active => ~After(t).active
               /\ After(t) # mine => ~After(t).active
               /\ op[t].kind = "supersede" =>
                     /\ After(t).heir = op[t].heir /\ ~After(t).active
                     /\ After(t).heir # mine.heir /\ op[t].heir \in Fresh(t)
               /\ op[t].kind # "supersede" =>
                     /\ After(t).heir = mine.heir
                     /\ After(t).validity = "superseded" => After(t) = mine
  <1> DEFINE m == op[t].on
             mine == copy[t][m]
  <1>1. TypeOK /\ OpOK(t)
    BY DEF Inv, TurnOK
  <1>2. op[t] \in Op /\ m \in Ids /\ Loaded(t, m) /\ op[t].kind \in {"update", "forget", "supersede"}
    BY <1>1, Types DEF OpOK, Op
  <1>3. mine \in Row /\ CopyOK(t, m)
    BY <1>1, <1>2, Types DEF Inv, TurnOK
  <1>4. Sane(mine) /\ mine.validity # "absent"
    BY <1>2, <1>3 DEF CopyOK, Loaded
  <1> HIDE DEF mine
  <1>5. After(t) = CASE op[t].kind = "update" -> mine
                     [] op[t].kind = "forget" -> Forgotten(mine)
                     [] op[t].kind = "supersede" -> Superseded(mine, op[t].heir)
    BY DEF After, mine
  <1>6. CASE op[t].kind = "update"
    <2>1. After(t) = mine
      BY <1>5, <1>6
    <2> QED
      BY <1>2, <1>3, <1>4, <1>6, <2>1 DEF mine
  <1>7. CASE op[t].kind = "forget"
    <2>1. After(t) = Forgotten(mine)
      BY <1>5, <1>7
    <2>2. /\ Forgotten(mine) \in Row /\ ~Forgotten(mine).active
          /\ Forgotten(mine).validity = "forgotten" /\ Forgotten(mine).heir = mine.heir
          /\ Forgotten(mine).origin = mine.origin
      BY <1>3 DEF Forgotten, Row, Validity
    <2> QED
      BY <1>2, <1>3, <1>4, <1>7, <2>1, <2>2 DEF mine, Sane
  <1>8. CASE op[t].kind = "supersede"
    <2> DEFINE n == op[t].heir
    <2>1. After(t) = Superseded(mine, n)
      BY <1>5, <1>8
    <2>2. n \in Fresh(t) /\ n \in Ids /\ n # copy[t][m].heir
      BY <1>1, <1>2, <1>8 DEF OpOK, Fresh
    <2>3. /\ Superseded(mine, n) \in Row /\ ~Superseded(mine, n).active
          /\ Superseded(mine, n).validity = "superseded" /\ Superseded(mine, n).heir = n
          /\ Superseded(mine, n).origin = mine.origin
      BY <1>3, <2>2 DEF Superseded, Row, Validity
    <2> QED
      BY <1>2, <1>3, <1>4, <1>8, <2>1, <2>2, <2>3, Nothing DEF mine, Sane
  <1> QED
    BY <1>2, <1>6, <1>7, <1>8

\* The columns a directive changes say that the copy has ended.
LEMMA ChangesAre ==
    ASSUME Inv, NEW t \in Turns, op[t] # NoOp
    PROVE  LET mine == copy[t][op[t].on] IN
           /\ Changes(t) \in SUBSET Columns
           /\ Changes(t) # {} => ~After(t).active
           /\ "active" \in Changes(t) <=> mine.active /\ ~After(t).active
           /\ "active" \in Changes(t) => "validity" \in Changes(t)
           /\ "heir" \in Changes(t) <=> op[t].kind = "supersede"
  <1> DEFINE mine == copy[t][op[t].on]
  <1>1. /\ mine \in Row /\ After(t) \in Row /\ Sane(After(t))
        /\ ~mine.active => ~After(t).active
        /\ After(t) # mine => ~After(t).active
        /\ op[t].kind = "supersede" => After(t).heir # mine.heir
        /\ op[t].kind # "supersede" => After(t).heir = mine.heir
        /\ op[t].on \in Ids
    BY AfterIs
  <1>2. Sane(mine)
    BY <1>1 DEF Inv, TurnOK, CopyOK
  <1>3. /\ "active" \in Changes(t) <=> After(t).active # mine.active
        /\ "validity" \in Changes(t) <=> After(t).validity # mine.validity
        /\ "heir" \in Changes(t) <=> After(t).heir # mine.heir
        /\ Changes(t) \in SUBSET Columns
    BY DEF Changes, Columns
  <1>4. mine.active \in BOOLEAN /\ After(t).active \in BOOLEAN
    BY <1>1 DEF Row
  <1>5. Changes(t) # {} => After(t) # mine
    BY DEF Changes
  <1> QED
    BY <1>1, <1>2, <1>3, <1>4, <1>5 DEF Sane

\* A flush writes a copy back and takes the row's lock; what a supersede made
\* is now marked.
LEMMA FlushKeeps ==
    ASSUME Inv, NEW t \in Turns, Flush(t)
    PROVE  Inv'
  <1>1. op[t] # NoOp
    BY DEF Flush
  <1> DEFINE mine == copy[t][op[t].on]
             after == After(t)
  <1>2. PICK m \in Ids : m = op[t].on
    BY <1>1, AfterIs
  <1>3. /\ op[t] # NoOp /\ ~Waits(t)
        /\ copy' = [copy EXCEPT ![t][m] = after]
        /\ dirty' = [dirty EXCEPT ![t][m] = @ \cup Changes(t)]
        /\ holder' = IF Sends(t) THEN [holder EXCEPT ![m] = t] ELSE holder
        /\ op' = [op EXCEPT ![t] = NoOp]
        /\ UNCHANGED <<row, phase, ops, broken>>
    BY <1>2 DEF Flush
  <1>4. TypeOK /\ TurnOK(t) /\ OpOK(t) /\ \A x \in Ids : CopyOK(t, x)
    BY DEF Inv, TurnOK
  <1>5. /\ m \in Ids /\ Loaded(t, m) /\ mine \in Row
        /\ after \in Row /\ Sane(after) /\ after.origin = mine.origin
        /\ after.validity # "absent"
        /\ ~mine.active => ~after.active
        /\ op[t].kind = "supersede" =>
              /\ after.heir = op[t].heir /\ ~after.active /\ op[t].heir \in Fresh(t)
        /\ op[t].kind # "supersede" =>
              /\ after.heir = mine.heir
              /\ after.validity = "superseded" => after = mine
    BY <1>3, <1>2, AfterIs
  <1>6. /\ Changes(t) \in SUBSET Columns
        /\ Changes(t) # {} => ~after.active
        /\ "active" \in Changes(t) <=> mine.active /\ ~after.active
        /\ "active" \in Changes(t) => "validity" \in Changes(t)
        /\ "heir" \in Changes(t) <=> op[t].kind = "supersede"
    BY <1>3, ChangesAre
  <1>7. /\ copy \in [Turns -> [Ids -> Row]] /\ dirty \in [Turns -> [Ids -> SUBSET Columns]]
        /\ op \in [Turns -> Op] /\ holder \in [Ids -> Turns \cup {Nobody}]
    BY <1>4, Types
  <1> HIDE DEF after, mine
  <1>8. /\ copy' \in [Turns -> [Ids -> Row]] /\ copy'[t][m] = after
        /\ \A x \in Ids \ {m} : copy'[t][x] = copy[t][x]
        /\ \A u \in Turns \ {t} : copy'[u] = copy[u]
    BY <1>3, <1>5, <1>7
  <1>9. /\ dirty' \in [Turns -> [Ids -> SUBSET Columns]]
        /\ dirty'[t][m] = dirty[t][m] \cup Changes(t)
        /\ \A x \in Ids \ {m} : dirty'[t][x] = dirty[t][x]
        /\ \A u \in Turns \ {t} : dirty'[u] = dirty[u]
    BY <1>3, <1>5, <1>6, <1>7
  <1>10. op'[t] = NoOp /\ op' \in [Turns -> Op] /\ \A u \in Turns \ {t} : op'[u] = op[u]
    BY <1>3, <1>7, Nothing DEF Op, NoOp
  <1>11. /\ holder' \in [Ids -> Turns \cup {Nobody}]
         /\ \A x \in Ids : \A u \in Turns : holder[x] = u => holder'[x] = u
         /\ m \notin Fresh(t) /\ Changes(t) # {} => holder'[m] = t
    <2>1. CASE Sends(t)
      <3>1. holder[m] \in {Nobody, t} /\ Nobody \notin Turns
        BY <1>3, <1>2, <2>1, MemoryAssumption DEF Waits, Nobody, None
      <3> QED
        BY <1>3, <1>5, <1>7, <2>1, <3>1
    <2>2. CASE ~Sends(t)
      BY <1>3, <1>2, <1>7, <2>2 DEF Sends
    <2> QED
      BY <2>1, <2>2
  <1>12. /\ \A x \in Ids : Loaded(t, x)' <=> Loaded(t, x)
         /\ Fresh(t)' = Fresh(t)
    <2>1. \A x \in Ids : Loaded(t, x)' <=> Loaded(t, x)
      BY <1>5, <1>8 DEF Loaded
    <2> QED
      BY <1>3, <2>1 DEF Fresh
  <1>13. \A x \in Ids : copy'[t][x].origin = copy[t][x].origin
                        /\ (~copy[t][x].active => ~copy'[t][x].active)
    BY <1>5, <1>2, <1>8 DEF mine
  <1>14. OpOK(t)'
    BY <1>10, Nothing DEF OpOK
  <1>15. ASSUME NEW x \in Ids PROVE HeirOK(t, x)'
    <2>1. CopyOK(t, x)
      BY <1>4
    <2>2. \A h \in Ids : (Present(h)' <=> Present(h))
      BY <1>3 DEF Present
    <2>3. \A h \in Fresh(t) : h \in Ids
      BY DEF Fresh
    <2>4. CASE x # m \/ op[t].kind # "supersede"
      <3>1. copy'[t][x].heir = copy[t][x].heir
            /\ ("heir" \in dirty'[t][x] <=> "heir" \in dirty[t][x])
        BY <1>5, <1>2, <1>6, <1>8, <1>9, <2>4 DEF mine
      <3>2. copy[t][x].heir \in Ids \cup {None}
        BY <1>7 DEF Row
      <3> QED
        BY <1>12, <1>13, <2>1, <2>2, <2>3, <3>1, <3>2 DEF CopyOK, HeirOK
    <2>5. CASE x = m /\ op[t].kind = "supersede"
      <3>1. PICK n \in Fresh(t) : n = op[t].heir
        BY <1>5, <2>5
      <3>2. copy'[t][x].heir = n /\ copy[t][n].origin = x
        BY <1>2, <1>4, <1>5, <1>8, <2>5, <3>1 DEF OpOK
      <3>3. Loaded(t, n)'
        BY <1>12, <3>1 DEF Fresh
      <3> QED
        BY <1>12, <1>13, <2>3, <3>1, <3>2, <3>3 DEF HeirOK
    <2> QED
      BY <2>4, <2>5
  <1>16. ASSUME NEW x \in Ids PROVE OriginOK(t, x)'
    <2>0. PICK origin \in Ids \cup {None} : origin = copy[t][x].origin
      BY <1>7 DEF Row
    <2>1. CopyOK(t, x)
      BY <1>4
    <2>2. copy'[t][x].origin = origin
      BY <1>13, <2>0
    <2> SUFFICES ASSUME x \in Fresh(t), origin # None
                 PROVE  Loaded(t, origin)' /\ (t \notin broken => ~copy'[t][origin].active)
      BY <1>3, <1>12, <2>2 DEF OriginOK
    <2>3. Loaded(t, origin)' /\ origin \in Ids
      BY <1>12, <2>0, <2>1 DEF CopyOK, OriginOK
    <2>4. CASE op[t].heir # x
      BY <1>13, <2>0, <2>1, <2>3, <2>4 DEF CopyOK, OriginOK
    <2>5. CASE op[t].heir = x
      <3>1. op[t].kind = "supersede"
        BY <1>4, <2>5, Nothing DEF OpOK
      <3>2. origin = m
        BY <1>4, <1>2, <2>0, <2>5, <3>1 DEF OpOK
      <3> QED
        BY <1>5, <1>8, <2>3, <3>1, <3>2
    <2> QED
      BY <2>4, <2>5
  <1>17. ASSUME NEW x \in Ids PROVE DirtyOK(t, x)'
    <2>1. CopyOK(t, x)
      BY <1>4
    <2>2. CASE x # m
      BY <1>3, <1>8, <1>9, <1>11, <1>12, <2>1, <2>2 DEF CopyOK, DirtyOK, Present
    <2>3. CASE x = m
      <3>1. DirtyOK(t, m)
        BY <2>1, <2>3 DEF CopyOK
      <3>2. dirty'[t][m] # {} => Loaded(t, m)' /\ (holder'[m] = t \/ m \in Fresh(t)')
        <4>1. Loaded(t, m)' /\ Fresh(t)' = Fresh(t)
          BY <1>2, <1>5, <1>12
        <4>2. dirty[t][m] # {} => holder'[m] = t \/ m \in Fresh(t)
          BY <1>11, <3>1 DEF DirtyOK
        <4>3. dirty'[t][m] # {} => dirty[t][m] # {} \/ Changes(t) # {}
          BY <1>9
        <4> QED
          BY <1>11, <4>1, <4>2, <4>3
      <3>3. "active" \in dirty'[t][m] => "validity" \in dirty'[t][m]
        BY <1>6, <1>9, <3>1 DEF DirtyOK
      <3>4. "validity" \in dirty'[t][m] => ~copy'[t][m].active
        BY <1>5, <1>6, <1>8, <1>9, <3>1, <1>2 DEF DirtyOK, mine
      <3>5. "validity" \in dirty'[t][m] /\ copy'[t][m].validity = "superseded" =>
                "heir" \in dirty'[t][m]
        <4>1. CASE op[t].kind = "supersede"
          BY <1>6, <1>9, <4>1
        <4>2. CASE op[t].kind # "supersede" /\ after = mine
          <5>1. Changes(t) = {}
            BY <1>2, <4>2 DEF Changes, after, mine
          <5> QED
            BY <1>8, <1>9, <3>1, <4>2, <5>1, <1>2 DEF DirtyOK, mine
        <4>3. CASE op[t].kind # "supersede" /\ after # mine
          BY <1>5, <1>8, <4>3
        <4> QED
          BY <4>1, <4>2, <4>3
      <3>6. Loaded(t, m)' /\ Present(m)' /\ ~copy'[t][m].active /\ "active" \notin dirty'[t][m]
                => ~row'[m].active
        BY <1>3, <1>5, <1>6, <1>8, <1>9, <3>1, <1>2 DEF DirtyOK, Present, mine
      <3> QED
        BY <2>3, <3>2, <3>3, <3>4, <3>5, <3>6 DEF DirtyOK
    <2> QED
      BY <2>2, <2>3
  <1>18. ASSUME NEW x \in Ids PROVE Sane(copy[t][x])'
    BY <1>4, <1>5, <1>8 DEF CopyOK, Sane
  <1>19. TurnOK(t)'
    BY <1>14, <1>15, <1>16, <1>17, <1>18 DEF TurnOK, CopyOK
  <1>20. TypeOK'
    BY <1>3, <1>4, <1>8, <1>9, <1>10, <1>11 DEF TypeOK, Op
  <1>21. \A u \in Turns \ {t} :
            /\ copy'[u] = copy[u] /\ dirty'[u] = dirty[u] /\ op'[u] = op[u]
            /\ u \in broken' <=> u \in broken
            /\ \A x \in Ids : holder[x] = u => holder'[x] = u
    BY <1>3, <1>8, <1>9, <1>10, <1>11
  <1>22. row' = row /\ \A x \in Fresh(t)' : x \in Fresh(t)
    BY <1>3, <1>12
  <1> QED
    BY <1>19, <1>20, <1>21, <1>22, OneTurn

\* A flush that fails leaves the copies as they are, and the session broken.
LEMMA FlushFailsKeeps ==
    ASSUME Inv, NEW t \in Turns, FlushFails(t)
    PROVE  Inv'
  <1>1. /\ op' = [op EXCEPT ![t] = NoOp] /\ broken' = broken \cup {t}
        /\ UNCHANGED <<row, phase, copy, dirty, ops, holder>>
    BY DEF FlushFails, Breaks
  <1>2. TypeOK /\ TurnOK(t) /\ op \in [Turns -> Op]
    BY Types DEF Inv
  <1>3. op'[t] = NoOp /\ op' \in [Turns -> Op] /\ \A u \in Turns \ {t} : op'[u] = op[u]
    BY <1>1, <1>2, Nothing DEF Op, NoOp
  <1>4. Fresh(t)' = Fresh(t) /\ \A x \in Ids : Loaded(t, x)' <=> Loaded(t, x)
    BY <1>1 DEF Fresh, Loaded
  <1>5. ASSUME NEW x \in Ids PROVE CopyOK(t, x)'
    <2>1. CopyOK(t, x) /\ t \in broken'
      BY <1>1, <1>2 DEF TurnOK
    <2>2. HeirOK(t, x)'
      BY <1>1, <1>4, <2>1 DEF CopyOK, HeirOK, Present, Loaded
    <2>3. OriginOK(t, x)'
      BY <1>1, <1>4, <2>1 DEF CopyOK, OriginOK, Loaded
    <2>4. DirtyOK(t, x)'
      BY <1>1, <1>4, <2>1 DEF CopyOK, DirtyOK, Present
    <2> QED
      BY <1>1, <2>1, <2>2, <2>3, <2>4 DEF CopyOK, Sane
  <1>6. OpOK(t)'
    BY <1>3, Nothing DEF OpOK
  <1>7. TypeOK'
    BY <1>1, <1>2, <1>3 DEF TypeOK, Op
  <1>8. TurnOK(t)'
    BY <1>5, <1>6 DEF TurnOK
  <1> QED
    BY <1>1, <1>3, <1>4, <1>7, <1>8, OneTurn

-----------------------------------------------------------------------------
(* The end of a turn *)

\* A turn that opens has loaded nothing yet.
LEMMA OpenKeeps ==
    ASSUME Inv, NEW t \in Turns, Open(t)
    PROVE  Inv'
  <1>1. UNCHANGED <<row, copy, dirty, op, ops, broken, holder>>
        /\ phase' = [phase EXCEPT ![t] = "open"]
    BY DEF Open
  <1>2. TypeOK'
    BY <1>1 DEF Inv, TypeOK
  <1>3. \A u \in Turns : TurnOK(u)' /\ Fresh(u)' = Fresh(u)
    BY <1>1, OthersKept
  <1> QED
    BY <1>1, <1>2, <1>3, RowsKept DEF Inv, Apart

\* Whoever ends lets go of everything and keeps nothing.
LEMMA EndsIs ==
    ASSUME TypeOK, NEW t \in Turns, Ends(t), row' \in [Ids -> Row]
    PROVE  /\ TypeOK' /\ TurnOK(t)' /\ Fresh(t)' = {}
           /\ \A u \in Turns \ {t} :
                 /\ copy'[u] = copy[u] /\ dirty'[u] = dirty[u] /\ op'[u] = op[u]
                 /\ u \in broken' <=> u \in broken
                 /\ \A m \in Ids : holder[m] = u => holder'[m] = u
  <1>1. /\ phase' = [phase EXCEPT ![t] = "ended"]
        /\ copy' = [copy EXCEPT ![t] = [m \in Ids |-> NoRow]]
        /\ dirty' = [dirty EXCEPT ![t] = [m \in Ids |-> {}]]
        /\ op' = [op EXCEPT ![t] = NoOp]
        /\ broken' = broken \ {t}
        /\ holder' = [m \in Ids |-> IF holder[m] = t THEN Nobody ELSE holder[m]]
        /\ UNCHANGED ops
    BY DEF Ends
  <1>2. /\ copy \in [Turns -> [Ids -> Row]] /\ dirty \in [Turns -> [Ids -> SUBSET Columns]]
        /\ op \in [Turns -> Op] /\ holder \in [Ids -> Turns \cup {Nobody}]
        /\ phase \in [Turns -> {"idle", "open", "ended"}] /\ broken \subseteq Turns
    BY Types
  <1>3. [m \in Ids |-> NoRow] \in [Ids -> Row] /\ NoOp \in Op
        /\ [m \in Ids |-> {}] \in [Ids -> SUBSET Columns]
    BY Nothing DEF Op, NoOp
  <1>4. /\ copy' \in [Turns -> [Ids -> Row]] /\ dirty' \in [Turns -> [Ids -> SUBSET Columns]]
        /\ op' \in [Turns -> Op]
    BY <1>1, <1>2, <1>3
  <1>5. TypeOK'
    BY <1>1, <1>2, <1>4 DEF TypeOK, Op
  <1>6. op'[t] = NoOp /\ \A m \in Ids : copy'[t][m] = NoRow /\ dirty'[t][m] = {}
    BY <1>1, <1>2
  <1>7. TurnOK(t)' /\ Fresh(t)' = {}
    BY <1>6, EmptySession
  <1> QED
    BY <1>1, <1>2, <1>5, <1>7

\* A rollback commits nothing.
LEMMA RollbackKeeps ==
    ASSUME Inv, NEW t \in Turns, Rollback(t)
    PROVE  Inv'
  <1>1. row' = row /\ Ends(t) /\ TypeOK /\ row \in [Ids -> Row]
    BY Types DEF Rollback, Inv
  <1>2. /\ TypeOK' /\ TurnOK(t)' /\ Fresh(t)' = {}
        /\ \A u \in Turns \ {t} :
              /\ copy'[u] = copy[u] /\ dirty'[u] = dirty[u] /\ op'[u] = op[u]
              /\ u \in broken' <=> u \in broken
              /\ \A m \in Ids : holder[m] = u => holder'[m] = u
    BY <1>1, EndsIs
  <1> QED
    BY <1>1, <1>2, OneTurn

\* What a commit makes of a row: it has ended if the row or the copy had.
LEMMA CommittedRow ==
    ASSUME Inv, NEW t \in Turns, Commit(t), NEW m \in Ids, Present(m)
    PROVE  /\ row'[m] \in Row /\ Sane(row'[m]) /\ Present(m)'
           /\ row'[m].origin = row[m].origin
           /\ ~row[m].active => ~row'[m].active
           /\ Loaded(t, m) /\ ~copy[t][m].active => ~row'[m].active
           /\ \/ row'[m].heir = row[m].heir
              \/ row'[m].heir = copy[t][m].heir /\ "heir" \in dirty[t][m]
  <1> DEFINE mine == copy[t][m]
             columns == dirty[t][m]
             new == Merged(row[m], mine, columns)
  <1>1. row[m] \in Row /\ mine \in Row /\ columns \in SUBSET Columns /\ RowOK(m) /\ CopyOK(t, m)
    BY Types DEF Inv, TurnOK
  <1>2. DirtyOK(t, m) /\ HeirOK(t, m) /\ Sane(mine) /\ Sane(row[m])
    BY <1>1 DEF CopyOK, RowOK
  <1>3. row'[m] = Visible(t, m)
    BY DEF Commit
  <1>4. /\ new.active = IF "active" \in columns THEN mine.active ELSE row[m].active
        /\ new.validity = IF "validity" \in columns THEN mine.validity ELSE row[m].validity
        /\ new.heir = IF "heir" \in columns THEN mine.heir ELSE row[m].heir
        /\ new.origin = row[m].origin
        /\ new \in Row
    BY <1>1 DEF Merged, Row, Present
  <1>5. row'[m] = new
    <2>1. CASE Written(t, m)
      BY <1>3, <2>1 DEF Visible
    <2>2. CASE ~Written(t, m)
      <3>1. columns = {}
        BY <1>2, <2>2 DEF DirtyOK, Written
      <3>2. new = row[m]
        <4>1. new = [row[m] EXCEPT !.active = row[m].active, !.validity = row[m].validity,
                                   !.heir = row[m].heir]
          BY <3>1 DEF Merged, Present
        <4> QED
          BY <1>1, <4>1 DEF Row
      <3> QED
        BY <1>3, <2>2, <3>2 DEF Visible
    <2> QED
      BY <2>1, <2>2
  <1> HIDE DEF new
  <1>6. columns # {} => Loaded(t, m) /\ mine.validity # "absent"
    BY <1>2 DEF DirtyOK, Loaded
  <1>7. "heir" \in columns => mine.heir # None
    <2>1. "heir" \in columns => mine.heir \in Fresh(t)
      BY <1>2 DEF HeirOK
    <2> QED
      BY <2>1, Nothing DEF Fresh
  <1>8. ~row[m].active => ~new.active
    BY <1>2, <1>4 DEF DirtyOK
  <1>9. Loaded(t, m) /\ ~mine.active => ~new.active
    BY <1>2, <1>4 DEF DirtyOK
  <1>10. new.validity # "absent"
    BY <1>4, <1>6 DEF Present
  <1>11. new.active <=> new.validity = "active"
    <2>1. CASE "validity" \in columns
      <3>1. ~mine.active /\ Loaded(t, m)
        BY <1>2, <1>6, <2>1 DEF DirtyOK
      <3>2. mine.validity # "active"
        BY <1>2, <3>1 DEF Sane
      <3> QED
        BY <1>4, <1>9, <2>1, <3>1, <3>2
    <2>2. CASE "validity" \notin columns
      <3>1. "active" \notin columns
        BY <1>2, <2>2 DEF DirtyOK
      <3> QED
        BY <1>2, <1>4, <2>2, <3>1 DEF Sane
    <2> QED
      BY <2>1, <2>2
  <1>12. new.validity = "superseded" => new.heir # None
    <2>1. CASE "heir" \in columns
      BY <1>4, <1>7, <2>1
    <2>2. CASE "heir" \notin columns
      <3>1. "validity" \in columns => mine.validity # "superseded"
        BY <1>2, <2>2 DEF DirtyOK
      <3> QED
        BY <1>2, <1>4, <2>2, <3>1 DEF Sane
    <2> QED
      BY <2>1, <2>2
  <1>13. Sane(new)
    BY <1>10, <1>11, <1>12 DEF Sane
  <1> QED
    BY <1>4, <1>5, <1>8, <1>9, <1>10, <1>13 DEF Present

\* A row that is not there is what the session made of it, if anything.
LEMMA CommittedFresh ==
    ASSUME Inv, NEW t \in Turns, Commit(t), NEW m \in Ids, ~Present(m)
    PROVE  row'[m] = copy[t][m] /\ row'[m] \in Row /\ (Present(m)' <=> m \in Fresh(t))
  <1>1. row[m] \in Row /\ copy[t][m] \in Row /\ Sane(row[m]) /\ Sane(copy[t][m])
    BY Types DEF Inv, TurnOK, CopyOK, RowOK
  <1>2. row'[m] = Visible(t, m) /\ row[m].validity = "absent"
    BY DEF Commit, Present
  <1>3. row'[m] = copy[t][m]
    <2>1. CASE Written(t, m)
      BY <1>2, <2>1 DEF Visible, Merged
    <2>2. CASE ~Written(t, m)
      <3>1. ~Loaded(t, m)
        BY <1>2, <2>2 DEF Written, Fresh
      <3>2. copy[t][m] = NoRow /\ row[m] = NoRow
        BY <1>1, <1>2, <3>1 DEF Sane, Loaded
      <3> QED
        BY <1>2, <2>2, <3>2 DEF Visible
    <2> QED
      BY <2>1, <2>2
  <1> QED
    BY <1>1, <1>2, <1>3 DEF Present, Fresh, Loaded

\* A commit leaves rows that name each other and sessions that may go on.
LEMMA CommitKeeps ==
    ASSUME Inv, NEW t \in Turns, Commit(t)
    PROVE  Inv'
  <1>1. Ends(t) /\ TypeOK /\ t \notin broken /\ op[t] = NoOp /\ TurnOK(t)
    BY DEF Commit, InTurn, Inv
  <1>2. row' \in [Ids -> Row]
    <2>1. \A m \in Ids : row'[m] \in Row
      BY CommittedRow, CommittedFresh
    <2> QED
      BY <2>1 DEF Commit
  <1>3. /\ TypeOK' /\ TurnOK(t)' /\ Fresh(t)' = {}
        /\ \A u \in Turns \ {t} :
              /\ copy'[u] = copy[u] /\ dirty'[u] = dirty[u] /\ op'[u] = op[u]
              /\ u \in broken' <=> u \in broken
              /\ \A m \in Ids : holder[m] = u => holder'[m] = u
    BY <1>1, <1>2, EndsIs
  <1>4. \A m \in Ids : Present(m)' <=> Present(m) \/ m \in Fresh(t)
    BY CommittedRow, CommittedFresh
  <1>5. \A m \in Ids : Present(m) => row'[m].origin = row[m].origin
                                     /\ (~row[m].active => ~row'[m].active)
    BY CommittedRow
  <1>6. \A m \in Fresh(t) : m \in Ids /\ ~Present(m) /\ row'[m] = copy[t][m]
    BY CommittedFresh DEF Fresh, Present
  <1>7. ASSUME NEW m \in Ids PROVE RowOK(m)'
    <2>1. RowOK(m) /\ CopyOK(t, m)
      BY <1>1 DEF Inv, TurnOK
    <2>2. CASE Present(m)
      <3>1. Sane(row'[m]) /\ Sane(row[m])'
        BY <2>2, CommittedRow DEF Sane
      <3>2. ASSUME row'[m].heir # None
            PROVE  Present(row[m].heir)' /\ row'[row'[m].heir].origin = m
        <4>1. PICK h : h = row'[m].heir
          OBVIOUS
        <4>2. CASE h = row[m].heir
          <5>1. Present(h) /\ row[h].origin = m /\ h \in Ids
            <6>1. row[m].heir \in Ids \cup {None}
              BY <1>1, Types DEF Row
            <6> QED
              BY <2>1, <3>2, <4>1, <4>2, <6>1 DEF RowOK
          <5> QED
            BY <1>4, <1>5, <4>1, <5>1 DEF Present
        <4>3. CASE h = copy[t][m].heir /\ "heir" \in dirty[t][m]
          <5>1. h \in Fresh(t) /\ copy[t][h].origin = m
            BY <2>1, <4>3 DEF CopyOK, HeirOK
          <5> QED
            BY <1>4, <1>6, <4>1, <5>1 DEF Present
        <4> QED
          BY <2>2, <4>1, <4>2, <4>3, CommittedRow
      <3>3. ASSUME row'[m].origin # None
            PROVE  Present(row[m].origin)' /\ ~row'[row'[m].origin].active
        <4>1. PICK o : o = row[m].origin
          OBVIOUS
        <4>2. row'[m].origin = o
          BY <1>5, <2>2, <4>1
        <4>3. Present(o) /\ ~row[o].active /\ o \in Ids
          <5>1. row[m].origin \in Ids \cup {None}
            BY <1>1, Types DEF Row
          <5> QED
            BY <2>1, <3>3, <4>1, <4>2, <5>1 DEF RowOK
        <4> QED
          BY <1>4, <1>5, <4>2, <4>3 DEF Present
      <3> QED
        BY <3>1, <3>2, <3>3 DEF RowOK
    <2>3. CASE ~Present(m) /\ m \in Fresh(t)
      <3>1. row'[m] = copy[t][m] /\ copy[t][m] \in Row
        BY <1>1, <1>6, <2>3, Types
      <3>2. Sane(row[m])'
        BY <2>1, <3>1 DEF CopyOK, Sane
      <3>3. ASSUME row'[m].heir # None
            PROVE  Present(row[m].heir)' /\ row'[row'[m].heir].origin = m
        <4>1. PICK h : h = copy[t][m].heir
          OBVIOUS
        <4>2. h \in Fresh(t) /\ copy[t][h].origin = m
          BY <2>1, <2>3, <3>1, <3>3, <4>1 DEF CopyOK, HeirOK
        <4> QED
          BY <1>4, <1>6, <3>1, <4>1, <4>2 DEF Present
      <3>4. ASSUME row'[m].origin # None
            PROVE  Present(row[m].origin)' /\ ~row'[row'[m].origin].active
        <4>1. PICK o \in Ids : o = copy[t][m].origin
          BY <3>1, <3>4 DEF Row
        <4>2. Loaded(t, o) /\ ~copy[t][o].active
          BY <1>1, <2>1, <2>3, <4>1, Nothing DEF CopyOK, OriginOK
        <4>3. Present(o) \/ o \in Fresh(t)
          BY <4>2 DEF Fresh, Present
        <4>4. ~row'[o].active
          BY <1>6, <4>2, <4>3, CommittedRow
        <4> QED
          BY <1>4, <3>1, <4>1, <4>3, <4>4 DEF Present
      <3> QED
        BY <3>2, <3>3, <3>4 DEF RowOK
    <2>4. CASE ~Present(m) /\ m \notin Fresh(t)
      <3>1. row'[m] = NoRow
        BY <1>4, <2>1, <2>4, CommittedFresh DEF CopyOK, Sane, Present
      <3> QED
        BY <3>1, Nothing DEF RowOK, Sane
    <2> QED
      BY <2>2, <2>3, <2>4
  <1>8. ASSUME NEW u \in Turns \ {t} PROVE TurnOK(u)' /\ Fresh(u)' = Fresh(u)
    <2>1. TurnOK(u) /\ \A m \in Ids : CopyOK(u, m)
      BY DEF Inv, TurnOK
    <2>2. \A m \in Ids : Loaded(u, m)' <=> Loaded(u, m)
      BY <1>3 DEF Loaded
    <2>3. \A m \in Ids : m \in Fresh(u) => ~Present(m) /\ ~Present(m)'
      BY <1>4 DEF Inv, Apart, Fresh, Present
    <2>4. Fresh(u)' = Fresh(u)
      <3>1. \A m \in Ids : m \in Fresh(u) <=> ~Present(m) /\ Loaded(u, m)
        BY DEF Fresh, Present
      <3>2. \A m \in Ids : m \in Fresh(u)' <=> ~Present(m)' /\ Loaded(u, m)'
        BY DEF Fresh, Present
      <3>3. Fresh(u) \subseteq Ids /\ Fresh(u)' \subseteq Ids
        BY DEF Fresh
      <3> QED
        BY <1>4, <2>2, <2>3, <3>1, <3>2, <3>3
    <2>5. OpOK(u)'
      BY <1>3, <2>1, <2>2, <2>4 DEF TurnOK, OpOK
    <2>6. ASSUME NEW m \in Ids PROVE CopyOK(u, m)'
      <3>1. CopyOK(u, m) /\ copy[u][m] \in Row
        BY <1>1, <2>1, Types
      <3>2. Sane(copy[u][m])'
        BY <1>3, <3>1 DEF CopyOK, Sane
      <3>3. HeirOK(u, m)'
        <4>1. PICK h \in Ids \cup {None} : h = copy[u][m].heir /\ h = copy'[u][m].heir
          BY <1>3, <3>1 DEF Row
        <4>2. h # None => Present(h)' \/ Loaded(u, h)'
          BY <1>4, <2>2, <3>1, <4>1 DEF CopyOK, HeirOK
        <4>3. "heir" \in dirty'[u][m] \/ (m \in Fresh(u)' /\ h # None) =>
                  h \in Fresh(u)' /\ copy'[u][h].origin = m
          BY <1>3, <2>4, <3>1, <4>1 DEF CopyOK, HeirOK
        <4> QED
          BY <4>1, <4>2, <4>3 DEF HeirOK
      <3>4. OriginOK(u, m)'
        <4>1. PICK o \in Ids \cup {None} : o = copy[u][m].origin /\ o = copy'[u][m].origin
          BY <1>3, <3>1 DEF Row
        <4> QED
          BY <1>3, <2>2, <2>4, <3>1, <4>1 DEF CopyOK, OriginOK
      <3>5. DirtyOK(u, m)'
        <4>1. DirtyOK(u, m)
          BY <3>1 DEF CopyOK
        <4>2. Loaded(u, m) /\ Present(m)' => Present(m)
          BY <2>3 DEF Fresh, Present
        <4> QED
          BY <1>3, <1>5, <2>2, <2>4, <4>1, <4>2 DEF DirtyOK
      <3> QED
        BY <3>2, <3>3, <3>4, <3>5 DEF CopyOK
    <2> QED
      BY <2>4, <2>5, <2>6 DEF TurnOK
  <1>9. Apart'
    BY <1>3, <1>8 DEF Inv, Apart
  <1> QED
    BY <1>3, <1>7, <1>8, <1>9 DEF Inv

-----------------------------------------------------------------------------
\* Nobody has loaded anything at the start, and the known memories are active.
LEMMA InitInv == Init => Inv
  <1> SUFFICES ASSUME Init
               PROVE  Inv
    OBVIOUS
  <1>1. \A m \in Ids : row[m] \in {NewRow(None), NoRow} /\ holder[m] = None
    BY DEF Init
  <1>2. \A t \in Turns : op[t] = NoOp /\ \A m \in Ids : copy[t][m] = NoRow /\ dirty[t][m] = {}
    BY DEF Init
  <1>3. TypeOK
    <2>1. row \in [Ids -> Row] /\ copy \in [Turns -> [Ids -> Row]]
      BY NewRowIs, Nothing DEF Init
    <2>2. op \in [Turns -> Op] /\ ops \in [Turns -> 0..MaxOps]
      BY Nothing, MemoryAssumption DEF Init, Op, NoOp
    <2>3. /\ phase \in [Turns -> {"idle", "open", "ended"}]
          /\ dirty \in [Turns -> [Ids -> SUBSET Columns]]
          /\ broken \subseteq Turns /\ holder \in [Ids -> Turns \cup {Nobody}]
      BY DEF Init, Nobody
    <2> QED
      BY <2>1, <2>2, <2>3 DEF TypeOK, Op
  <1>4. \A m \in Ids : RowOK(m)
    BY <1>1, NewRowIs, Nothing DEF RowOK
  <1>5. ASSUME NEW t \in Turns PROVE TurnOK(t) /\ Fresh(t) = {}
    <2>1. \A m \in Ids : ~Loaded(t, m)
      BY <1>2, Nothing DEF Loaded
    <2>2. Fresh(t) = {}
      BY <2>1 DEF Fresh
    <2>3. OpOK(t)
      BY <1>2, Nothing DEF OpOK
    <2>4. ASSUME NEW m \in Ids PROVE CopyOK(t, m)
      BY <1>2, <2>1, <2>2, Nothing DEF CopyOK, HeirOK, OriginOK, DirtyOK
    <2> QED
      BY <2>2, <2>3, <2>4 DEF TurnOK
  <1>6. Apart
    BY <1>5 DEF Apart
  <1> QED
    BY <1>3, <1>4, <1>5, <1>6 DEF Inv

\* No step of a turn breaks the invariant.
LEMMA StepInv == Inv /\ [Next]_vars => Inv'
  <1> SUFFICES ASSUME Inv, [Next]_vars
               PROVE  Inv'
    OBVIOUS
  <1>1. CASE UNCHANGED vars
    <2>1. UNCHANGED <<row, phase, copy, dirty, op, ops, broken, holder>>
      BY <1>1 DEF vars
    <2>2. TypeOK'
      BY <2>1 DEF Inv, TypeOK
    <2>3. \A u \in Turns : TurnOK(u)' /\ Fresh(u)' = Fresh(u)
      BY <2>1, OthersKept
    <2> QED
      BY <2>1, <2>2, <2>3, RowsKept DEF Inv, Apart
  <1>2. CASE Next
    BY <1>2, OpenKeeps, SearchKeeps, CreateKeeps, BeginKeeps, BeginSupersedeKeeps, FlushKeeps,
       FlushFailsKeeps, CommitKeeps, RollbackKeeps DEF Next
  <1> QED
    BY <1>1, <1>2

\* The inductive invariant holds in every reachable state.
THEOREM InvHolds == Spec => []Inv
  BY InitInv, StepInv, PTL DEF Spec

\* Every variable has its type, however many turns and memories there are.
THEOREM TypeCorrect == Spec => []TypeOK
  BY InvHolds, PTL DEF Inv

\* What was replaced is not active beside its replacement, and names it
\* (store.py:441-474).
THEOREM LinesAreKept == Spec => []LinesHold
  <1>1. Inv => LinesHold
    BY DEF Inv, RowOK, Sane, LinesHold
  <1> QED
    BY <1>1, InvHolds, PTL

\* A committed row that has ended is not active after any step.
LEMMA StepKeepsEnds ==
    ASSUME Inv, [Next]_vars, NEW m \in Ids, row[m].validity \notin {"absent", "active"}
    PROVE  row'[m].validity \notin {"absent", "active"} /\ ~row'[m].active
  <1>1. Present(m) /\ ~row[m].active
    BY DEF Inv, RowOK, Sane, Present
  <1>2. ASSUME NEW t \in Turns, Commit(t)
        PROVE  row'[m].validity \notin {"absent", "active"} /\ ~row'[m].active
    <2>1. Sane(row'[m]) /\ Present(m)' /\ ~row'[m].active
      BY <1>1, <1>2, CommittedRow
    <2> QED
      BY <2>1 DEF Sane, Present
  <1>3. CASE row' = row
    BY <1>1, <1>3
  <1> QED
    BY <1>2, <1>3 DEF Next, vars, Open, Search, Create, Begin, BeginSupersede, Flush, FlushFails,
       Rollback

\* What a turn forgot or replaced no other turn's stale copy brings back
\* (store.py:459, 513).
THEOREM EndedNeverReturns == Spec => EndedStaysEnded
  <1>1. Inv /\ [Next]_vars =>
          [\A m \in Ids :
              row[m].validity \notin {"absent", "active"} =>
                  /\ row'[m].validity \notin {"absent", "active"}
                  /\ ~row'[m].active]_vars
    BY StepKeepsEnds
  <1> QED
    BY <1>1, InvHolds, PTL DEF Spec, EndedStaysEnded
=============================================================================
