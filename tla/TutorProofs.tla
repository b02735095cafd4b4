----------------------------- MODULE TutorProofs -----------------------------
(***************************************************************************)
(* Proofs about Tutor for any turns, providers, hosts, cooldowns and caps. *)
(*                                                                         *)
(* What a turn tells the student at its end depends on the rounds before:  *)
(* CompletionOK says which providers have given up on the completion it is *)
(* at, ReplyOK what it has to say so far.  That a request is not posted to *)
(* a cooling host depends on what the other turns do while it sleeps:      *)
(* CoolOK and SleepOK say that the cooldown is never shorter than what was *)
(* asked for, nor a sleep than what is left of it, unless it is excused.   *)
(***************************************************************************)
EXTENDS Tutor, TLAPS

TurnRow == [phase : Phases, n : 0..MaxContinuations, late : BOOLEAN,
            prov : 1..N + 1, tries : Nat, left : 0..Cap,
            reply : Replies, dirs : Directives, broken : BOOLEAN]

InCompletion == {"asking", "sleeping", "calling"}
InLoop == {"idle", "looping", "acting"}

CompletionOK(t) ==
    /\ turn[t].phase \in InCompletion => failed[t] = 1..(turn[t].prov - 1)
    /\ turn[t].phase \in {"sleeping", "calling"} => turn[t].prov \in Providers
    /\ turn[t].phase \in InLoop => turn[t].prov = 1 /\ failed[t] = {}

Explained(t) ==
    /\ turn[t].reply = "apology" <=> failed[t] = Providers
    /\ turn[t].reply = "said" => t \in said
    /\ turn[t].reply = "moment" => t \notin said /\ ~CanContinue(t)
    /\ turn[t].reply = "none" => t \notin said

ReplyOK(t) ==
    /\ turn[t].phase \in InLoop \cup InCompletion =>
            /\ turn[t].reply \in {"none", "said"}
            /\ turn[t].reply = "said" <=> t \in said
    /\ turn[t].phase \in {"closing", "done"} => Explained(t)

CoolOK == \A h \in Hosts : owed[h] <= cool[h]

SleepOK(t) ==
    turn[t].phase = "sleeping" /\ t \notin excused => owed[HostOf(t)] <= turn[t].left

Inv ==
    /\ TypeOK
    /\ \A t \in Turns : CompletionOK(t) /\ ReplyOK(t)
    /\ ReplyCommits
    /\ CoolOK
    /\ \A t \in Turns : SleepOK(t)

-----------------------------------------------------------------------------
\* The greater and the lesser of two numbers.
LEMMA TwoNumbers ==
    ASSUME NEW a \in Int, NEW b \in Int
    PROVE  /\ Max({a, b}) = IF a >= b THEN a ELSE b
           /\ Min({a, b}) = IF a <= b THEN a ELSE b
  <1>1. PICK c \in {a, b} : \A y \in {a, b} : c >= y
    <2>1. CASE a >= b
      BY <2>1
    <2>2. CASE b > a
      BY <2>2
    <2> QED
      BY <2>1, <2>2
  <1>2. Max({a, b}) \in {a, b} /\ \A y \in {a, b} : Max({a, b}) >= y
    BY <1>1 DEF Max
  <1>3. PICK d \in {a, b} : \A y \in {a, b} : d <= y
    <2>1. CASE a >= b
      BY <2>1
    <2>2. CASE b > a
      BY <2>2
    <2> QED
      BY <2>1, <2>2
  <1>4. Min({a, b}) \in {a, b} /\ \A y \in {a, b} : Min({a, b}) <= y
    BY <1>3 DEF Min
  <1> QED
    BY <1>2, <1>4

\* What is left after a tick.
LEMMA LessIs ==
    ASSUME NEW x \in Nat
    PROVE  Less(x) = IF x = 0 THEN 0 ELSE x - 1
  BY TwoNumbers DEF Less

\* TypeOK, with the row of a turn by its name.
LEMMA Types ==
    TypeOK <=> /\ host \in [Providers -> Hosts]
               /\ cool \in [Hosts -> Nat]
               /\ owed \in [Hosts -> Nat]
               /\ turn \in [Turns -> TurnRow]
               /\ excused \subseteq Turns
               /\ failed \in [Turns -> SUBSET Providers]
               /\ said \subseteq Turns
  BY DEF TypeOK, TurnRow

\* The empty turn and the one that raised.
LEMMA RowTypes == NewTurn \in TurnRow /\ Raised \in TurnRow
  <1>1. NewTurn \in TurnRow
    BY TutorAssumption DEF NewTurn, TurnRow, Phases, Replies, Directives
  <1> QED
    BY <1>1 DEF Raised, TurnRow, Phases

\* A turn that raised has nothing to say.
LEMMA RaisedIs == Raised.phase = "raised"
  BY DEF Raised, NewTurn

\* The providers are never none, and the last of them is N.
LEMMA ProvidersAre == Providers # {} /\ Providers = 1..N /\ N \in Nat \ {0}
  <1>1. N \in Nat /\ N >= 1
    BY TutorAssumption
  <1>2. 1 \in 1..N
    BY <1>1
  <1> QED
    BY <1>1, <1>2 DEF Providers

-----------------------------------------------------------------------------
(* A step of one turn. *)

\* What the others have is theirs.
LEMMA OneTurn ==
    ASSUME Inv, NEW t \in Turns, NEW row \in TurnRow, turn' = [turn EXCEPT ![t] = row],
           host' = host, cool' \in [Hosts -> Nat], owed' \in [Hosts -> Nat],
           failed' \in [Turns -> SUBSET Providers], said' \subseteq Turns,
           excused' \subseteq Turns,
           \A u \in Turns \ {t} : failed'[u] = failed[u] /\ (u \in said' <=> u \in said),
           CoolOK', \A u \in Turns : SleepOK(u)',
           CompletionOK(t)', ReplyOK(t)', row.phase = "done" => ~row.broken
    PROVE  Inv'
  <1>1. turn \in [Turns -> TurnRow]
    BY Types DEF Inv
  <1>2. turn'[t] = row /\ \A u \in Turns \ {t} : turn'[u] = turn[u]
    BY <1>1
  <1>3. TypeOK'
    <2>1. turn' \in [Turns -> TurnRow]
      BY <1>1
    <2> QED
      BY <2>1 DEF TypeOK, TurnRow, Providers, Inv
  <1>4. ASSUME NEW u \in Turns PROVE CompletionOK(u)' /\ ReplyOK(u)'
    <2>1. CASE u = t
      BY <2>1
    <2>2. CASE u # t
      <3>1. turn'[u] = turn[u] /\ failed'[u] = failed[u] /\ (u \in said' <=> u \in said)
        BY <1>2, <2>2
      <3>2. CompletionOK(u) /\ ReplyOK(u)
        BY DEF Inv
      <3> QED
        BY <3>1, <3>2 DEF CompletionOK, ReplyOK, Explained, CanContinue
    <2> QED
      BY <2>1, <2>2
  <1>5. ReplyCommits'
    BY <1>2 DEF Inv, ReplyCommits, At
  <1> QED
    BY <1>3, <1>4, <1>5 DEF Inv

\* The sleepers sleep on when nobody is armed or asks.
LEMMA SleepersKept ==
    ASSUME Inv, NEW t \in Turns, NEW row \in TurnRow, turn' = [turn EXCEPT ![t] = row],
           host' = host, owed' = owed, \A u \in Turns \ {t} : u \in excused <=> u \in excused',
           row.phase # "sleeping"
    PROVE  \A u \in Turns : SleepOK(u)'
  <1>1. turn \in [Turns -> TurnRow]
    BY Types DEF Inv
  <1> QED
    BY <1>1 DEF Inv, SleepOK, HostOf

\* A step of one turn that arms nothing and does not sleep.
LEMMA QuietStep ==
    ASSUME Inv, NEW t \in Turns, NEW row \in TurnRow, turn' = [turn EXCEPT ![t] = row],
           UNCHANGED <<host, cool, owed>>, row.phase # "sleeping",
           excused' = excused \/ excused' = excused \ {t},
           failed' \in [Turns -> SUBSET Providers], said' \subseteq Turns,
           \A u \in Turns \ {t} : failed'[u] = failed[u] /\ (u \in said' <=> u \in said),
           CompletionOK(t)', ReplyOK(t)', row.phase = "done" => ~row.broken
    PROVE  Inv'
  <1>1. cool \in [Hosts -> Nat] /\ owed \in [Hosts -> Nat] /\ excused \subseteq Turns
    BY Types DEF Inv
  <1>2. CoolOK'
    BY DEF Inv, CoolOK
  <1>3. \A u \in Turns : SleepOK(u)'
    BY SleepersKept
  <1> QED
    BY <1>1, <1>2, <1>3, OneTurn

\* What a turn that raised or has not begun says of the others is nothing.
LEMMA RaisedOK ==
    ASSUME NEW t \in Turns, turn'[t].phase = "raised"
    PROVE  CompletionOK(t)' /\ ReplyOK(t)'
  BY DEF CompletionOK, ReplyOK, InCompletion, InLoop

-----------------------------------------------------------------------------
(* The loop. *)

\* A turn begins with nobody asked; it may find its session broken.
LEMMA StartKeeps ==
    ASSUME Inv, NEW t \in Turns, Start(t)
    PROVE  Inv'
  <1>1. turn \in [Turns -> TurnRow] /\ turn[t] \in TurnRow /\ turn[t].phase = "idle"
        /\ failed \in [Turns -> SUBSET Providers] /\ said \subseteq Turns
    BY Types DEF Inv, Start, At
  <1>2. UNCHANGED <<host, cool, owed, excused, failed, said>>
    BY DEF Start, history
  <1>3. PICK broken \in BOOLEAN, conversation \in BOOLEAN :
            turn' = [turn EXCEPT ![t] =
                IF conversation /\ FlushRaises(broken) THEN Raised
                ELSE [@ EXCEPT !.phase = "looping", !.broken = broken]]
    BY DEF Start
  <1>4. CASE conversation /\ FlushRaises(broken)
    <2>1. turn' = [turn EXCEPT ![t] = Raised] /\ turn'[t] = Raised
      BY <1>1, <1>3, <1>4
    <2> QED
      BY <1>1, <1>2, <2>1, RowTypes, RaisedIs, RaisedOK, QuietStep
  <1>5. CASE ~(conversation /\ FlushRaises(broken))
    <2> DEFINE row == [turn[t] EXCEPT !.phase = "looping", !.broken = broken]
    <2>1. turn' = [turn EXCEPT ![t] = row] /\ turn'[t] = row
      BY <1>1, <1>3, <1>5
    <2>2. /\ row \in TurnRow /\ row.phase = "looping"
          /\ row.prov = turn[t].prov /\ row.reply = turn[t].reply
      BY <1>1 DEF TurnRow, Phases
    <2> HIDE DEF row
    <2>3. CompletionOK(t) /\ ReplyOK(t)
      BY DEF Inv
    <2>4. CompletionOK(t)' /\ ReplyOK(t)'
      BY <1>1, <1>2, <2>1, <2>2, <2>3 DEF CompletionOK, ReplyOK, InCompletion, InLoop
    <2> QED
      BY <1>1, <1>2, <2>1, <2>2, <2>4, QuietStep
  <1> QED
    BY <1>4, <1>5

\* The next round asks the first provider first.
LEMMA LoopKeeps ==
    ASSUME Inv, NEW t \in Turns, Loop(t)
    PROVE  Inv'
  <1> DEFINE row == [turn[t] EXCEPT !.phase = "asking"]
  <1>1. turn \in [Turns -> TurnRow] /\ turn[t] \in TurnRow /\ turn[t].phase = "looping"
        /\ failed \in [Turns -> SUBSET Providers] /\ said \subseteq Turns
    BY Types DEF Inv, Loop, At
  <1>2. UNCHANGED <<host, cool, owed, excused, failed, said>>
    BY DEF Loop, history
  <1>3. turn' = [turn EXCEPT ![t] = row] /\ turn'[t] = row
    BY <1>1 DEF Loop
  <1>4. /\ row \in TurnRow /\ row.phase = "asking"
        /\ row.prov = turn[t].prov /\ row.reply = turn[t].reply
    BY <1>1 DEF TurnRow, Phases
  <1> HIDE DEF row
  <1>5. CompletionOK(t) /\ ReplyOK(t)
    BY DEF Inv
  <1>6. CompletionOK(t)' /\ ReplyOK(t)'
    <2>1. CompletionOK(t)'
      <3>1. turn[t].prov = 1 /\ failed[t] = {}
        BY <1>1, <1>5 DEF CompletionOK, InLoop
      <3>2. 1..(1 - 1) = {}
        OBVIOUS
      <3> QED
        BY <1>2, <1>3, <1>4, <3>1, <3>2 DEF CompletionOK, InCompletion, InLoop
    <2>2. ReplyOK(t)'
      BY <1>1, <1>2, <1>3, <1>4, <1>5 DEF ReplyOK, InCompletion, InLoop
    <2> QED
      BY <2>1, <2>2
  <1> QED
    BY <1>1, <1>2, <1>3, <1>4, <1>6, QuietStep

\* Cut off, the turn has its reply, or owes one to nobody's words.
LEMMA ExhaustedKeeps ==
    ASSUME Inv, NEW t \in Turns, Exhausted(t)
    PROVE  Inv'
  <1> DEFINE row == [turn[t] EXCEPT !.phase = "closing",
                                    !.reply = IF @ = "none" THEN "moment" ELSE @]
  <1>1. turn \in [Turns -> TurnRow] /\ turn[t] \in TurnRow /\ turn[t].phase = "looping"
        /\ failed \in [Turns -> SUBSET Providers] /\ said \subseteq Turns
    BY Types DEF Inv, Exhausted, At
  <1>2. UNCHANGED <<host, cool, owed, excused, failed, said>>
    BY DEF Exhausted, history
  <1>3. turn' = [turn EXCEPT ![t] = row] /\ turn'[t] = row
    BY <1>1 DEF Exhausted
  <1>4. /\ row \in TurnRow /\ row.phase = "closing"
        /\ row.n = turn[t].n /\ row.late = turn[t].late
        /\ row.reply = IF turn[t].reply = "none" THEN "moment" ELSE turn[t].reply
    BY <1>1 DEF TurnRow, Phases, Replies
  <1> HIDE DEF row
  <1>5. CompletionOK(t) /\ ReplyOK(t)
    BY DEF Inv
  <1>6. ~CanContinue(t)'
    BY <1>3, <1>4 DEF Exhausted, CanContinue
  <1>7. failed[t] # Providers
    BY <1>1, <1>5, ProvidersAre DEF CompletionOK, InLoop
  <1>8. ReplyOK(t)'
    BY <1>1, <1>2, <1>3, <1>4, <1>5, <1>6, <1>7, ProvidersAre
       DEF ReplyOK, Explained, InCompletion, InLoop, Providers
  <1>9. CompletionOK(t)'
    BY <1>3, <1>4 DEF CompletionOK, InCompletion, InLoop
  <1> QED
    BY <1>1, <1>2, <1>3, <1>4, <1>8, <1>9, QuietStep

\* A turn that is closed says what it had to say, or raises.
LEMMA CloseKeeps ==
    ASSUME Inv, NEW t \in Turns, Close(t)
    PROVE  Inv'
  <1>1. turn \in [Turns -> TurnRow] /\ turn[t] \in TurnRow /\ turn[t].phase = "closing"
        /\ failed \in [Turns -> SUBSET Providers] /\ said \subseteq Turns
    BY Types DEF Inv, Close, At
  <1>2. UNCHANGED <<host, cool, owed, excused, failed, said>>
    BY DEF Close, history
  <1>3. PICK breaks \in BOOLEAN :
            turn' = [turn EXCEPT ![t] =
                IF FlushRaises(turn[t].broken) \/ FlushRaises(turn[t].broken \/ breaks)
                THEN Raised
                ELSE [@ EXCEPT !.phase = "done", !.broken = turn[t].broken \/ breaks]]
    BY DEF Close
  <1>4. CASE turn[t].broken \/ breaks
    <2>1. turn' = [turn EXCEPT ![t] = Raised] /\ turn'[t] = Raised
      BY <1>1, <1>3, <1>4 DEF FlushRaises
    <2> QED
      BY <1>1, <1>2, <2>1, RowTypes, RaisedIs, RaisedOK, QuietStep
  <1>5. CASE ~(turn[t].broken \/ breaks)
    <2> DEFINE row == [turn[t] EXCEPT !.phase = "done", !.broken = FALSE]
    <2>1. turn' = [turn EXCEPT ![t] = row] /\ turn'[t] = row
      BY <1>1, <1>3, <1>5 DEF FlushRaises
    <2>2. /\ row \in TurnRow /\ row.phase = "done" /\ ~row.broken
          /\ row.n = turn[t].n /\ row.late = turn[t].late /\ row.reply = turn[t].reply
      BY <1>1 DEF TurnRow, Phases
    <2> HIDE DEF row
    <2>3. ReplyOK(t)'
      BY <1>1, <1>2, <2>1, <2>2
         DEF Inv, ReplyOK, Explained, CanContinue, InCompletion, InLoop, Providers
    <2>4. CompletionOK(t)'
      BY <2>1, <2>2 DEF CompletionOK, InCompletion, InLoop
    <2> QED
      BY <1>1, <1>2, <2>1, <2>2, <2>3, <2>4, QuietStep
  <1> QED
    BY <1>4, <1>5

\* The row after agent.tick.
LEMMA TickedIs ==
    ASSUME NEW t \in Turns, turn \in [Turns -> TurnRow], NEW row \in TurnRow,
           NEW phase \in Phases, Ticked(t, row, phase)
    PROVE  \E next \in TurnRow :
              /\ turn' = [turn EXCEPT ![t] = next] /\ turn'[t] = next
              /\ \/ next.phase = "raised"
                 \/ /\ next.phase = phase /\ next.prov = row.prov
                    /\ next.reply = row.reply /\ next.broken = row.broken /\ ~row.broken
  <1>1. CASE row.broken
    <2>1. turn' = [turn EXCEPT ![t] = Raised] /\ turn'[t] = Raised
      BY <1>1 DEF Ticked, FlushRaises
    <2> QED
      BY <2>1, RowTypes, RaisedIs
  <1>2. CASE ~row.broken
    <2> DEFINE n == Min({row.n + 1, MaxContinuations})
               next == [row EXCEPT !.n = n, !.phase = phase]
    <2>1. turn' = [turn EXCEPT ![t] = next] /\ turn'[t] = next
      BY <1>2 DEF Ticked, FlushRaises
    <2>2. row.n \in 0..MaxContinuations
      BY DEF TurnRow
    <2>3. n \in 0..MaxContinuations
      <3>1. MaxContinuations \in Nat /\ row.n + 1 \in Nat
        BY <2>2, TutorAssumption
      <3>2. \A a, b \in Int : Min({a, b}) = IF a <= b THEN a ELSE b
        BY TwoNumbers
      <3>3. n = IF row.n + 1 <= MaxContinuations THEN row.n + 1 ELSE MaxContinuations
        BY <3>1, <3>2
      <3> QED
        BY <3>1, <3>3
    <2> HIDE DEF n
    <2>4. /\ next \in TurnRow /\ next.phase = phase /\ next.prov = row.prov
          /\ next.reply = row.reply /\ next.broken = row.broken
      BY <2>3 DEF TurnRow
    <2> QED
      BY <1>2, <2>1, <2>4
  <1> QED
    BY <1>1, <1>2

\* A completion that is answered forgets who gave up on it, and keeps what
\* was said before.
LEMMA CompletedKeeps ==
    ASSUME Inv, NEW t \in Turns, Completed(t)
    PROVE  Inv'
  <1>1. turn \in [Turns -> TurnRow] /\ turn[t] \in TurnRow /\ turn[t].phase = "calling"
        /\ failed \in [Turns -> SUBSET Providers] /\ said \subseteq Turns
    BY Types DEF Inv, Completed, At
  <1>2. PICK speaks \in BOOLEAN, dirs \in Directives :
            LET row == [turn[t] EXCEPT !.reply = Spoken(@, speaks),
                                       !.dirs = dirs, !.prov = 1, !.tries = 0]
            IN  /\ IF dirs = "no" THEN Ticked(t, row, "closing")
                   ELSE turn' = [turn EXCEPT ![t] = [row EXCEPT !.phase = "acting"]]
                /\ said' = IF speaks THEN said \cup {t} ELSE said
    BY DEF Completed
  <1> DEFINE row == [turn[t] EXCEPT !.reply = Spoken(@, speaks),
                                    !.dirs = dirs, !.prov = 1, !.tries = 0]
  <1>3. turn[t].reply \in {"none", "said"} /\ (turn[t].reply = "said" <=> t \in said)
    BY <1>1 DEF Inv, ReplyOK, InCompletion
  <1>4. /\ row \in TurnRow /\ row.prov = 1 /\ row.phase = "calling"
        /\ row.reply = IF speaks THEN "said" ELSE turn[t].reply
        /\ row.reply \in {"none", "said"}
    <2>1. Spoken(turn[t].reply, speaks) = IF speaks THEN "said" ELSE turn[t].reply
      BY DEF Spoken
    <2>2. 1 \in 1..N + 1
      BY ProvidersAre
    <2> QED
      BY <1>1, <1>3, <2>1, <2>2 DEF TurnRow, Replies
  <1>5. /\ said' = IF speaks THEN said \cup {t} ELSE said
        /\ dirs = "no" => Ticked(t, row, "closing")
        /\ dirs # "no" => turn' = [turn EXCEPT ![t] = [row EXCEPT !.phase = "acting"]]
    BY <1>2
  <1> HIDE DEF row
  <1>6. failed' = [failed EXCEPT ![t] = {}] /\ UNCHANGED <<host, cool, owed, excused>>
    BY DEF Completed
  <1>7. /\ said' \subseteq Turns /\ failed' \in [Turns -> SUBSET Providers] /\ failed'[t] = {}
        /\ \A u \in Turns \ {t} : failed'[u] = failed[u] /\ (u \in said' <=> u \in said)
        /\ row.reply = "said" <=> t \in said'
    BY <1>1, <1>3, <1>4, <1>5, <1>6
  <1>8. PICK next \in TurnRow :
            /\ turn' = [turn EXCEPT ![t] = next] /\ turn'[t] = next
            /\ \/ next.phase = "raised"
               \/ next.phase = "closing" /\ next.reply = row.reply
               \/ next.phase = "acting" /\ next.prov = 1 /\ next.reply = row.reply
    <2>1. CASE dirs = "no"
      <3>1. "closing" \in Phases
        BY DEF Phases
      <3> QED
        BY <1>1, <1>4, <1>5, <2>1, <3>1, TickedIs
    <2>2. CASE dirs # "no"
      <3> DEFINE next == [row EXCEPT !.phase = "acting"]
      <3>1. /\ next \in TurnRow /\ next.phase = "acting"
            /\ next.prov = 1 /\ next.reply = row.reply
        BY <1>4 DEF TurnRow, Phases
      <3>2. turn' = [turn EXCEPT ![t] = next] /\ turn'[t] = next
        BY <1>1, <1>5, <2>2
      <3> QED
        BY <3>1, <3>2
    <2> QED
      BY <2>1, <2>2
  <1>9. CompletionOK(t)'
    BY <1>7, <1>8 DEF CompletionOK, InCompletion, InLoop
  <1>10. ReplyOK(t)'
    BY <1>4, <1>7, <1>8, ProvidersAre DEF ReplyOK, Explained, InCompletion, InLoop, Providers
  <1> QED
    BY <1>6, <1>7, <1>8, <1>9, <1>10, QuietStep

\* A directive may break the session; the round is over.
LEMMA ActKeeps ==
    ASSUME Inv, NEW t \in Turns, Act(t)
    PROVE  Inv'
  <1>1. turn \in [Turns -> TurnRow] /\ turn[t] \in TurnRow /\ turn[t].phase = "acting"
        /\ failed \in [Turns -> SUBSET Providers] /\ said \subseteq Turns
    BY Types DEF Inv, Act, At
  <1>2. UNCHANGED <<host, cool, owed, excused, failed, said>>
    BY DEF Act, history
  <1>3. PICK breaks \in BOOLEAN :
            LET row == [turn[t] EXCEPT !.broken = @ \/ breaks, !.dirs = "no"]
            IN  Ticked(t, row, IF turn[t].dirs = "quiet" /\ row.reply # "none"
                               THEN "closing" ELSE "looping")
    BY DEF Act
  <1> DEFINE broken == turn[t].broken \/ breaks
             row == [turn[t] EXCEPT !.broken = broken, !.dirs = "no"]
             phase == IF turn[t].dirs = "quiet" /\ row.reply # "none"
                      THEN "closing" ELSE "looping"
  <1>4. broken \in BOOLEAN
    OBVIOUS
  <1>5. Ticked(t, row, phase)
    BY <1>3
  <1> HIDE DEF broken
  <1>6. row \in TurnRow /\ row.prov = turn[t].prov /\ row.reply = turn[t].reply
    BY <1>1, <1>4 DEF TurnRow, Directives
  <1> HIDE DEF row
  <1>7. phase \in {"closing", "looping"} /\ phase \in Phases
    BY DEF Phases
  <1> HIDE DEF phase
  <1>8. PICK next \in TurnRow :
            /\ turn' = [turn EXCEPT ![t] = next] /\ turn'[t] = next
            /\ \/ next.phase = "raised"
               \/ next.phase = phase /\ next.prov = row.prov /\ next.reply = row.reply
    BY <1>1, <1>5, <1>6, <1>7, TickedIs
  <1>9. CompletionOK(t) /\ ReplyOK(t)
    BY DEF Inv
  <1>10. CompletionOK(t)'
    BY <1>1, <1>2, <1>6, <1>7, <1>8, <1>9 DEF CompletionOK, InCompletion, InLoop
  <1>11. failed[t] = {}
    BY <1>1, <1>9 DEF CompletionOK, InLoop
  <1>12. ReplyOK(t)'
    BY <1>1, <1>2, <1>6, <1>7, <1>8, <1>9, <1>11, ProvidersAre
       DEF ReplyOK, Explained, InCompletion, InLoop, Providers
  <1>13. next.phase # "sleeping" /\ next.phase # "done"
    BY <1>7, <1>8
  <1> QED
    BY <1>1, <1>2, <1>8, <1>10, <1>12, <1>13, QuietStep

-----------------------------------------------------------------------------
(* A completion. *)

\* Whoever is asked while it cools is slept for as long, or excused.
LEMMA AskKeeps ==
    ASSUME Inv, NEW t \in Turns, Ask(t)
    PROVE  Inv'
  <1> DEFINE h == HostOf(t)
             phase == IF cool[h] > 0 THEN "sleeping" ELSE "calling"
             row == [turn[t] EXCEPT !.phase = phase, !.left = Sleep(cool[h])]
  <1>1. turn \in [Turns -> TurnRow] /\ turn[t] \in TurnRow /\ turn[t].phase = "asking"
        /\ turn[t].prov \in Providers /\ failed \in [Turns -> SUBSET Providers]
        /\ said \subseteq Turns /\ excused \subseteq Turns
        /\ cool \in [Hosts -> Nat] /\ owed \in [Hosts -> Nat] /\ host \in [Providers -> Hosts]
    BY Types DEF Inv, Ask, At
  <1>2. /\ UNCHANGED <<host, cool, owed, failed, said>>
        /\ excused' = IF cool[h] > Cap THEN excused \cup {t} ELSE excused
    BY DEF Ask
  <1>3. h \in Hosts /\ cool[h] \in Nat /\ owed[h] \in Nat /\ owed[h] <= cool[h]
    BY <1>1 DEF HostOf, Inv, CoolOK
  <1>4. /\ Sleep(cool[h]) \in 0..Cap
        /\ Sleep(cool[h]) = IF cool[h] <= Cap THEN cool[h] ELSE Cap
    <2>1. Cap \in Nat
      BY TutorAssumption
    <2>2. \A a, b \in Int : Min({a, b}) = IF a <= b THEN a ELSE b
      BY TwoNumbers
    <2>3. Sleep(cool[h]) = IF cool[h] <= Cap THEN cool[h] ELSE Cap
      BY <1>3, <2>1, <2>2 DEF Sleep
    <2> QED
      BY <1>3, <2>1, <2>3
  <1>5. turn' = [turn EXCEPT ![t] = row] /\ turn'[t] = row
    BY <1>1 DEF Ask
  <1>6. phase \in {"sleeping", "calling"} /\ phase \in Phases
    BY DEF Phases
  <1> HIDE DEF phase
  <1>7. /\ row \in TurnRow /\ row.phase = phase /\ row.left = Sleep(cool[h])
        /\ row.prov = turn[t].prov /\ row.reply = turn[t].reply
    BY <1>1, <1>4, <1>6 DEF TurnRow
  <1> HIDE DEF row
  <1>8. HostOf(t)' = h
    BY <1>2, <1>5, <1>7 DEF HostOf
  <1> HIDE DEF h
  <1>9. CompletionOK(t)' /\ ReplyOK(t)'
    BY <1>1, <1>2, <1>5, <1>6, <1>7 DEF Inv, CompletionOK, ReplyOK, InCompletion, InLoop
  <1>10. SleepOK(t)'
    <2>1. Cap \in Nat
      BY TutorAssumption
    <2>2. t \notin excused' => cool[h] <= Cap
      BY <1>2, <1>3, <2>1
    <2> QED
      BY <1>2, <1>3, <1>4, <1>5, <1>7, <1>8, <2>2 DEF SleepOK
  <1>11. ASSUME NEW u \in Turns, u # t PROVE SleepOK(u)'
    <2>1. turn'[u] = turn[u] /\ (u \in excused' <=> u \in excused)
      BY <1>1, <1>2, <1>5, <1>11
    <2> QED
      BY <1>2, <2>1 DEF Inv, SleepOK, HostOf
  <1>12. CoolOK'
    BY <1>2 DEF Inv, CoolOK
  <1>13. excused' \subseteq Turns /\ row.phase # "done"
    BY <1>1, <1>2, <1>6, <1>7
  <1> QED
    BY <1>1, <1>2, <1>5, <1>7, <1>9, <1>10, <1>11, <1>12, <1>13, OneTurn

\* Awake.
LEMMA PostKeeps ==
    ASSUME Inv, NEW t \in Turns, Post(t)
    PROVE  Inv'
  <1> DEFINE row == [turn[t] EXCEPT !.phase = "calling"]
  <1>1. turn \in [Turns -> TurnRow] /\ turn[t] \in TurnRow /\ turn[t].phase = "sleeping"
        /\ failed \in [Turns -> SUBSET Providers] /\ said \subseteq Turns
    BY Types DEF Inv, Post, At
  <1>2. UNCHANGED <<host, cool, owed, failed, said>> /\ excused' = excused \ {t}
    BY DEF Post
  <1>3. turn' = [turn EXCEPT ![t] = row] /\ turn'[t] = row
    BY <1>1 DEF Post
  <1>4. /\ row \in TurnRow /\ row.phase = "calling"
        /\ row.prov = turn[t].prov /\ row.reply = turn[t].reply
    BY <1>1 DEF TurnRow, Phases
  <1> HIDE DEF row
  <1>5. CompletionOK(t)' /\ ReplyOK(t)'
    BY <1>1, <1>2, <1>3, <1>4 DEF Inv, CompletionOK, ReplyOK, InCompletion, InLoop
  <1> QED
    BY <1>1, <1>2, <1>3, <1>4, <1>5, QuietStep

\* After a failed request the turn asks again, the same provider or the next,
\* and knows who has given up.
LEMMA RetriedIs ==
    ASSUME Inv, NEW t \in Turns, At(t, "calling"), Retried(t) \/ NextProvider(t)
    PROVE  \E next \in TurnRow :
              /\ turn' = [turn EXCEPT ![t] = next] /\ turn'[t] = next
              /\ next.phase = "asking" /\ next.reply = turn[t].reply
              /\ failed' \in [Turns -> SUBSET Providers]
              /\ failed'[t] = 1..(next.prov - 1)
              /\ \A u \in Turns \ {t} : failed'[u] = failed[u]
  <1>1. turn \in [Turns -> TurnRow] /\ turn[t] \in TurnRow /\ turn[t].phase = "calling"
        /\ failed \in [Turns -> SUBSET Providers]
    BY Types DEF Inv, At
  <1>2. turn[t].prov \in Providers /\ failed[t] = 1..(turn[t].prov - 1)
    BY <1>1 DEF Inv, CompletionOK, InCompletion
  <1>3. CASE NextProvider(t)
    <2> DEFINE prov == turn[t].prov + 1
               next == [turn[t] EXCEPT !.phase = "asking", !.prov = prov, !.tries = 0]
    <2>1. turn' = [turn EXCEPT ![t] = next] /\ turn'[t] = next
          /\ failed' = [failed EXCEPT ![t] = @ \cup {turn[t].prov}]
      BY <1>1, <1>3 DEF NextProvider
    <2>2. prov \in 1..N + 1 /\ 1..(prov - 1) = 1..(turn[t].prov - 1) \cup {turn[t].prov}
      BY <1>2, ProvidersAre
    <2>3. prov - 1 = turn[t].prov
      BY <1>2, ProvidersAre
    <2> HIDE DEF prov
    <2>4. next \in TurnRow /\ next.phase = "asking" /\ next.reply = turn[t].reply
          /\ next.prov = prov
      BY <1>1, <2>2 DEF TurnRow, Phases
    <2> HIDE DEF next
    <2>5. /\ failed' \in [Turns -> SUBSET Providers]
          /\ failed'[t] = 1..(prov - 1)
          /\ \A u \in Turns \ {t} : failed'[u] = failed[u]
      BY <1>1, <1>2, <2>1, <2>2
    <2> QED
      BY <2>1, <2>4, <2>5
  <1>4. CASE Retried(t) /\ turn[t].tries + 1 < Attempts[turn[t].prov]
    <2> DEFINE tries == turn[t].tries + 1
               next == [turn[t] EXCEPT !.phase = "asking", !.tries = tries]
    <2>1. turn' = [turn EXCEPT ![t] = next] /\ turn'[t] = next /\ failed' = failed
      BY <1>1, <1>4 DEF Retried
    <2>2. tries \in Nat
      BY <1>1 DEF TurnRow
    <2> HIDE DEF tries
    <2>3. next \in TurnRow /\ next.phase = "asking" /\ next.reply = turn[t].reply
          /\ next.prov = turn[t].prov
      BY <1>1, <2>2 DEF TurnRow, Phases
    <2> HIDE DEF next
    <2> QED
      BY <1>1, <1>2, <2>1, <2>3
  <1> QED
    BY <1>3, <1>4 DEF Retried

\* A turn that asks again has what it had to say.
LEMMA AskingOK ==
    ASSUME Inv, NEW t \in Turns, At(t, "calling"), said' = said,
           turn'[t].phase = "asking", turn'[t].reply = turn[t].reply,
           failed'[t] = 1..(turn'[t].prov - 1)
    PROVE  CompletionOK(t)' /\ ReplyOK(t)'
  <1>1. ReplyOK(t)
    BY DEF Inv
  <1> QED
    BY <1>1 DEF CompletionOK, ReplyOK, InCompletion, InLoop, At

\* Without a 429 nobody's cooldown changes.
LEMMA FailKeeps ==
    ASSUME Inv, NEW t \in Turns, Fails(t) \/ Refused(t)
    PROVE  Inv'
  <1>1. UNCHANGED <<host, cool, owed, excused, said>> /\ At(t, "calling") /\ said \subseteq Turns
    BY Types DEF Fails, Refused, Inv
  <1>2. PICK next \in TurnRow :
              /\ turn' = [turn EXCEPT ![t] = next] /\ turn'[t] = next
              /\ next.phase = "asking" /\ next.reply = turn[t].reply
              /\ failed' \in [Turns -> SUBSET Providers]
              /\ failed'[t] = 1..(next.prov - 1)
              /\ \A u \in Turns \ {t} : failed'[u] = failed[u]
    BY <1>1, RetriedIs DEF Fails, Refused
  <1>3. CompletionOK(t)' /\ ReplyOK(t)'
    BY <1>1, <1>2, AskingOK
  <1> QED
    BY <1>1, <1>2, <1>3, QuietStep

\* With one, whoever sleeps too short a time for it is excused.
LEMMA RateLimitedKeeps ==
    ASSUME Inv, NEW t \in Turns, RateLimited(t)
    PROVE  Inv'
  <1> DEFINE h == HostOf(t)
  <1>1. /\ UNCHANGED <<host, said>> /\ At(t, "calling") /\ said \subseteq Turns
        /\ turn \in [Turns -> TurnRow] /\ excused \subseteq Turns
        /\ cool \in [Hosts -> Nat] /\ owed \in [Hosts -> Nat] /\ host \in [Providers -> Hosts]
    BY Types DEF RateLimited, Inv
  <1>2. PICK next \in TurnRow :
              /\ turn' = [turn EXCEPT ![t] = next] /\ turn'[t] = next
              /\ next.phase = "asking" /\ next.reply = turn[t].reply
              /\ failed' \in [Turns -> SUBSET Providers]
              /\ failed'[t] = 1..(next.prov - 1)
              /\ \A u \in Turns \ {t} : failed'[u] = failed[u]
    BY <1>1, RetriedIs DEF RateLimited
  <1>3. CompletionOK(t)' /\ ReplyOK(t)'
    BY <1>1, <1>2, AskingOK
  <1>4. h \in Hosts
    BY <1>1 DEF Inv, CompletionOK, HostOf, At
  <1>5. PICK asked \in 1..Longest[h] :
            /\ cool' = [cool EXCEPT ![h] = Longer(@, asked)]
            /\ owed' = [owed EXCEPT ![h] = Max({@, asked})]
            /\ excused' = excused \cup {u \in Turns : /\ At(u, "sleeping")
                                                     /\ HostOf(u) = h
                                                     /\ turn[u].left < asked}
    BY DEF RateLimited
  <1> HIDE DEF h
  <1>6. asked \in Nat
    BY <1>4, TutorAssumption
  <1>7. \A a, b \in Int : Max({a, b}) = IF a >= b THEN a ELSE b
    BY TwoNumbers
  <1>8. /\ Longer(cool[h], asked) = IF cool[h] >= asked THEN cool[h] ELSE asked
        /\ Max({owed[h], asked}) = IF owed[h] >= asked THEN owed[h] ELSE asked
    BY <1>1, <1>4, <1>6, <1>7 DEF Longer
  <1>9. /\ \A g \in Hosts \ {h} : cool'[g] = cool[g] /\ owed'[g] = owed[g]
        /\ cool'[h] = IF cool[h] >= asked THEN cool[h] ELSE asked
        /\ owed'[h] = IF owed[h] >= asked THEN owed[h] ELSE asked
    BY <1>1, <1>4, <1>5, <1>8
  <1>10. cool' \in [Hosts -> Nat] /\ owed' \in [Hosts -> Nat]
    BY <1>1, <1>4, <1>5, <1>6, <1>8
  <1>11. CoolOK'
    BY <1>1, <1>4, <1>6, <1>9 DEF Inv, CoolOK
  <1>12. ASSUME NEW u \in Turns, turn'[u].phase = "sleeping", u \notin excused'
         PROVE  owed'[HostOf(u)'] <= turn'[u].left
    <2>1. u # t /\ turn'[u] = turn[u]
      BY <1>1, <1>2, <1>12
    <2>2. /\ turn[u].phase = "sleeping" /\ turn[u].prov \in Providers
          /\ turn[u].left \in Nat /\ HostOf(u)' = HostOf(u)
      BY <1>1, <1>12, <2>1, TutorAssumption DEF Inv, CompletionOK, TurnRow, HostOf
    <2>3. HostOf(u) \in Hosts /\ owed[HostOf(u)] <= turn[u].left
      BY <1>1, <1>5, <1>12, <2>2 DEF Inv, SleepOK, HostOf
    <2>4. HostOf(u) = h => turn[u].left >= asked
      BY <1>5, <1>6, <1>12, <2>2 DEF At
    <2> QED
      BY <1>1, <1>9, <2>1, <2>2, <2>3, <2>4
  <1>13. \A u \in Turns : SleepOK(u)'
    BY <1>12 DEF SleepOK
  <1>14. excused' \subseteq Turns
    BY <1>1, <1>5
  <1> QED
    BY <1>1, <1>2, <1>3, <1>10, <1>11, <1>13, <1>14, OneTurn

\* When all have given up, the apology says so.
LEMMA GiveUpKeeps ==
    ASSUME Inv, NEW t \in Turns, GiveUp(t)
    PROVE  Inv'
  <1> DEFINE row == [turn[t] EXCEPT !.phase = "closing", !.reply = "apology", !.prov = 1]
  <1>1. turn \in [Turns -> TurnRow] /\ turn[t] \in TurnRow /\ turn[t].phase = "asking"
        /\ turn[t].prov \notin Providers
        /\ failed \in [Turns -> SUBSET Providers] /\ said \subseteq Turns
    BY Types DEF Inv, GiveUp, At
  <1>2. UNCHANGED <<host, cool, owed, excused, failed, said>>
    BY DEF GiveUp, history
  <1>3. CASE turn[t].broken
    <2>1. turn' = [turn EXCEPT ![t] = Raised] /\ turn'[t] = Raised
      BY <1>1, <1>3 DEF GiveUp, FlushRaises
    <2> QED
      BY <1>1, <1>2, <2>1, RowTypes, RaisedIs, RaisedOK, QuietStep
  <1>4. CASE ~turn[t].broken
    <2>1. turn' = [turn EXCEPT ![t] = row] /\ turn'[t] = row
      BY <1>1, <1>4 DEF GiveUp, FlushRaises
    <2>2. row \in TurnRow /\ row.phase = "closing" /\ row.reply = "apology"
      <3>1. 1 \in 1..N + 1
        BY ProvidersAre
      <3> QED
        BY <1>1, <3>1 DEF TurnRow, Phases, Replies
    <2> HIDE DEF row
    <2>3. turn[t].prov - 1 = N /\ failed[t] = 1..(turn[t].prov - 1)
      <3>1. turn[t].prov \in 1..N + 1
        BY <1>1 DEF TurnRow
      <3> QED
        BY <1>1, <3>1, ProvidersAre DEF Inv, CompletionOK, InCompletion
    <2>4. failed[t] = Providers
      BY <2>3, ProvidersAre
    <2>5. CompletionOK(t)' /\ ReplyOK(t)'
      BY <1>2, <2>1, <2>2, <2>4
         DEF CompletionOK, ReplyOK, Explained, InCompletion, InLoop, Providers
    <2> QED
      BY <1>1, <1>2, <2>1, <2>2, <2>5, QuietStep
  <1> QED
    BY <1>3, <1>4

-----------------------------------------------------------------------------
(* Time. *)

\* A turn may be late, and what was cut off stays cut off.
LEMMA WallClockKeeps ==
    ASSUME Inv, NEW t \in Turns, WallClock(t)
    PROVE  Inv'
  <1> DEFINE row == [turn[t] EXCEPT !.late = TRUE]
  <1>1. turn \in [Turns -> TurnRow] /\ turn[t] \in TurnRow
        /\ turn[t].phase \notin {"idle", "done", "raised"}
    BY Types DEF Inv, WallClock
  <1>2. UNCHANGED <<host, cool, owed, excused, failed, said>>
    BY DEF WallClock, history
  <1>3. turn' = [turn EXCEPT ![t] = row] /\ turn'[t] = row
        /\ \A u \in Turns \ {t} : turn'[u] = turn[u]
    BY <1>1 DEF WallClock
  <1>4. /\ row \in TurnRow /\ row.phase = turn[t].phase /\ row.prov = turn[t].prov
        /\ row.reply = turn[t].reply /\ row.left = turn[t].left /\ row.late = TRUE
    BY <1>1 DEF TurnRow
  <1> HIDE DEF row
  <1>5. CompletionOK(t) /\ ReplyOK(t) /\ SleepOK(t)
    BY DEF Inv
  <1>6. ~CanContinue(t)'
    BY <1>3, <1>4 DEF CanContinue
  <1>7. CompletionOK(t)'
    BY <1>2, <1>3, <1>4, <1>5 DEF CompletionOK, Providers
  <1>8. ReplyOK(t)'
    BY <1>2, <1>3, <1>4, <1>5, <1>6 DEF ReplyOK, Explained, Providers
  <1>9. SleepOK(t)'
    BY <1>2, <1>3, <1>4, <1>5 DEF SleepOK, HostOf
  <1>10. ASSUME NEW u \in Turns, u # t PROVE SleepOK(u)'
    BY <1>2, <1>3, <1>10 DEF Inv, SleepOK, HostOf
  <1>11. /\ failed \in [Turns -> SUBSET Providers] /\ said \subseteq Turns
         /\ excused \subseteq Turns /\ cool \in [Hosts -> Nat] /\ owed \in [Hosts -> Nat]
    BY Types DEF Inv
  <1>12. CoolOK'
    BY <1>2 DEF Inv, CoolOK
  <1> QED
    BY <1>1, <1>2, <1>3, <1>4, <1>7, <1>8, <1>9, <1>10, <1>11, <1>12, OneTurn

\* Sleeps and cooldowns run down together.
LEMMA TickKeeps ==
    ASSUME Inv, Tick
    PROVE  Inv'
  <1>1. /\ UNCHANGED <<host, excused, failed, said>>
        /\ cool' = [h \in Hosts |-> Less(cool[h])]
        /\ owed' = [h \in Hosts |-> Less(owed[h])]
        /\ turn' = [t \in Turns |-> [turn[t] EXCEPT !.left = Less(@)]]
    BY DEF Tick, history
  <1>2. /\ turn \in [Turns -> TurnRow] /\ cool \in [Hosts -> Nat] /\ owed \in [Hosts -> Nat]
        /\ host \in [Providers -> Hosts]
    BY Types DEF Inv
  <1>3. cool' \in [Hosts -> Nat] /\ owed' \in [Hosts -> Nat]
    BY <1>1, <1>2, LessIs
  <1>4. ASSUME NEW t \in Turns
        PROVE  /\ turn'[t] \in TurnRow /\ turn'[t].left = Less(turn[t].left)
               /\ turn[t].left \in Nat
               /\ turn'[t].phase = turn[t].phase /\ turn'[t].n = turn[t].n
               /\ turn'[t].late = turn[t].late /\ turn'[t].prov = turn[t].prov
               /\ turn'[t].reply = turn[t].reply /\ turn'[t].broken = turn[t].broken
    <2> DEFINE left == Less(turn[t].left)
               row == [turn[t] EXCEPT !.left = left]
    <2>1. turn'[t] = row /\ turn[t] \in TurnRow
      BY <1>1, <1>2
    <2>2. Cap \in Nat /\ turn[t].left \in 0..Cap
      BY <2>1, TutorAssumption DEF TurnRow
    <2>3. left \in 0..Cap
      BY <2>2, LessIs
    <2> HIDE DEF left
    <2>4. /\ row \in TurnRow /\ row.left = left /\ row.phase = turn[t].phase
          /\ row.n = turn[t].n /\ row.late = turn[t].late /\ row.prov = turn[t].prov
          /\ row.reply = turn[t].reply /\ row.broken = turn[t].broken
      BY <2>1, <2>3 DEF TurnRow
    <2> HIDE DEF row
    <2> QED
      BY <2>1, <2>2, <2>4 DEF left
  <1>5. TypeOK'
    <2>1. turn' \in [Turns -> TurnRow]
      BY <1>1, <1>4
    <2>2. TypeOK
      BY DEF Inv
    <2> QED
      BY <1>1, <1>3, <2>1, <2>2 DEF TypeOK, TurnRow, Providers
  <1>6. ASSUME NEW t \in Turns PROVE CompletionOK(t)' /\ ReplyOK(t)'
    <2>1. CompletionOK(t) /\ ReplyOK(t)
      BY DEF Inv
    <2> QED
      BY <1>1, <1>4, <2>1 DEF CompletionOK, ReplyOK, Explained, CanContinue, Providers
  <1>7. ReplyCommits'
    BY <1>4 DEF Inv, ReplyCommits, At
  <1>8. CoolOK'
    <2> SUFFICES ASSUME NEW h \in Hosts PROVE owed'[h] <= cool'[h]
      BY DEF CoolOK
    <2>1. owed[h] \in Nat /\ cool[h] \in Nat /\ owed[h] <= cool[h]
      BY <1>2 DEF Inv, CoolOK
    <2> QED
      BY <1>1, <2>1, LessIs
  <1>9. ASSUME NEW t \in Turns PROVE SleepOK(t)'
    <2> SUFFICES ASSUME turn'[t].phase = "sleeping", t \notin excused'
                 PROVE  owed'[HostOf(t)'] <= turn'[t].left
      BY DEF SleepOK
    <2>1. turn[t].phase = "sleeping" /\ turn[t].prov \in Providers /\ HostOf(t)' = HostOf(t)
      BY <1>1, <1>4 DEF Inv, CompletionOK, HostOf
    <2>2. HostOf(t) \in Hosts /\ owed[HostOf(t)] <= turn[t].left
      BY <1>1, <1>2, <2>1 DEF Inv, SleepOK, HostOf
    <2>3. owed'[HostOf(t)] = Less(owed[HostOf(t)]) /\ turn'[t].left = Less(turn[t].left)
      BY <1>1, <1>4, <2>2
    <2>4. owed[HostOf(t)] \in Nat /\ turn[t].left \in Nat
      BY <1>2, <1>4, <2>2
    <2> QED
      BY <2>1, <2>2, <2>3, <2>4, LessIs
  <1> QED
    BY <1>5, <1>6, <1>7, <1>8, <1>9 DEF Inv

-----------------------------------------------------------------------------
\* Nobody is asked at the start and nothing cools.
LEMMA InitInv == Init => Inv
  <1> SUFFICES ASSUME Init
               PROVE  Inv
    OBVIOUS
  <1>1. \A t \in Turns : turn[t] = NewTurn /\ failed[t] = {}
    BY DEF Init
  <1>2. NewTurn.phase = "idle" /\ NewTurn.prov = 1 /\ NewTurn.reply = "none"
    BY DEF NewTurn
  <1>3. TypeOK
    BY RowTypes DEF Init, TypeOK, TurnRow
  <1>4. \A t \in Turns : CompletionOK(t) /\ ReplyOK(t) /\ SleepOK(t)
    BY <1>1, <1>2 DEF CompletionOK, ReplyOK, SleepOK, InCompletion, InLoop, Init
  <1>5. CoolOK /\ ReplyCommits
    BY <1>1, <1>2 DEF Init, CoolOK, ReplyCommits, At
  <1> QED
    BY <1>3, <1>4, <1>5 DEF Inv

\* No step of a turn and no passing of time breaks the invariant.
LEMMA StepInv == Inv /\ [Next]_vars => Inv'
  <1> SUFFICES ASSUME Inv, [Next]_vars
               PROVE  Inv'
    OBVIOUS
  <1>1. CASE Tick
    BY <1>1, TickKeeps
  <1>2. ASSUME NEW t \in Turns, Step(t)
        PROVE  Inv'
    BY <1>2, StartKeeps, LoopKeeps, ExhaustedKeeps, ActKeeps, CloseKeeps, AskKeeps, PostKeeps,
       CompletedKeeps, RateLimitedKeeps, FailKeeps, GiveUpKeeps DEF Step, Complete
  <1>3. ASSUME NEW t \in Turns, WallClock(t)
        PROVE  Inv'
    BY <1>3, WallClockKeeps
  <1>4. CASE UNCHANGED vars
    BY <1>4 DEF vars, history, Inv, TypeOK, CompletionOK, ReplyOK, Explained, CanContinue,
                ReplyCommits, At, CoolOK, SleepOK, HostOf
  <1> QED
    BY <1>1, <1>2, <1>3, <1>4 DEF Next

\* The inductive invariant holds in every reachable state.
THEOREM InvHolds == Spec => []Inv
  BY InitInv, StepInv, PTL DEF Spec

\* Every variable has its type, however many turns and providers there are.
THEOREM TypeCorrect == Spec => []TypeOK
  BY InvHolds, PTL DEF Inv

\* What a turn tells the student has its cause (tutor.py:332-377): the apology
\* comes of all providers giving up on one completion, and "a moment longer"
\* never takes the place of words that were there.
THEOREM RepliesAreExplained == Spec => []ReplyExplained
  <1>1. Inv => ReplyExplained
    BY DEF Inv, ReplyOK, Explained, ReplyExplained, At
  <1> QED
    BY <1>1, InvHolds, PTL

\* A Work is completed only from a session without a failed statement, however
\* many failures were swallowed on the way (tutor.py:502, 798).
THEOREM RepliesCommit == Spec => []ReplyCommits
  BY InvHolds, PTL DEF Inv

\* Nobody who looked at a cooldown runs into it (providers.py:42).
LEMMA StepWaitsOut ==
    ASSUME Inv, [Next]_vars, NEW t \in Turns, ~At(t, "calling"), At(t, "calling")',
           owed[HostOf(t)] > 0
    PROVE  t \in excused
  <1>1. turn \in [Turns -> TurnRow] /\ cool \in [Hosts -> Nat] /\ owed \in [Hosts -> Nat]
        /\ host \in [Providers -> Hosts]
    BY Types DEF Inv
  <1>2. CASE Ask(t)
    <2>1. cool[HostOf(t)] > 0
      BY <1>1, <1>2 DEF Inv, CoolOK, Ask, HostOf
    <2>2. turn'[t].phase = "sleeping"
      BY <1>1, <1>2, <2>1 DEF Ask, TurnRow
    <2> QED
      BY <2>2 DEF At
  <1>3. CASE Post(t)
    <2>1. turn[t].phase = "sleeping" /\ turn[t].left = 0 /\ turn[t].prov \in Providers
      BY <1>3 DEF Post, At, Inv, CompletionOK
    <2>2. owed[HostOf(t)] \in Nat
      BY <1>1, <2>1 DEF HostOf
    <2> QED
      BY <2>1, <2>2 DEF Inv, SleepOK
  <1>4. CASE ~Ask(t) /\ ~Post(t)
    <2>1. ASSUME turn'[t].phase = turn[t].phase PROVE FALSE
      BY <2>1 DEF At
    <2>2. ASSUME Step(t) PROVE FALSE
      <3>1. turn'[t].phase # "calling"
        <4>1. ASSUME NEW row \in TurnRow, NEW phase \in Phases, Ticked(t, row, phase),
                     phase # "calling"
              PROVE  turn'[t].phase # "calling"
          BY <1>1, <4>1, TickedIs
        <4>2. CASE Complete(t)
          BY <4>2 DEF Complete, Completed, RateLimited, Fails, Refused
        <4>3. CASE Act(t)
          <5>1. turn[t].phase = "acting" /\ turn[t] \in TurnRow
            BY <1>1, <4>3 DEF Act, At
          <5>2. PICK breaks \in BOOLEAN :
                    LET row == [turn[t] EXCEPT !.broken = @ \/ breaks, !.dirs = "no"]
                    IN  Ticked(t, row, IF turn[t].dirs = "quiet" /\ row.reply # "none"
                                       THEN "closing" ELSE "looping")
            BY <4>3 DEF Act
          <5> DEFINE row == [turn[t] EXCEPT !.broken = @ \/ breaks, !.dirs = "no"]
          <5>3. row \in TurnRow
            BY <5>1 DEF TurnRow, Directives
          <5> QED
            BY <4>1, <5>2, <5>3 DEF Phases
        <4>4. turn[t] \in TurnRow /\ \A row : turn' = [turn EXCEPT ![t] = row] => turn'[t] = row
          BY <1>1
        <4>5. CASE Start(t)
          <5>1. turn'[t] = Raised \/ turn'[t].phase = "looping"
            BY <1>1, <4>4, <4>5 DEF Start, TurnRow
          <5> QED
            BY <5>1, RaisedIs
        <4>6. CASE Loop(t)
          BY <1>1, <4>4, <4>6 DEF Loop, TurnRow
        <4>7. CASE Exhausted(t)
          BY <1>1, <4>4, <4>7 DEF Exhausted, TurnRow
        <4>8. CASE Close(t)
          <5>1. turn'[t] = Raised \/ turn'[t].phase = "done"
            BY <1>1, <4>4, <4>8 DEF Close, TurnRow
          <5> QED
            BY <5>1, RaisedIs
        <4>9. CASE GiveUp(t)
          <5>1. turn'[t] = Raised \/ turn'[t].phase = "closing"
            BY <1>1, <4>4, <4>9 DEF GiveUp, TurnRow
          <5> QED
            BY <5>1, RaisedIs
        <4> QED
          BY <1>4, <2>2, <4>2, <4>3, <4>5, <4>6, <4>7, <4>8, <4>9 DEF Step
      <3> QED
        BY <3>1 DEF At
    <2>3. ASSUME NEW u \in Turns, u # t, Step(u) PROVE FALSE
      <3>1. turn'[t] = turn[t]
        BY <1>1, <2>3 DEF Step, Start, Loop, Exhausted, Act, Close, Ask, Post, Complete, Completed,
           RateLimited, Fails, Refused, GiveUp, Retried, NextProvider, Ticked
      <3> QED
        BY <2>1, <3>1
    <2>4. ASSUME Tick PROVE FALSE
      <3>1. turn'[t].phase = turn[t].phase
        BY <1>1, <2>4 DEF Tick, TurnRow
      <3> QED
        BY <2>1, <3>1
    <2>5. ASSUME NEW u \in Turns, WallClock(u) PROVE FALSE
      <3>1. turn'[t].phase = turn[t].phase
        BY <1>1, <2>5 DEF WallClock, TurnRow
      <3> QED
        BY <2>1, <3>1
    <2>6. ASSUME UNCHANGED vars PROVE FALSE
      BY <2>1, <2>6 DEF vars
    <2> QED
      BY <2>2, <2>3, <2>4, <2>5, <2>6 DEF Next
  <1> QED
    BY <1>2, <1>3, <1>4

\* So a request that meets one had slept in vain: another turn's 429 came
\* meanwhile, or its sleep was cut short.
THEOREM CooldownsAreWaitedOut == Spec => WaitedOut
  <1>1. Inv /\ [Next]_vars =>
          [\A t \in Turns :
              /\ ~At(t, "calling") /\ At(t, "calling")'
              /\ owed[HostOf(t)] > 0
              => t \in excused]_vars
    BY StepWaitsOut
  <1> QED
    BY <1>1, InvHolds, PTL DEF Spec, WaitedOut
=============================================================================
