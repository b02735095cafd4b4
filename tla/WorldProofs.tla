----------------------------- MODULE WorldProofs -----------------------------
(***************************************************************************)
(* Theorems about module World, for any Works, attempts and faults.        *)
(*                                                                         *)
(* OneLine is kept because whatever is appended was looked for first, in   *)
(* the cache or in the file.  That the cache may be believed is Covered:   *)
(* without it a message could be taken for archived that is not.           *)
(***************************************************************************)
EXTENDS World, TLAPS

Kept(m) == InFile(m) \/ m \in smothered

\* What the process or a reader of its answers holds to be archived is kept.
Covered == \A m \in cache \cup taken : Kept(m)

\* An open turn is an attempt, so the reply it records is a message.
Begun == \A w \in Open : attempt[w] # 0

Inv == TypeOK /\ Begun /\ OneLine /\ Covered

\* What an append, failed or not, does to the file when none of the messages
\* it is given is in the file; `done` are those it succeeds for.
Sound(done) ==
    /\ lines' \in [Messages -> Nat]
    /\ tail' \in {Whole, Torn} \cup Messages
    /\ garbled' \in BOOLEAN
    /\ smothered \subseteq smothered' /\ smothered' \subseteq Messages
    /\ OneLine'
    /\ \A m \in Messages : InFile(m) \/ m \in done => Kept(m)'

-----------------------------------------------------------------------------
\* The marks of a file's end are not messages.
LEMMA Marks == Whole \notin Messages /\ Torn \notin Messages /\ Whole # Torn
<1>1. \A m \in Messages : m.kind \in {"inbound", "assistant"}
  BY DEF Messages, Inbound, Reply
<1>2. Whole.kind = "whole" /\ Torn.kind = "torn"
  BY DEF Whole, Torn
<1> QED
  BY <1>1, <1>2

\* A message that is not in the file has no line.
LEMMA NoLine ==
  ASSUME TypeOK, NEW m \in Messages, ~InFile(m)
  PROVE  lines[m] = 0 /\ tail # m
  BY DEF TypeOK, InFile

\* An append of messages that have no line gives each one line, and smothers
\* at most the torn tail and the line that runs into it.
LEMMA AppendIsSound ==
  ASSUME TypeOK, OneLine, NEW ms \in SUBSET Messages, NEW first \in ms,
         \A m \in ms : ~InFile(m), Append(ms, first)
  PROVE  Sound(ms)
<1>1. \A m \in ms : lines[m] = 0
  BY NoLine
<1>2. lines' = [m \in Messages |->
                  IF m \in ms /\ (tail = Whole \/ m # first) THEN lines[m] + 1 ELSE lines[m]]
  BY DEF Append, Appended
<1>3. tail' = Whole /\ smothered' = smothered \cup LostBy(first)
  BY DEF Append
<1>4. /\ lines' \in [Messages -> Nat] /\ tail' \in {Whole, Torn} \cup Messages
      /\ garbled' \in BOOLEAN
  BY <1>2, <1>3 DEF Append, TypeOK
<1>5. smothered \subseteq smothered' /\ smothered' \subseteq Messages
  BY <1>3 DEF TypeOK, LostBy, LostTail
<1>6. OneLine'
  <2> SUFFICES ASSUME NEW m \in Messages
               PROVE  lines'[m] + (IF tail' = m THEN 1 ELSE 0) <= 1
    BY DEF OneLine
  <2>1. tail' # m
    BY <1>3, Marks
  <2>2. lines[m] \in Nat /\ lines[m] <= 1
    BY DEF OneLine, TypeOK
  <2>3. lines'[m] <= 1
    BY <1>1, <1>2, <2>2
  <2> QED
    BY <1>4, <2>1, <2>3
<1>7. ASSUME NEW m \in Messages, InFile(m) \/ m \in ms
      PROVE  Kept(m)'
  <2>1. CASE m \in ms /\ (tail = Whole \/ m # first)
    BY <1>1, <1>2, <2>1 DEF Kept, InFile
  <2>2. CASE m = first /\ tail # Whole
    BY <1>3, <2>2 DEF Kept, LostBy
  <2>3. CASE m \notin ms /\ tail = m
    BY <1>3, <2>3, Marks DEF Kept, LostBy, LostTail
  <2>4. CASE m \notin ms /\ lines[m] > 0
    BY <1>2, <2>4 DEF Kept, InFile
  <2> QED
    BY <1>7, <2>1, <2>2, <2>3, <2>4 DEF InFile
<1> QED
  BY <1>4, <1>5, <1>6, <1>7 DEF Sound

\* Nothing is written.
LEMMA NothingIsSound ==
  ASSUME TypeOK, OneLine, UNCHANGED <<lines, tail, garbled, smothered>>
  PROVE  Sound({})
  BY DEF TypeOK, OneLine, Sound, Kept, InFile

\* Nor does a failed append, at whichever message and however far it got.
LEMMA FailureIsSound ==
  ASSUME TypeOK, OneLine, NEW done \in SUBSET Messages, NEW bad \in Messages \ done,
         NEW first \in IF done = {} THEN {bad} ELSE done,
         \A m \in done \cup {bad} : ~InFile(m),
         AppendFails(done, bad, first)
  PROVE  Sound(done)
<1>1. CASE done = {} /\ UNCHANGED <<lines, tail, garbled, smothered>>
  BY <1>1, NothingIsSound
<1>2. CASE done # {} /\ Append(done, first)
  <2>1. first \in done
    BY <1>2
  <2> QED
    BY <1>2, <2>1, AppendIsSound
<1>3. CASE /\ done = {}
           /\ tail' \in Stump(bad)
           /\ garbled' \in {FALSE, tail' = Torn}
           /\ smothered' = smothered \cup LostTail
           /\ UNCHANGED lines
  <2>1. lines[bad] = 0
    BY NoLine
  <2>2. tail' \in {Torn, bad} /\ (tail' = bad => tail = Whole)
    BY <1>3, Marks DEF Stump
  <2>3. OneLine'
    <3> SUFFICES ASSUME NEW m \in Messages
                 PROVE  lines'[m] + (IF tail' = m THEN 1 ELSE 0) <= 1
      BY DEF OneLine
    <3>1. lines'[m] = lines[m] /\ lines[m] \in Nat /\ lines[m] <= 1
      BY <1>3 DEF OneLine, TypeOK
    <3>2. CASE m = bad
      BY <2>1, <3>1, <3>2
    <3>3. CASE m # bad
      BY <2>2, <3>1, <3>3, Marks
    <3> QED
      BY <3>2, <3>3
  <2>4. ASSUME NEW m \in Messages, InFile(m)
        PROVE  Kept(m)'
    <3>1. CASE lines[m] > 0
      BY <1>3, <3>1 DEF Kept, InFile
    <3>2. CASE tail = m
      BY <1>3, <3>2 DEF Kept, LostTail
    <3> QED
      BY <2>4, <3>1, <3>2 DEF InFile
  <2>5. smothered \subseteq smothered' /\ smothered' \subseteq Messages
    BY <1>3 DEF LostTail, TypeOK
  <2> QED
    BY <1>3, <2>2, <2>3, <2>4, <2>5 DEF Sound, TypeOK
<1>4. CASE /\ done # {}
           /\ lines' = Appended(done, first)
           /\ tail' \in {Torn, bad}
           /\ garbled' \in {FALSE, tail' = Torn}
           /\ smothered' = smothered \cup LostBy(first)
  <2>1. first \in done /\ lines[bad] = 0 /\ \A m \in done : lines[m] = 0
    BY <1>4, NoLine
  <2>2. lines' = [m \in Messages |->
                    IF m \in done /\ (tail = Whole \/ m # first) THEN lines[m] + 1 ELSE lines[m]]
    BY <1>4 DEF Appended
  <2>3. lines' \in [Messages -> Nat]
    BY <2>2 DEF TypeOK
  <2>4. OneLine'
    <3> SUFFICES ASSUME NEW m \in Messages
                 PROVE  lines'[m] + (IF tail' = m THEN 1 ELSE 0) <= 1
      BY DEF OneLine
    <3>1. lines[m] \in Nat /\ lines[m] <= 1
      BY DEF OneLine, TypeOK
    <3>2. CASE m = bad
      BY <2>1, <2>2, <3>2
    <3>3. CASE m # bad
      <4>1. tail' # m
        BY <1>4, <3>3, Marks
      <4>2. lines'[m] <= 1
        BY <2>1, <2>2, <3>1
      <4> QED
        BY <2>3, <4>1, <4>2
    <3> QED
      BY <3>2, <3>3
  <2>5. ASSUME NEW m \in Messages, InFile(m) \/ m \in done
        PROVE  Kept(m)'
    <3>1. CASE m \in done /\ (tail = Whole \/ m # first)
      BY <2>1, <2>2, <3>1 DEF Kept, InFile
    <3>2. CASE m = first /\ tail # Whole
      BY <1>4, <3>2 DEF Kept, LostBy
    <3>3. CASE m \notin done /\ tail = m
      BY <1>4, <3>3, Marks DEF Kept, LostBy, LostTail
    <3>4. CASE m \notin done /\ lines[m] > 0
      BY <2>2, <3>4 DEF Kept, InFile
    <3> QED
      BY <2>5, <3>1, <3>2, <3>3, <3>4 DEF InFile
  <2>6. smothered \subseteq smothered' /\ smothered' \subseteq Messages
    BY <1>4, <2>1 DEF LostBy, LostTail, TypeOK
  <2> QED
    BY <1>4, <2>3, <2>4, <2>5, <2>6 DEF Sound
<1>5. CASE Append(done \cup {bad}, IF done = {} THEN bad ELSE first)
  <2>1. Sound(done \cup {bad})
    BY <1>5, AppendIsSound
  <2> QED
    BY <2>1 DEF Sound
<1> QED
  BY <1>1, <1>2, <1>3, <1>4, <1>5 DEF AppendFails

-----------------------------------------------------------------------------
\* What is kept stays kept.
LEMMA KeptStays ==
  ASSUME NEW done \in SUBSET Messages, Sound(done), NEW m \in Messages,
         Kept(m) \/ m \in done
  PROVE  Kept(m)'
  BY DEF Sound, Kept

\* record_message, for any messages: the file stays sound, and the cache knows
\* only what is kept.
LEMMA RecordKeepsInv ==
  ASSUME Inv, NEW ms \in SUBSET Messages, Record(ms)
  PROVE  /\ \E done \in SUBSET Messages : Sound(done)
         /\ cache' \subseteq Messages /\ taken' \subseteq Messages
         /\ faults' \in 0..MaxFaults
         /\ Covered'
<1>0. CASE RecordRaises(ms)
  <2>1. PICK known \in SUBSET (ms \cap cache) : taken' = taken \cup known
    BY <1>0 DEF RecordRaises
  <2>2. UNCHANGED <<lines, tail, garbled, cache, smothered, faults>>
    BY <1>0 DEF RecordRaises
  <2>3. Sound({})
    BY <2>2, NothingIsSound DEF Inv
  <2>4. cache \cup taken \subseteq Messages /\ \A m \in cache \cup taken : Kept(m)
    BY DEF Inv, Covered, TypeOK
  <2>5. cache' = cache /\ taken' \subseteq cache \cup taken
    BY <2>1, <2>2
  <2>6. \A m \in cache' \cup taken' : Kept(m)'
    BY <2>3, <2>4, <2>5, KeptStays
  <2> QED
    BY <2>2, <2>3, <2>4, <2>5, <2>6 DEF Covered, Inv, TypeOK
<1> DEFINE archived == Archived(ms)
           new == ms \ archived
<1>1. archived \subseteq Messages /\ \A m \in archived : Kept(m)
  BY DEF Inv, Covered, Archived, Scanned, Kept, TypeOK
<1>2. \A m \in new : ~InFile(m)
  BY DEF Archived, Scanned
<1>3. taken \subseteq Messages /\ \A m \in taken : Kept(m)
  BY DEF Inv, Covered, TypeOK
<1>4. CASE /\ new = {}
           /\ cache' = archived
           /\ taken' = taken \cup ms
           /\ UNCHANGED <<lines, tail, garbled, smothered, faults>>
  <2>1. Sound({})
    BY <1>4, NothingIsSound DEF Inv
  <2>2. \A m \in cache' \cup taken' : Kept(m)'
    BY <1>1, <1>3, <1>4, <2>1, KeptStays
  <2> QED
    BY <1>1, <1>3, <1>4, <2>1, <2>2 DEF Covered, Inv, TypeOK
<1>5. CASE \E first \in new :
             /\ Append(new, first)
             /\ cache' = archived \cup new
             /\ taken' = taken \cup ms
             /\ UNCHANGED faults
  <2>1. PICK first \in new : Append(new, first)
    BY <1>5
  <2>2. Sound(new)
    BY <1>2, <2>1, AppendIsSound DEF Inv
  <2>3. \A m \in cache' \cup taken' : Kept(m)'
    BY <1>1, <1>3, <1>5, <2>2, KeptStays
  <2> QED
    BY <1>1, <1>3, <1>5, <2>2, <2>3 DEF Covered, Inv, TypeOK
<1>6. CASE \E bad \in new : \E done \in SUBSET (new \ {bad}) :
             \E first \in (IF done = {} THEN {bad} ELSE done) :
                /\ AppendFails(done, bad, first)
                /\ cache' = archived \cup Known(done, bad)
                /\ taken' = taken \cup done
  <2>1. PICK bad \in new : \E done \in SUBSET (new \ {bad}) :
             \E first \in (IF done = {} THEN {bad} ELSE done) :
                /\ AppendFails(done, bad, first)
                /\ cache' = archived \cup Known(done, bad)
                /\ taken' = taken \cup done
    BY <1>6
  <2>2. PICK done \in SUBSET (new \ {bad}) :
             \E first \in (IF done = {} THEN {bad} ELSE done) :
                /\ AppendFails(done, bad, first)
                /\ cache' = archived \cup Known(done, bad)
                /\ taken' = taken \cup done
    BY <2>1
  <2>9. PICK first \in (IF done = {} THEN {bad} ELSE done) :
                /\ AppendFails(done, bad, first)
                /\ cache' = archived \cup Known(done, bad)
                /\ taken' = taken \cup done
    BY <2>2
  <2>3. done \in SUBSET Messages /\ bad \in Messages \ done
    OBVIOUS
  <2>4. \A m \in done \cup {bad} : ~InFile(m)
    BY <1>2
  <2>5. AppendFails(done, bad, first)
    BY <2>9
  <2>6. Sound(done)
    <3> HIDE DEF new
    <3> QED
      BY <2>9, <2>3, <2>4, <2>5, FailureIsSound DEF Inv
  <2>7. \A m \in cache' \cup taken' : Kept(m)'
    BY <1>1, <1>3, <2>9, <2>3, <2>6, KeptStays DEF Known
  <2>8. faults' \in 0..MaxFaults
    BY <2>5, WorldAssumption DEF AppendFails, Inv, TypeOK
  <2> QED
    BY <1>1, <1>3, <2>9, <2>3, <2>6, <2>7, <2>8 DEF Covered, Known
<1> QED
  BY <1>0, <1>4, <1>5, <1>6 DEF Record, RecordEach

\* A step that leaves the file alone and the cache no larger.
LEMMA FileAlone ==
  ASSUME Inv, UNCHANGED <<lines, tail, garbled, taken, smothered>>, cache' \subseteq cache
  PROVE  /\ OneLine' /\ Covered'
         /\ lines' \in [Messages -> Nat] /\ tail' \in {Whole, Torn} \cup Messages
         /\ garbled' \in BOOLEAN
         /\ cache' \subseteq Messages /\ taken' \subseteq Messages
         /\ smothered' \subseteq Messages
  BY DEF Inv, OneLine, Covered, Kept, InFile, TypeOK

\* The turns' own variables are well typed after a step.
TurnsOK ==
    /\ rows \subseteq Messages
    /\ own \subseteq Messages
    /\ Open = {} => own = {}
    /\ phase \in [Works -> {"unborn", "queued", "open", "replied", "archived", "ended"}]
    /\ attempt \in [Works -> 0..MaxAttempts]
    /\ Begun

\* Recording messages keeps the invariant if it keeps the turns in shape.
LEMMA AfterRecord ==
  ASSUME Inv, NEW ms \in SUBSET Messages, Record(ms), TurnsOK'
  PROVE  Inv'
  BY RecordKeepsInv DEF Inv, TypeOK, TurnsOK, Sound

\* So does a step that leaves the file alone.
LEMMA AfterOther ==
  ASSUME Inv, UNCHANGED <<lines, tail, garbled, taken, smothered>>, cache' \subseteq cache,
         faults' \in 0..MaxFaults, TurnsOK'
  PROVE  Inv'
  BY FileAlone DEF Inv, TypeOK, TurnsOK

\* The messages of a Work are messages.
LEMMA MessageTypes ==
  ASSUME NEW w \in Works
  PROVE  Inbound(w) \in Messages /\ \A n \in 1..MaxAttempts : Reply(w, n) \in Messages
  BY DEF Messages

-----------------------------------------------------------------------------
\* Nothing is stored or archived at the start.
THEOREM InitInv == Init => Inv
<1> SUFFICES ASSUME Init PROVE Inv
  OBVIOUS
<1>1. TypeOK
  <2>1. garbled \in BOOLEAN
    BY DEF Init
  <2>2. lines \in [Messages -> Nat] /\ attempt \in [Works -> 0..MaxAttempts]
    BY WorldAssumption DEF Init
  <2> QED
    BY <2>1, <2>2, WorldAssumption DEF Init, TypeOK
<1>2. OneLine
  BY Marks DEF Init, OneLine
<1>3. Covered
  BY DEF Init, Covered
<1>4. Begun
  BY DEF Init, Begun, Open
<1> QED
  BY <1>1, <1>2, <1>3, <1>4 DEF Inv

\* No recording, commit, crash or failed append breaks the invariant.
THEOREM StepInv == Inv /\ [Next]_vars => Inv'
<1> SUFFICES ASSUME Inv, [Next]_vars PROVE Inv'
  OBVIOUS
<1> USE DEF Inv
<1>0. TypeOK /\ TurnsOK /\ faults \in 0..MaxFaults
  BY DEF TypeOK, TurnsOK
<1>1. ASSUME NEW w \in Works, Accept(w) PROVE Inv'
  <2>1. TurnsOK'
    BY <1>0, <1>1, MessageTypes DEF Accept, TurnsOK, Begun, Open
  <2> QED
    BY <1>0, <1>1, <2>1, AfterOther DEF Accept, file
<1>2. ASSUME NEW w \in Works, MaterializeInbound(w) PROVE Inv'
  <2>1. TurnsOK'
    BY <1>0, <1>2, WorldAssumption DEF MaterializeInbound, TurnsOK, Begun, Open
  <2> QED
    BY <1>2, <2>1, MessageTypes, AfterRecord DEF MaterializeInbound
<1>3. ASSUME NEW w \in Works, RecordOutbound(w) PROVE Inv'
  <2>1. w \in Open /\ w \in Open'
    BY <1>0, <1>3 DEF RecordOutbound, TurnsOK, Begun, Open
  <2>2. attempt[w] \in 0..MaxAttempts
    BY <1>0 DEF TurnsOK
  <2>3. CASE UNCHANGED <<file, own, faults>>
    <3>1. TurnsOK'
      BY <1>0, <1>3, <2>1, <2>3 DEF RecordOutbound, TurnsOK, Begun, Open
    <3> QED
      BY <1>0, <2>3, <3>1, AfterOther DEF file
  <2>4. CASE own' = own \cup {Reply(w, attempt[w])} /\ Record({Reply(w, attempt[w])})
    <3>1. Reply(w, attempt[w]) \in Messages
      BY <1>0, <2>1, <2>2, MessageTypes DEF TurnsOK, Begun
    <3>2. TurnsOK'
      BY <1>0, <1>3, <2>1, <2>4, <3>1 DEF RecordOutbound, TurnsOK, Begun, Open
    <3> QED
      BY <2>4, <3>1, <3>2, AfterRecord
  <2> QED
    BY <1>3, <2>3, <2>4 DEF RecordOutbound
<1>4. ASSUME NEW w \in Works, Silent(w) PROVE Inv'
  <2>1. TurnsOK'
    BY <1>0, <1>4 DEF Silent, TurnsOK, Begun, Open
  <2> QED
    BY <1>0, <1>4, <2>1, AfterOther DEF Silent, file
<1>5. ASSUME NEW w \in Works, ArchiveTurn(w) PROVE Inv'
  <2>1. TurnsOK'
    BY <1>0, <1>5 DEF ArchiveTurn, TurnsOK, Begun, Open
  <2>2. rows \cup own \in SUBSET Messages
    BY <1>0 DEF TurnsOK
  <2> QED
    BY <1>5, <2>1, <2>2, AfterRecord DEF ArchiveTurn
<1>6. ASSUME NEW w \in Works, Commit(w) PROVE Inv'
  <2>1. TurnsOK'
    BY <1>0, <1>6 DEF Commit, TurnsOK, Begun, Open
  <2> QED
    BY <1>0, <1>6, <2>1, AfterOther DEF Commit, file
<1>7. ASSUME NEW w \in Works, Rollback(w) PROVE Inv'
  <2>1. TurnsOK'
    BY <1>0, <1>7 DEF Rollback, DroppedRows, TurnsOK, Begun, Open
  <2> QED
    BY <1>0, <1>7, <2>1, AfterOther DEF Rollback, file
<1>8. ASSUME Crash PROVE Inv'
  <2>1. TurnsOK'
    BY <1>0, <1>8 DEF Crash, TurnsOK, Begun, Open
  <2> QED
    BY <1>0, <1>8, <2>1, WorldAssumption, AfterOther DEF Crash
<1>9. ASSUME UNCHANGED vars PROVE Inv'
  <2>1. TurnsOK'
    BY <1>0, <1>9 DEF vars, TurnsOK, Begun, Open
  <2> QED
    BY <1>0, <1>9, <2>1, AfterOther DEF vars
<1> QED
  BY <1>1, <1>2, <1>3, <1>4, <1>5, <1>6, <1>7, <1>8, <1>9 DEF Next

\* Inv holds in every reachable state.
THEOREM InvHolds == Spec => []Inv
  BY InitInv, StepInv, PTL DEF Spec

\* Every variable of World keeps its type.
THEOREM TypeCorrect == Spec => []TypeOK
<1>1. Inv => TypeOK
  BY DEF Inv
<1> QED
  BY <1>1, InvHolds, PTL

\* No message has two whole lines (transcript.py:16-20).
THEOREM NeverTwice == Spec => []OneLine
<1>1. Inv => OneLine
  BY DEF Inv
<1> QED
  BY <1>1, InvHolds, PTL

\* What record_message has answered for has its whole line in the file, or ran
\* into a torn one (transcript.py:117), also when the file cannot be decoded.
THEOREM TakenStays == Spec => []TakenIsInFile
<1>1. Inv => TakenIsInFile
  BY DEF Inv, Covered, Kept, TakenIsInFile
<1> QED
  BY <1>1, InvHolds, PTL
=============================================================================
