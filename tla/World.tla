-------------------------------- MODULE World --------------------------------
(***************************************************************************)
(* history/transcript.jsonl of one student's World (world/transcript.py),  *)
(* and the turns that append to it: world/inbound.py before the tutor, the *)
(* tutor's _record_* methods during the turn, archive_turn after it.       *)
(*                                                                         *)
(* The archive is a file, the Message rows are in a transaction: a turn    *)
(* that is rolled back takes its rows with it and leaves their lines.  A   *)
(* student's turns follow each other (module Turns) and record_message has *)
(* no await in it, so an append is one step; a crash or an error may come  *)
(* between any two.  A scheduled or a page's Work has no conversation_id   *)
(* (scheduler/service.py:335), so its turn records nothing.                *)
(*                                                                         *)
(* Lines are UTF-8 that is not escaped, so one whose write fails half way   *)
(* may end inside a character.  Then the file cannot be decoded any more:  *)
(* each scan and each read of it raises, of whatever line.                 *)
(*                                                                         *)
(* Left out: what a line says, the student without a World, and the order  *)
(* of the lines, which nothing reads.                                      *)
(***************************************************************************)
EXTENDS Naturals, FiniteSets

CONSTANTS
    Works,          \* of one conversation, each with its message
    MaxAttempts,    \* bound: attempts of one Work
    MaxFaults       \* bound: failed appends and crashes

ASSUME WorldAssumption ==
    /\ MaxAttempts \in Nat \ {0} /\ MaxFaults \in Nat

\* The ids of Message rows; an attempt makes rows of its own (uuid4).
Inbound(w) == [kind |-> "inbound", work |-> w, attempt |-> 0]
Reply(w, n) == [kind |-> "assistant", work |-> w, attempt |-> n]
Messages ==
    {Inbound(w) : w \in Works} \cup {Reply(w, n) : w \in Works, n \in 1..MaxAttempts}

\* The file ends with a newline; it ends with part of a line.
Whole == [kind |-> "whole", work |-> 0, attempt |-> 0]
Torn == [kind |-> "torn", work |-> 0, attempt |-> 0]

VARIABLES
    lines,      \* message -> whole lines of it
    tail,       \* Whole, Torn, or the message whose last line lacks its newline
    garbled,    \* a character is torn: the file cannot be decoded
    cache,      \* _offset_cache: the ids this process knows to be archived
    rows,       \* the committed Message rows
    own,        \* the rows the open transaction has inserted
    phase,      \* work -> "unborn", "queued", "open", "replied", "archived", "ended"
    attempt,    \* work -> attempts begun
    faults,     \* failed appends and crashes so far
    taken,      \* history: messages record_message has returned for
    smothered   \* history: messages whose line ran into a torn one

file == <<lines, tail, garbled, cache, taken, smothered>>
vars == <<lines, tail, garbled, cache, rows, own, phase, attempt, faults, taken, smothered>>

Init ==
    /\ lines = [m \in Messages |-> 0]
    /\ tail = Whole
    /\ garbled = FALSE
    /\ cache = {}
    /\ rows = {}
    /\ own = {}
    /\ phase = [w \in Works |-> "unborn"]
    /\ attempt = [w \in Works |-> 0]
    /\ faults = 0
    /\ taken = {}
    /\ smothered = {}

-----------------------------------------------------------------------------
(* record_message *)

\* A last line without its newline parses too.
InFile(m) == lines[m] > 0 \/ tail = m
Scanned == {m \in Messages : InFile(m)}

\* Mutant: the cache is trusted, the file is not scanned again.
ArchivedInCache(ms) == cache

\* The file is scanned before an append, in whatever process, when the cache
\* does not have the message.
Archived(ms) == IF ms \subseteq cache THEN cache ELSE cache \cup Scanned

\* A decoding error is no OSError: contains_message lets it out.
ScanRaises(ms) == garbled /\ ~(ms \subseteq cache)

\* The messages of ms are appended in some order, `first` first; a torn tail
\* and the line that runs into it are unreadable together.
Appended(ms, first) ==
    [m \in Messages |->
        IF m \in ms /\ (tail = Whole \/ m # first) THEN lines[m] + 1 ELSE lines[m]]
LostTail == IF tail \in Messages THEN {tail} ELSE {}
LostBy(first) == IF tail = Whole THEN {} ELSE {first} \cup LostTail

Append(ms, first) ==
    /\ lines' = Appended(ms, first)
    /\ tail' = Whole
    /\ UNCHANGED garbled
    /\ smothered' = smothered \cup LostBy(first)

\* What is left of a line whose write failed half way.
Stump(m) == IF tail = Whole THEN {Torn, m} ELSE {Torn}

\* Mutant: the id is cached before the line is written.
KnownEarly(done, bad) == done \cup {bad}

\* An id is cached once its line is synced.
Known(done, bad) == done

\* The appends of `done` succeed and the one of `bad` fails: before anything is
\* written, half way, or in the fsync after the whole line.  The caller logs it.
AppendFails(done, bad, first) ==
    /\ faults < MaxFaults
    /\ faults' = faults + 1
    /\ \/ /\ IF done = {} THEN UNCHANGED <<lines, tail, garbled, smothered>> ELSE Append(done, first)
       \/ /\ done = {}
          /\ tail' \in Stump(bad)
          /\ garbled' \in {FALSE, tail' = Torn}
          /\ smothered' = smothered \cup LostTail
          /\ UNCHANGED lines
       \/ /\ done # {}
          /\ lines' = Appended(done, first)
          /\ tail' \in {Torn, bad}
          /\ garbled' \in {FALSE, tail' = Torn}
          /\ smothered' = smothered \cup LostBy(first)
       \/ Append(done \cup {bad}, IF done = {} THEN bad ELSE first)

\* The first message that is not in the cache raises; those before it are.
RecordRaises(ms) ==
    /\ ScanRaises(ms)
    /\ \E known \in SUBSET (ms \cap cache) : taken' = taken \cup known
    /\ UNCHANGED <<lines, tail, garbled, cache, smothered, faults>>

\* record_message for each message of ms that is not yet archived, until one
\* raises.
RecordEach(ms) ==
    LET archived == Archived(ms)
        new == ms \ archived
    IN \/ /\ new = {}
          /\ cache' = archived
          /\ taken' = taken \cup ms
          /\ UNCHANGED <<lines, tail, garbled, smothered, faults>>
       \/ \E first \in new :
             /\ Append(new, first)
             /\ cache' = archived \cup new
             /\ taken' = taken \cup ms
             /\ UNCHANGED faults
       \/ \E bad \in new : \E done \in SUBSET (new \ {bad}) :
             \E first \in (IF done = {} THEN {bad} ELSE done) :
                /\ AppendFails(done, bad, first)
                /\ cache' = archived \cup Known(done, bad)
                /\ taken' = taken \cup done

Record(ms) == IF ScanRaises(ms) THEN RecordRaises(ms) ELSE RecordEach(ms)

-----------------------------------------------------------------------------
(* The turns *)

\* The webhook commits the message with its Work.
Accept(w) ==
    /\ phase[w] = "unborn"
    /\ rows' = rows \cup {Inbound(w)}
    /\ phase' = [phase EXCEPT ![w] = "queued"]
    /\ UNCHANGED <<file, own, attempt, faults>>

Open == {w \in Works : phase[w] \in {"open", "replied", "archived"}}

\* A claim, and the inbound message archived before the tutor runs.
MaterializeInbound(w) ==
    /\ phase[w] = "queued" /\ attempt[w] < MaxAttempts
    /\ Open = {}
    /\ phase' = [phase EXCEPT ![w] = "open"]
    /\ attempt' = [attempt EXCEPT ![w] = @ + 1]
    /\ Record({Inbound(w)})
    /\ UNCHANGED <<rows, own>>

\* The reply's row is inserted unless the Work has one, and archived at once,
\* in the transaction that has yet to commit.
RecordOutbound(w) ==
    /\ phase[w] = "open"
    /\ phase' = [phase EXCEPT ![w] = "replied"]
    /\ IF \E n \in 1..MaxAttempts : Reply(w, n) \in rows
       THEN UNCHANGED <<file, own, faults>>
       ELSE /\ own' = own \cup {Reply(w, attempt[w])}
            /\ Record({Reply(w, attempt[w])})
    /\ UNCHANGED <<rows, attempt>>

\* The agent that has nothing to say.
Silent(w) ==
    /\ phase[w] = "open"
    /\ phase' = [phase EXCEPT ![w] = "replied"]
    /\ UNCHANGED <<file, rows, own, attempt, faults>>

\* Every row of the conversation that the turn sees.
ArchiveTurn(w) ==
    /\ phase[w] = "replied"
    /\ phase' = [phase EXCEPT ![w] = "archived"]
    /\ Record(rows \cup own)
    /\ UNCHANGED <<rows, own, attempt>>

Commit(w) ==
    /\ phase[w] = "archived"
    /\ phase' = [phase EXCEPT ![w] = "ended"]
    /\ rows' = rows \cup own
    /\ own' = {}
    /\ UNCHANGED <<file, attempt, faults>>

\* Mutant: a failed commit is not followed by a rollback.
KeptRows(inserted) == inserted

DroppedRows(inserted) == {}

\* A Work whose turn raises is queued again, and so is one whose commit fails.
Rollback(w) ==
    /\ w \in Open
    /\ phase' = [phase EXCEPT ![w] = "queued"]
    /\ own' = DroppedRows(own)
    /\ UNCHANGED <<file, rows, attempt, faults>>

Crash ==
    /\ faults < MaxFaults
    /\ faults' = faults + 1
    /\ cache' = {}
    /\ phase' = [w \in Works |-> IF w \in Open THEN "queued" ELSE phase[w]]
    /\ own' = {}
    /\ UNCHANGED <<lines, tail, garbled, rows, attempt, taken, smothered>>

Next ==
    \/ \E w \in Works :
          \/ Accept(w) \/ MaterializeInbound(w) \/ RecordOutbound(w) \/ Silent(w)
          \/ ArchiveTurn(w) \/ Commit(w) \/ Rollback(w)
    \/ Crash

Spec == Init /\ [][Next]_vars

-----------------------------------------------------------------------------
\* Every variable keeps its type; only an open turn has uncommitted rows.
TypeOK ==
    /\ lines \in [Messages -> Nat]
    /\ tail \in {Whole, Torn} \cup Messages
    /\ garbled \in BOOLEAN
    /\ cache \subseteq Messages
    /\ rows \subseteq Messages
    /\ own \subseteq Messages
    /\ Open = {} => own = {}
    /\ phase \in [Works -> {"unborn", "queued", "open", "replied", "archived", "ended"}]
    /\ attempt \in [Works -> 0..MaxAttempts]
    /\ faults \in 0..MaxFaults
    /\ taken \subseteq Messages
    /\ smothered \subseteq Messages

\* Duplicates are impossible, as transcript.py:16-20 says: through restarts,
\* appends that fail after the line is written, and turns rolled back and run
\* again, no message has two whole lines.
OneLine == \A m \in Messages : lines[m] + (IF tail = m THEN 1 ELSE 0) <= 1

\* What record_message has answered for has its line in the file (transcript.py:
\* 117), whichever appends failed before and whatever was tried again, save for
\* the lines that ran into a torn one; and once the file cannot be decoded no
\* answer is given but for a line that was there before.  (Only a file that is
\* not garbled can be read.)
TakenIsInFile == \A m \in taken : InFile(m) \/ m \in smothered
=============================================================================
