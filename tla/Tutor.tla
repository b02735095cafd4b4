-------------------------------- MODULE Tutor --------------------------------
(***************************************************************************)
(* One tutor turn: TutorService.handle_message, the directive loop, the    *)
(* completion with its fallback (intelligence/providers.py) and the        *)
(* bookkeeping of agent/runtime.py.                                        *)
(*                                                                         *)
(* The turns run in one process.  What they share is the table of provider *)
(* cooldowns, kept by host: a 429 arms it, and a request to a cooling host *)
(* sleeps first.  Everything else a turn writes is in its own session.     *)
(*                                                                         *)
(* What a turn hands to the worker is its reply, or an exception that      *)
(* rolls its transaction back.  The worker completes the Work with one     *)
(* more flush of the same session; module Turns takes it from there.       *)
(***************************************************************************)
EXTENDS Integers, FiniteSets, FiniteSetsExt

CONSTANTS
    Turns,              \* turns that may be open at once in the process
    N,                  \* configured providers: the primary, then the fallback
    Hosts,              \* the hosts they may be served by
    Longest,            \* host -> the longest cooldown one 429 can arm
    Cap,                \* the longest sleep before one request
    Attempts,           \* provider -> attempts for one completion
    MaxContinuations    \* rounds of one turn

ASSUME TutorAssumption ==
    /\ N \in Nat \ {0}
    /\ Longest \in [Hosts -> Nat \ {0}]
    /\ Cap \in Nat \ {0}
    /\ Attempts \in [1..N -> Nat \ {0}]
    /\ MaxContinuations \in Nat \ {0}

VARIABLES
    host,       \* provider -> its host, chosen by the settings
    cool,       \* host -> time left of its cooldown
    turn,       \* turn -> where it is and what it has
    \* history
    owed,       \* host -> the longest time a 429 has asked for and that is not over
    excused,    \* sleeping turns whose host was armed meanwhile, or whose sleep was cut
    failed,     \* turn -> the providers that gave up on the completion it is at
    said        \* turns in which some completion carried a reply

history == <<excused, failed, said>>
vars == <<host, cool, turn, owed, history>>

Providers == 1..N

Phases == {"idle", "looping", "asking", "sleeping", "calling", "acting",
           "closing", "done", "raised"}

Replies == {"none", "said", "apology", "moment"}

\* "quiet" are interact and publish, after which the turn may end; "busy" is any
\* set of directives with one the tutor has to see the result of.
Directives == {"no", "quiet", "busy"}

NewTurn == [phase |-> "idle", n |-> 0, late |-> FALSE, prov |-> 1, tries |-> 0,
            left |-> 0, reply |-> "none", dirs |-> "no", broken |-> FALSE]

Init ==
    /\ host \in [Providers -> Hosts]
    /\ cool = [h \in Hosts |-> 0]
    /\ turn = [t \in Turns |-> NewTurn]
    /\ owed = [h \in Hosts |-> 0]
    /\ excused = {}
    /\ failed = [t \in Turns |-> {}]
    /\ said = {}

At(t, phase) == turn[t].phase = phase

(***************************************************************************)
(* Time.  A tick is as long as the shortest cooldown.  The wall clock of a *)
(* turn is only compared with its limit, so the model keeps the outcome.   *)
(***************************************************************************)

Less(x) == Max({0, x - 1})

Tick ==
    /\ \/ \E h \in Hosts : cool[h] > 0
       \/ \E t \in Turns : turn[t].left > 0
    /\ cool' = [h \in Hosts |-> Less(cool[h])]
    /\ owed' = [h \in Hosts |-> Less(owed[h])]
    /\ turn' = [t \in Turns |-> [turn[t] EXCEPT !.left = Less(@)]]
    /\ UNCHANGED <<host, history>>

WallClock(t) ==
    /\ turn[t].phase \notin {"idle", "done", "raised"}
    /\ turn' = [turn EXCEPT ![t].late = TRUE]
    /\ ~turn[t].late
    /\ UNCHANGED <<host, cool, owed, history>>

(***************************************************************************)
(* The session.  A failed statement or flush leaves it unusable, whoever   *)
(* caught the exception: the next flush raises.                            *)
(***************************************************************************)

\* Mutant: a failed flush of the bookkeeping is only logged.
FlushNeverRaises(broken) == FALSE

FlushRaises(broken) == broken

\* The exception reaches the worker, which rolls back: nothing of the turn is left.
Raised == [NewTurn EXCEPT !.phase = "raised"]

\* The database writes before the first completion (the World's row, the
\* profile) swallow what goes wrong; reading the conversation does not.
Start(t) ==
    /\ At(t, "idle")
    /\ \E broken, conversation \in BOOLEAN :
          turn' = [turn EXCEPT ![t] =
             IF conversation /\ FlushRaises(broken) THEN Raised
             ELSE [@ EXCEPT !.phase = "looping", !.broken = broken]]
    /\ UNCHANGED <<host, cool, owed, history>>

\* agent.tick: the round is counted and flushed; then the loop goes on at phase.
Ticked(t, row, phase) ==
    turn' = [turn EXCEPT ![t] =
        IF FlushRaises(row.broken) THEN Raised
        ELSE [row EXCEPT !.n = Min({@ + 1, MaxContinuations}), !.phase = phase]]

(***************************************************************************)
(* The loop                                                                *)
(***************************************************************************)

\* Mutant: the tutor may have as many rounds as it wants.
CanAlwaysContinue(t) == TRUE

CanContinue(t) == turn[t].n < MaxContinuations /\ ~turn[t].late

Loop(t) ==
    /\ At(t, "looping")
    /\ CanContinue(t)
    /\ turn' = [turn EXCEPT ![t].phase = "asking"]
    /\ UNCHANGED <<host, cool, owed, history>>

Exhausted(t) ==
    /\ At(t, "looping")
    /\ ~CanContinue(t)
    /\ turn' = [turn EXCEPT ![t].phase = "closing",
                            ![t].reply = IF @ = "none" THEN "moment" ELSE @]
    /\ UNCHANGED <<host, cool, owed, history>>

\* Mutant: each round's words replace those before, empty or not.
SpokenLast(reply, speaks) == IF speaks THEN "said" ELSE "none"

\* A round without words keeps the reply of an earlier one.
Spoken(reply, speaks) == IF speaks THEN "said" ELSE reply

\* A completion that carries directives leaves them to Act.
Completed(t) ==
    /\ At(t, "calling")
    /\ \E speaks \in BOOLEAN, dirs \in Directives :
          LET row == [turn[t] EXCEPT !.reply = Spoken(@, speaks),
                                     !.dirs = dirs, !.prov = 1, !.tries = 0]
          IN  /\ IF dirs = "no" THEN Ticked(t, row, "closing")
                 ELSE turn' = [turn EXCEPT ![t] = [row EXCEPT !.phase = "acting"]]
              /\ said' = IF speaks THEN said \cup {t} ELSE said
    /\ failed' = [failed EXCEPT ![t] = {}]
    /\ UNCHANGED <<host, cool, owed, excused>>

\* Each directive's exception becomes an observation; one of them may have
\* broken the session.
Act(t) ==
    /\ At(t, "acting")
    /\ \E breaks \in BOOLEAN :
          LET row == [turn[t] EXCEPT !.broken = @ \/ breaks, !.dirs = "no"]
          IN  Ticked(t, row, IF turn[t].dirs = "quiet" /\ row.reply # "none"
                             THEN "closing" ELSE "looping")
    /\ UNCHANGED <<host, cool, owed, history>>

\* agent.complete; the reply is recorded (_deliver) and the turn archived, where
\* what goes wrong is swallowed; then the worker marks the Work completed.  If
\* that flush raises, its handler's own flush does too, and all is rolled back.
Close(t) ==
    /\ At(t, "closing")
    /\ \E breaks \in BOOLEAN :
          LET broken == turn[t].broken \/ breaks IN
          turn' = [turn EXCEPT ![t] =
              IF FlushRaises(turn[t].broken) \/ FlushRaises(broken) THEN Raised
              ELSE [@ EXCEPT !.phase = "done", !.broken = broken]]
    /\ UNCHANGED <<host, cool, owed, history>>

(***************************************************************************)
(* One completion: each provider in turn, each with its attempts           *)
(***************************************************************************)

HostOf(t) == host[turn[t].prov]

\* Mutant: a sleep lasts as long as the cooldown.
SleepUncapped(remaining) == remaining

Sleep(remaining) == Min({remaining, Cap})

\* _respect_provider_cooldown, then the request.
Ask(t) ==
    /\ At(t, "asking")
    /\ turn[t].prov \in Providers
    /\ LET remaining == cool[HostOf(t)] IN
       /\ turn' = [turn EXCEPT ![t].phase = IF remaining > 0 THEN "sleeping" ELSE "calling",
                               ![t].left = Sleep(remaining)]
       /\ excused' = IF remaining > Cap THEN excused \cup {t} ELSE excused
    /\ UNCHANGED <<host, cool, owed, failed, said>>

\* Awake, the turn posts its request: it does not look at the cooldown again.
Post(t) ==
    /\ At(t, "sleeping")
    /\ turn[t].left = 0
    /\ turn' = [turn EXCEPT ![t].phase = "calling"]
    /\ excused' = excused \ {t}
    /\ UNCHANGED <<host, cool, owed, failed, said>>

NextProvider(t) ==
    /\ turn' = [turn EXCEPT ![t].phase = "asking", ![t].prov = @ + 1, ![t].tries = 0]
    /\ failed' = [failed EXCEPT ![t] = @ \cup {turn[t].prov}]

\* Another attempt, or the next provider.
Retried(t) ==
    IF turn[t].tries + 1 < Attempts[turn[t].prov]
    THEN /\ turn' = [turn EXCEPT ![t].phase = "asking", ![t].tries = @ + 1]
         /\ UNCHANGED failed
    ELSE NextProvider(t)

\* Mutant: the cooldown armed last counts.
Latest(until, asked) == asked

\* A cooldown is never shortened.
Longer(until, asked) == Max({until, asked})

RateLimited(t) ==
    /\ At(t, "calling")
    /\ LET h == HostOf(t) IN
       \E asked \in 1..Longest[h] :
          /\ cool' = [cool EXCEPT ![h] = Longer(@, asked)]
          /\ owed' = [owed EXCEPT ![h] = Max({@, asked})]
          /\ excused' = excused \cup {u \in Turns : /\ At(u, "sleeping")
                                                   /\ HostOf(u) = h
                                                   /\ turn[u].left < asked}
    /\ Retried(t)
    /\ UNCHANGED <<host, said>>

\* A timeout, no connection, a server error.
Fails(t) ==
    /\ At(t, "calling")
    /\ Retried(t)
    /\ UNCHANGED <<host, cool, owed, excused, said>>

\* A rejected key or request, a malformed answer, any other exception.
Refused(t) ==
    /\ At(t, "calling")
    /\ NextProvider(t)
    /\ UNCHANGED <<host, cool, owed, excused, said>>

\* No provider is left: agent.fail, and an apology ends the loop.
GiveUp(t) ==
    /\ At(t, "asking")
    /\ turn[t].prov \notin Providers
    /\ turn' = [turn EXCEPT ![t] =
          IF FlushRaises(@.broken) THEN Raised
          ELSE [@ EXCEPT !.phase = "closing", !.reply = "apology", !.prov = 1]]
    /\ UNCHANGED <<host, cool, owed, history>>

Complete(t) == Completed(t) \/ RateLimited(t) \/ Fails(t) \/ Refused(t)

Step(t) == Start(t) \/ Loop(t) \/ Exhausted(t) \/ Act(t) \/ Close(t)
           \/ Ask(t) \/ Post(t) \/ Complete(t) \/ GiveUp(t)

Next == Tick \/ \E t \in Turns : Step(t) \/ WallClock(t)

Spec == Init /\ [][Next]_vars

\* Sleeps end, requests have a timeout, and the event loop runs each task.
FairSpec == Spec /\ WF_vars(Tick) /\ \A t \in Turns : WF_vars(Step(t))

(***************************************************************************)
(* Properties                                                              *)
(***************************************************************************)

\* Every variable keeps its type.
TypeOK ==
    /\ host \in [Providers -> Hosts]
    /\ cool \in [Hosts -> Nat]
    /\ owed \in [Hosts -> Nat]
    /\ turn \in [Turns -> [phase : Phases, n : 0..MaxContinuations, late : BOOLEAN,
                           prov : 1..N + 1, tries : Nat, left : 0..Cap,
                           reply : Replies, dirs : Directives, broken : BOOLEAN]]
    /\ excused \subseteq Turns
    /\ failed \in [Turns -> SUBSET Providers]
    /\ said \subseteq Turns

\* What a turn tells the student has one cause (tutor.py:332-377): the apology,
\* that every provider gave up on the last completion; "a moment longer", that
\* the loop was cut off before any completion carried a reply; nothing, that
\* none did.
ReplyExplained ==
    \A t \in Turns : At(t, "done") =>
        /\ turn[t].reply = "apology" <=> failed[t] = Providers
        /\ turn[t].reply = "said" => t \in said
        /\ turn[t].reply = "moment" => t \notin said /\ ~CanContinue(t)
        /\ turn[t].reply = "none" => t \notin said

\* A Work is not completed over effects that are lost: when it is, the session
\* that ran the turn was still whole, although the failure of a directive
\* (tutor.py:502), of reading the World or the profile (tutor.py:291, 308) and
\* of recording the reply (tutor.py:798) is swallowed.  A reply alone proves
\* nothing: it is returned from a broken session too.
ReplyCommits == \A t \in Turns : At(t, "done") => ~turn[t].broken

\* A request goes to a host that asked for quiet only when another turn's 429
\* came while this one slept, or when its sleep was cut short (providers.py:42):
\* nobody who looked at the cooldown first runs into it.
WaitedOut ==
    [][\A t \in Turns :
          /\ ~At(t, "calling") /\ At(t, "calling")'
          /\ owed[HostOf(t)] > 0
          => t \in excused]_vars

\* A turn ends, however often the tutor wants another round and however the
\* providers answer (runtime.py:23 "bound runaway loops").  "idle" is before it.
EveryTurnEnds ==
    \A t \in Turns : []<>(turn[t].phase \in {"idle", "done", "raised"})
================================================================================
