# A verification of WAX

WAX is a tutor that students talk to over WhatsApp and Telegram.  A webhook
stores a message and a durable *Work*; two worker tasks claim Works from the
database, run the tutor and send its reply; a recovery task repairs what went
wrong.  Everything these actors share is in PostgreSQL, so the behaviour worth
verifying is what their transactions, row locks and message sends do to each
other.  This directory models that in TLA+, checks it with TLC and proves the
core of it with TLAPS.  Line numbers refer to `src/wax/`.

## 1. Inventory

| Component | State | Operations | Interacts through | Correct when |
|---|---|---|---|---|
| **Turn pipeline** (`workers/main.py`, the two `messaging/*/handler.py`) | `works`, `messages.work_id` | accept, claim, coalesce, rate gate, link, answer, fail, commit, roll back | row locks on `works`, `principal_workloads`, `messages` | a Work is answered by one turn, completed once, never lost, retried at most `max_attempts` times |
| **Outbox** (`workers/main.py:_attempt_deliveries`, `delivery/retry.py`) | `deliveries` | post, send, retry | the turn's transaction and the recovery loop's | what is stored agrees with what was sent; duplicates have a cause; sending stops |
| **Recovery** (`work/recovery.py`, `workers/main.py`) | messages and Works | sweep unlinked messages, revive, reclaim | one transaction per cycle | repairs what a crash left and nothing else |
| **Scheduler** (`scheduler/`) | `scheduled_actions` | schedule, wake, recover, complete, cancel | makes Works, completed by workers, cancelled by a tutor's turn | an action fires once, is not forgotten, cancelled means cancelled |
| **Interactions** (`interaction/`) | `interactions` | create, find, consume, expire, continue | webhooks and the recovery loop | one choice is consumed, every closed one is continued |
| **Identity** (`domain/identity.py`, `identity_link/`) | `interface_identities`, `identity_link_challenges` | resolve, request link, verify, clean up | webhooks creating students meanwhile | a code works once, an identity belongs to one student |
| **Surfaces** (`surfaces/`) | `surfaces`, revisions, state, AI requests | create, update, revoke, open, ask the tutor, expire, idle, clean up | browsers, workers, the recovery loop | a surface that can be opened has its pages, revoked stays revoked, a request is answered once, what is over is cleaned up |
| **Memory** (`memory/store.py`) | `memories` | search, list, create, update, supersede, forget | the state directives of tutors' turns | what ended stays ended, a replacement and its mark go together, turns that lock each other out end |
| **Intelligence** (`intelligence/`, `agent/`) | `executions`, provider cooldowns of the process | complete with retries and a fallback, run directives, budget | calls the services above in the turn's session | a turn ends, what it tells the student is what happened, a broken session completes nothing, cooldowns are waited out |
| **Rate protection** (`protection/rate.py`) | `principal_workloads` | decide | row lock held for the rest of the turn | tokens stay in range; nobody is dropped |
| **World** (`world/`) | files of a student | stage, archive transcript, reconcile, execute | the turn; files survive a rollback | the transcript has each message once and keeps what it was given |
| **Adapters, presentation, artifacts, API, security, configuration** | none or files | HTTP, parsing, rendering | called by the above | not a matter of interleaving |

Hard behaviours: sends happen inside a transaction that may still roll back;
`FOR UPDATE SKIP LOCKED` in three different queries over the same rows; one
session for the whole recovery cycle; objects an ORM session has already loaded
keep their old attributes under a later lock; directives that swallow an
exception whose flush has already broken the session; files that survive the
rollback of the rows they repeat; retries, revivals and recoveries that each
make new work.  `PROJECT.json` lists 40 such hazards with their lines.

## 2. Modules

| Module | Models | Role |
|---|---|---|
| `WorkLedger` | what the `works` table promises | abstract specification |
| `SurfaceContract` | what a web surface promises its owner and its visitors | abstract specification |
| `Turns` | turn pipeline, outbox, sweep, retries, revival | core; refines `WorkLedger` |
| `MCTurns` | constants of the instances | for TLC |
| `Scheduler`, `MCScheduler` | scheduled wakes | component, for TLC |
| `Interaction`, `MCInteraction` | one interaction | component, for TLC |
| `Surfaces`, `MCSurfaces` | one web surface, its turns, visits and cleanup | component, for TLC; refines `SurfaceContract` |
| `Tutor`, `MCTutor` | the inside of a turn: rounds, providers, cooldowns | component, for TLC |
| `Memory`, `MCMemory` | a student's memories under concurrent turns | component, for TLC |
| `World`, `MCWorld` | the transcript archive and the rows it repeats | component, for TLC |
| `WorkLedgerProofs`, `TurnsProofs`, `SchedulerProofs`, `InteractionProofs`, `SurfacesProofs`, `TutorProofs`, `MemoryProofs`, `WorldProofs` | theorems about the module of that name; `TurnsProofs` and `SurfacesProofs` have the refinements too | for TLAPS |

`Turns` sees of a tutor's turn its end only (a reply, nothing to say, an error);
`Tutor` is how it gets there, `Memory` and `World` what it writes meanwhile.

### Turns

The webhook's transaction is one step (`Accept`): it takes no lock that another
actor waits for, and a duplicate event changes nothing.  A worker's turn is one
database transaction, split at its awaits where others can act: `Claim`
(`claim_next`), `Coalesce` (`find_coalescable_works`, `coalesce_works_into`),
`Gate` (`decide_durable`), `Link` (`materialize_inbound_reality`), `Answer` (the
tutor and what is flushed after it), `Send` once per pending delivery
(`_attempt_deliveries`), `Commit` or `Abort` (`session_scope`).  What the turn
has written and not committed is in `tx[p]`; `work`, `mail` and `linked` hold
what is committed.  `locked` are the Works it holds `FOR UPDATE`, `dirty` the
deliveries it has flushed.  A recovery cycle is a transaction of its own in
`rec`: `Sweep`, `Take`, `Resend`, `CommitCycle` or `AbortCycle`.  A crash of the
process is an `Abort` of every open transaction.  `received` counts what the
student's phone got, `lost` those of which the tables never learn: received
without acknowledgement, or acknowledged in a transaction that was rolled back
later.  Both are history, no guard reads them.

`Link` decides on the copy of the message that the session has read before, when
it folded, and without a lock (`world/inbound.py:98-102`).  Its UPDATE waits for
a sweep that holds the row and then overwrites the link the sweep has committed:
the sweep and a turn may both take one message.  `unlinked` is what that copy
says.

A tutor turn ends in one of three ways: a reply, nothing to say ("silent": an
empty reply, or a rendering error that the code swallows at `main.py:287`), or
an error.  A send is acknowledged, refused, or received without acknowledgement.

Abstracted, and why nothing is lost: which related texts are folded (any subset
of the locked siblings; with one text or none the code folds none, which is the
empty subset); the batch limits (6 siblings folded of 20 locked, 20 messages,
10 deliveries, 25 revivals per cycle; the instances stay below them);
`created_at`, which is counted at commit; backoff lengths (`waiting`).  Rate
protection is enabled, as by default, and the student's workload row exists.
Left out: the rate-limit branch of the failure path (`main.py:325-381`), which
no exception reaches because the tutor catches completion errors
(`tutor.py:337-349`); sends skipped for lack of a credential, which the code
marks delivered; artifact files.  `recover_orphans` and `reclaim_stale_works`
have no action: they look for committed `running` rows, and `HeldIsOpen` says
there are none.

### Scheduler

`LockStuck`, `Wake` and `CommitCycle` are the scheduler's part of a recovery
cycle in its order (`recover_stuck_executing`, `due_actions`,
`create_work_for_action`).  `Claim`, `Write`, `Commit` are a worker's turn on the
Work; `Fail` and `Mark` are `_mark_work_terminal`, two steps because it rolls
back, and so lets go of the Work, before it writes.  `CancelRead`, `CancelWrite`,
`CancelCommit` are a tutor's `cancel`, which reads without a lock.  `fired`
counts committed turns.  A series is several actions.  `reschedule`,
`schedule_at` and `fail` have no caller.  The branch of `create_work_for_action`
that reuses a Work is not reachable: a pending action has no `work_id`.

### Interaction

One row, any number of taps.  `Find` loads it, `Time` reads the clock, `Lock`
takes the row and decides, `Commit` writes.  `seen` is the status `Find` loaded:
the locking SELECT in `consume` has no `populate_existing`, so the session hands
back the instance it has, unrefreshed.  `expiry` is the row's `expires_at`
against the clock, and whether it has one is a choice of `Init`: only then does
time pass it.  The tutor passes none (`tutor.py:469-476`), so today nothing it
presents expires; and since `present_choices` returns no `"interactive"` key
(`tutor.py:366`) its buttons are not sent.  The module is about what the service
does for a caller that sets an expiry and a student who sees the buttons.
`SweepLock` and `SweepCommit` are
`expire_due` and the continuation in the recovery loop.

### Surfaces

One surface and every session that touches it: turns of the owner's tutor
(`Turns`), requests of a browser (`Visits`), the recovery loop.  Nothing locks the row
when it loads it.  A session in `tx` keeps the `copy` it loaded, the columns it
changed in `dirty`, and the revisions it stored in `fresh`.  `Commit` writes the
dirty columns over whatever the row holds by then (`Merged`).  A flush
takes the row's lock, which `holder` names, until the session ends.  So a status
that was read before a revocation can be written after it, and the module asks
what that may and may not break.

`SurfaceContract` is the answer: a surface is absent, open or shut; while it is
not shut its pages are whole; shut is for good, with nobody inside, and only then
may files go; a revoked surface lets nobody in.  No status of the row says which
it is, since a stale one may be written over it.  The mapping calls it shut when
neither the row nor a session's copy has a status it can be used in (`Shut`).
The contract's `Write` stands for all that turns and the recovery loop do,
`Enter` for a visit that is granted and `Exit` for one that ends, which may shut
the surface because that visit alone still believed in it.

`Create`, `Update`, `UpdateFails`, `Revoke` are the tutor's directives;
`Begin`, `ApplyAiResult`, `EndTurn`, `TurnFails` the turn around them, about a
message (`job = None`) or about a page's AI request.  Turns about messages are
serialized (module `Turns`); turns about AI requests are not.  `Update`
with a page is the compare-and-set on `current_revision`: it fails when the row
moved on, and the claim is undone when the page is not stored.  `Resolve` lets a
visit in or closes an active surface whose time has come (`MarkExpired`);
`Serve`, `PostEvent`, `Ask` and `Accept`, `Leave` are the routes behind it.  `Ask` looks
for the idempotency key and `Accept` inserts, so two visits may both insert.
A recovery cycle does one thing to one surface (`SelectDue` and `Expire`,
`SelectQuiet` and `MarkQuiet`, or `Clean`), since what it has just written is
not what the later queries select.  `Clean` deletes files on the spot and
commits the status later, so a cycle that rolls back leaves rows without files.

What the code does that one might not expect, and the model has: a failed
turn about an AI request reads `work.attempt` from an object its own rollback
expired, raises again, and records nothing (`TurnFails` leaves the Work as it
was); `set_state` names `Surface.state_revision`, a column the model class does
not have, so each state write raises and changes nothing (`Leave`);
`cleanup_pending` is selected by no later cleanup.

Abstracted: time is three marks of `expires_at` and three of `last_activity_at`.
`Ripen` assumes that the recovery loop gets to a surface within the 48 hours of
grace, and that no session lasts that long; otherwise a stale session could
reopen a surface that has no files.  Not modelled: the contents of `state_json`,
`create`'s idempotency path, `set_retention`, `relate` and `inspect` (which no
caller reaches), tokens, and the page's script.

### Tutor

`handle_message` and the completion under it.  A turn's `phase` is where it
awaits: `Loop` or `Exhausted` is the test of `can_continue`; `Ask` is
`_respect_provider_cooldown` up to its sleep, `Post` the request after it;
`Completed`, `RateLimited`, `Fails` and `Refused` are the answers, of which the
second arms the host's cooldown and the last gives up on the provider at once;
`GiveUp` is the apology when no provider is left; `Act` runs the directives;
`Close` is the end: `agent.complete`, the recording of the reply (`_deliver`),
the archive, and the worker's flush of the completed Work (`main.py:199-224`).
`agent.tick` is part of `Completed` and `Act` (`Ticked`).

The turns share only the cooldowns, which are kept by host: whether both
providers have one is a choice of `Init`.  Time passes in ticks of the shortest
cooldown, a turn's own limit is one bit (`late`).  `broken` is a session in
which a statement or a flush has failed: `_execute` catches the exception and
answers the directive with it, `_deliver` logs it, so it is the next flush that
raises, and `Raised` forgets the turn.  A reply is therefore returned from a
broken session too (`tutor.py:798` comes after the last flush of
`handle_message`); what `ReplyCommits` says is that the worker does not complete
the Work then.
`owed` (what a 429 asked for), `excused`, `failed` and `said` are history.

A "quiet" set of directives (interact, publish) lets a turn with a reply end; the
others it must see the results of.  Left out: prompts, the parsing of fences and
of bodies, media, and the resumption of an interrupted execution, which finds
nothing since what leaves `handle_message` is a database error whose rollback
takes the execution with it.

### Memory

Turns about messages are serialized, those about a page's request or a wake are
not, so two sessions change the same memories.  `session.get` returns the copy
the session has (`copy`), however old, and none of the operations looks at
whether the memory is active.  `Begin` loads, `Flush` writes the columns that
differ from the copy (`Changes`) and takes the row's lock until the end;
`BeginSupersede` has inserted the new memory by then.  `FlushFails` breaks the
session, `DeadlockFails` is the database choosing a victim.  `Commit` publishes,
over whatever the row holds by then (`Merged`).

Content, tags and metadata decide nothing and are left out.  A memory with an
`expires_at` in the past stays active: nothing enforces it.

### World

`history/transcript.jsonl` and the turns of one conversation, one after the
other.  `Record` is `record_message` for a few messages: skip those known to be
archived, append the others one by one, cache an id when its line is synced.
`AppendFails` has each way an append fails: nothing written, part of a line, or
the whole line before the `fsync`.  `tail` is what the file ends in, so that a
line that runs into a torn one is lost with it.  Lines are UTF-8 that is not
escaped (`transcript.py:140`): a tear inside a character leaves a file that cannot
be decoded (`garbled`), and from then on every scan of it raises, so that only a
message that is in the cache is still answered for (`RecordRaises`).
`MaterializeInbound` archives
the message before the tutor runs, `RecordOutbound` the reply before its row
commits, `ArchiveTurn` what is missing after; `Rollback` and `Crash` take the
rows and leave the lines.  `taken` and `smothered` are history.

A scheduled Work and a page's have no `conversation_id`, so their turns record
nothing and are not in the module.  Left out: the text of a line and the order of
lines, which nothing reads, and a student without a World.

## 3. Runs

| Run | Instance | Shows |
|---|---|---|
| `turns_one_chat` | 2 messages of one chat, 2 workers, 1 attempt, sweep of m1, 1 revival; 696 thousand states | folded Works stay closed; `Turns` implements `WorkLedger` |
| `turns_two_chats` | 1 student, 2 channels, 2 workers, 2 attempts, 2 tries, acknowledged and refused sends; 178 thousand states | locks exclude, turns of a student are serialized past the gate, outbox and ledger agree, nothing is dropped while nothing is swept, every Work ends, every delivery settles |
| `turns_mail` | 1 message, every turn and send outcome, 1 attempt, 2 tries, 1 rollback, 1 revival, sweep, lowered priority; 1.3 million states | duplicates have a cause; a message is swept once, and no link but the sweep's is overwritten |
| `turns_swept` | sweep of one of two messages | **violates** `NeverDiscarded` |
| `wakes` | 2 actions, 2 workers, 2 failures, 1 may be cancelled | an action fires once, is not forgotten, has one Work waiting, and cancelled before its wake is never woken |
| `choices` | 3 taps, 2 at once, with or without an expiry, 1 rollback; 4.9 thousand states | a closed interaction is continued; a timeout is final; what was given an expiry is followed up |
| `double_tap` | 2 taps | **violates** `ConsumedOnce` |
| `surfaces` | 2 turns, 2 visits, 1 key, 2 edits, quiet for a day; 816 thousand states | what can be opened has its pages; each published page has a number of its own; a request is answered once; `Surfaces` implements `SurfaceContract` |
| `surface_life` | 1 turn, 1 visit, 1 key, 1 edit, quiet for a week, deletes that fail loudly or silently; 43 thousand states | what is over is swept; an accepted request is answered |
| `tutor` | 2 turns, 2 providers on one host or two, 2 rounds, 2 attempts and 1; 312 thousand states | what the student is told has its cause; no Work is completed in a broken session; cooldowns are waited out; every turn ends |
| `memories` | 2 turns, 2 memories and 2 more, 2 changes each; 84 thousand states | nothing ended comes back; a replacement and its mark go together; deadlocks end |
| `world` | 2 Works, 2 attempts, 3 faults; 397 thousand states | no message has two whole lines; what `record_message` answered for has its line, or ran into a torn one |

Bounds.  Two workers are what `main()` starts.  Two messages are the fewest that
can be folded; the recovery Work of the swept one is the third Work, so
a Work folded into one that is itself folded later is reached too (through a
revival).  Two attempts and two tries
have a first, a repeated and a last one.  One rollback separates a send from its
record, and a second repeats that.  `MaxWorks` exceeds `MaxFailures` in
`Scheduler` because each new Work needs a failed turn, so the bound is never
what stops a wake.  `turns_one_chat` and `turns_mail` have one attempt, so that a
failed Work, its apology and its revival are reached; repeated attempts are in
`turns_two_chats`.  The workers of `turns_mail` are interchangeable and the run
checks safety only, so symmetry is sound.  `DuplicatesExplained` has a term for
the apology of a revived Work (`SentBesides`): the Work's new turn sends a pending
apology that the retry loop is sending too, and both are acknowledged; without
that term the run fails.  Acknowledged sends that are committed are in no term, so
a loop that sent one again would violate it.

In `surfaces`, two turns and two visits are the fewest that can race each other
for a revision, for a key, and for the status while the recovery loop does too.
Two edits allow a page after a page, a page against a page, and
a page against a revocation.  Turns, and visits, are interchangeable and the run
checks safety only, so symmetry is sound.  `MaxQuiet` stops it at a day, when a
surface becomes idle: a dormant one is treated the same wherever safety could
tell, and `surface_life` goes to the week that makes it dormant.  The swallowed
delete is only in `surface_life`: to the properties of `surfaces` it is a deletion that keeps a
file nothing names.  `surface_life` has no symmetry and one session of each kind:
the recovery loop, a turn and a visit are already the three that write the status
over each other, and one edit is a revocation, a page or a longer life.

In `tutor`, two turns are the fewest of which one can arm the host the other
sleeps on; two providers have a first that is retried and a last; cooldowns of
one and two ticks and a sleep of at most one make a sleep that is long enough and
one that is cut short; the second round can fail, be cut off or have no words
after a first that had some.  In `memories`, two memories are what a deadlock
takes, two changes what it takes to forget a memory one has replaced, and two
more rows allow both turns to replace one memory.  In `world`, three faults are a
torn append, a second one that runs into it, and a crash that forgets the cache;
two Works make a later turn archive what an earlier one could not.

Two disagreements with the source's own words are refuted by runs; the quoted
lines are under `findings` in `PROJECT.json`:

1. A swept message gets a Work with no target and a better priority than the
   original; it folds the original in, completes it and tells the student
   nothing (`recovery.py:6`: "Accepted messages are never discarded").
2. Two taps at once both consume an interaction (`interaction/service.py:126`:
   "Atomically consume").

The models have more, which no run states as a property:

* A revived Work's turn sends the pending apology that the retry loop is
  sending too (`workers/main.py:395`: "apology once"; `SentBesides` is what it
  costs).
* Recovery makes a new Work for an action whose turn failed
  (`scheduler/service.py:280`: "at most one Work per action"), without limit.
* `delete_uri` logs a failed delete and returns, so a surface is marked cleaned
  with its file still stored and named by no row (`surfaces/service.py:681`:
  "only mark CLEANED if all revision bytes removed").
* `cleanup_pending` is selected by no later cleanup, though it is left "for
  retry".
* The sweep and a turn may both take a message: the turn decides on a `work_id` it
  read without a lock and writes over the sweep's (`world/inbound.py:98-102`);
  `SweptOnce` says that this is the one link that is overwritten.
* A line of the transcript torn inside a character makes every scan and read of
  the file raise (`world/transcript.py:184`: "A torn final line from a crash is
  skipped on read"), and every append of a message that is not cached.
* A reply may be returned from a session that cannot commit, since `_deliver`
  swallows every exception (`intelligence/tutor.py:798`); the worker's flush
  raises then, and nothing is sent.
* The tutor's interactions never expire and are never shown as buttons, although
  the recovery loop sweeps them and the adapters render them
  (`intelligence/tutor.py:366`, `469-476`).
* The reply is archived before its row commits, and its line stays if the row
  is rolled back (`world/transcript.py:17`: "the message row is committed before
  archiving").
* A memory that was forgotten or replaced can be replaced (again), so that two
  active memories may replace one (`memory/store.py:417`: "Replace an active
  memory").
* The turn of a scheduled Work has no conversation and leaves nothing in the
  history (`intelligence/tutor.py:707` expects it there).

### Fairness

`Turns`: the worker and recovery loops never stop (`while RUNNING`), so their
steps are weakly fair, and time passes (`TimeStep`: one step of it after another,
whichever is due).  Webhooks, rollbacks and revivals need
not happen.  `Scheduler` adds strong fairness of the two writes that wait for a
row the recovery loop may hold (`Write`, `CancelWrite`) and of `Mark`: PostgreSQL
queues a waiting writer ahead of later ones, and the loop sleeps at least five
seconds between cycles and skips rows that are locked.  `Interaction`: time
passes an expiry that was set (a row without one has no such step), the recovery
loop runs, a handled tap ends; nobody has to tap.
`Surfaces`: time passes, a session that has begun goes on, and the recovery loop runs
(weak fairness).  Strong fairness says that the recovery loop gets the row it
queues for (`Expire`), that its cycles do not fail for ever (`EndCycle`), that
the worker comes back to an open Work (`Begin`), and that the tutor does not
raise each time (`ApplyAiResult`): the failure path has no limit, so no answer
could be promised without that.  `Tutor`: sleeps end, a request has a timeout,
and the event loop runs each task (weak fairness of `Tick` and of each turn);
which answer a request gets, and when the wall clock runs out, is left open.
`Memory`: a statement whose row is free is executed, the database resolves a
deadlock, and a turn whose session is broken or that has nothing more to do ends,
which module `Tutor` shows.

## 4. Proofs

`TurnsProofs` proves, for any messages, workers, students, channels, attempts,
outcomes and bounds, from `TurnsAssumption` alone:

* `TypeCorrect`: `Spec => []TypeOK`
* `LocksAreExclusive`: `Spec => []LocksExclusive`
* `HeldWorkIsOpen`: `Spec => []HeldIsOpen`
* `TurnsAreSerialized`: `Spec => []TurnsSerialized`

The three safety properties are not inductive alone.  `Inv` adds `TxShape`: an
idle worker holds nothing, a busy one holds the Work it runs, and what it folds
is among what it holds.  `Commit` is where they need each other: it closes the
Works of one transaction, and only `TxShape` (they are all locked by it) with
`LocksExclusive` (so by nobody else) shows that no other turn's Work is closed
under it.  `Claim` and `Coalesce` keep `LocksExclusive` because they choose among
unlocked rows; `Gate` alone can break `TurnsSerialized`.  Steps of the webhook,
the clock and the recovery loop are gathered in one lemma (`OutsideInv`): they
leave every open Work open and every transaction as it is.  The type proof has
one lemma per action.

The same module proves `TurnsImplementLedger`, `Spec => ImplementsLedger`: every
step of the pipeline is an opening, a turn or a stutter of `WorkLedger`.  The
mapping forgets transactions, and `Commit` is the only step of a worker that the
ledger sees, so `LInv` says of each open transaction what it is about to write: a
delivery it will post is in the outbox already or comes with the status that
explains it (`OutboxOf`), and what it folds is of its conversation.  That the
rows behind it are still open is `HeldIsOpen` again.  `OutboxMatchesLedger`,
`FoldedStaysClosed` is part of the same invariant.
`WorkLedgerProofs` proves of the ledger what every implementation inherits,
`LedgerHolds` and `CompletedStays`; `CompletedWorkIsFinal` is the second of them,
stated of the pipeline's tables, and `TablesAreALedger` the first.  Both are
inherited: `Inherited` is `WorkLedgerProofs` under the mapping, `TurnsInherit` says
that the pipeline is such a ledger, and nothing is proved twice.

`MessagesAreSweptOnce` is `Spec => []SweptOnce`.  A turn may act on an old copy of
the message, so nothing says that what it believes unlinked is unlinked; what is
inductive is that a link it is wrong about is the sweep's.  A second turn cannot
have written it: a Work's own turns are kept apart by its lock, and a message's
two Works are apart because the sweep's is born with the link.

`NothingIsDiscarded` is `Spec => []NeverDiscarded`.  `InHand`, the Works the
student was told about and those folded into them through any chain, is a
least fixed point: a Work is in it when it is in every set that accounts for all
that was told (`Accounted`).  So no induction along chains is needed.  A set that
accounts for everything after a step accounts for everything before it
(`AccountedBefore`), because a Work told about stays told about or is folded into
one that is (`ToldOn`), and `SaysSo` makes a turn that completes its Work post a
reply.  Two hypotheses are needed: the tutor always has an answer (`"silent"
\notin TurnResults`; the code closes a Work whose answer is empty and posts
nothing), and no message waits long enough to be swept (`MayAge = {}`; `turns_swept`
refutes the property without it).
`OnlyTheSweepForgets` needs the first one only: with the sweep as free as in the
code, what is not accounted for has been folded into one of the sweep's Works,
which address nobody.

`DuplicatesAreExplained` is `Spec => []DuplicatesExplained`.  It is a balance:
each copy the phone got is *on record*, that is the row says delivered, or a
transaction that is still open (a turn's or the recovery loop's) has its
acknowledgement; or it is in `lost`; or the turn of a revived Work sent it besides
(the invariant `SendsCounted`).  A record is made once because whoever sends has
found the row pending or failed (`RowsCount`), and a turn holds its Work's lock
and sends what it posted or, after a revival, the apology (`TurnSends`).  But for
the apology of a revived Work, at most one of the three records exists, and the
bound follows by arithmetic.  `TriesAreBounded` falls out of the same invariant: a
row never counts more than `max_attempts` tries.

`SchedulerProofs`: `TypeCorrect`, `OneWorkWaits`, `FiresOnce`, `CancelledStays`.
A cancel may overwrite a status and a late mark may fail a Work that is
completed, so status alone carries nothing; what is inductive is that a row that
fired has no Work left to run and that the recovery loop claims only rows all of
whose Works failed (`RowOK`, `CycleOK`).  `FailuresOK` counts: each failed Work
has cost a failure, so there is always a serial left for the next one.

`InteractionProofs`: `TypeCorrect`, `ClosedContinues`, `TimeoutIsFinal`.  The
decision of a tap is taken on a stale status, so nothing ties it to the row;
`Decided` ties it to the status seen, and that is enough.

`SurfacesProofs`: `TypeCorrect`, `PagesAreWhole`, `PagesCount`,
`AsksAreAnsweredOnce`, `RevokedForGood`, `SurfacesImplementContract`,
`ShutForGood`.  Stale sessions may write "active" over
"expired", so the row's status alone carries nothing.  What is inductive is
`Shut`: neither the row nor any session's copy has a status the surface can be
opened in.  Nothing undoes it, since a status can only be written by a session
that has it, and cleanup begins only when the grace is over, by which time all is
`Shut` (`RowOK`; that is what `Ripen` assumes).  Until then pages are whole
(`PagesOK`): files are deleted under `Shut` only, and a turn that stored pages
holds the row they are numbered from (`TurnOK`: its `fresh` revisions lie between
the row's `current` and its copy's).  `AsksOK` counts a request once as a Work or
as an answer, with `JobsApart` because two turns never work on one request.
`RevokedForGood` needs no status: no session's copy clears `revoked`, and
`Resolve` is the only step that lets a visit in.

`SurfacesImplementContract` is `Spec => ImplementsContract`.  One lemma per action
shows `Onward`: the invariant is kept, the row does not vanish, `Shut` and
`revoked` stay, `current` does not go down.  Then a step that leaves the visitors
as they were is a `Write` or a stutter (`WriteStep`), whatever it did, because
the invariant says what the surface is like after it (`DecentHolds`).  The rest
are steps of one request (`WhoIsInside`): `Resolve` is an `Enter`, and what ends
a granted request is an `Exit` that changes neither pages nor files
(`VisitStep`).  `NobodyEarly`, that no request begins before there is a row, is
the one fact the invariant lacked.

`TutorProofs`: `TypeCorrect`, `RepliesAreExplained`, `RepliesCommit`,
`CooldownsAreWaitedOut`.  `CompletionOK` says which providers have given up on
the completion a turn is at, `ReplyOK` what it has to say so far.  `CoolOK` (a
cooldown is never shorter than what was asked for) and `SleepOK` (nor a sleep
than what is left of it, unless excused) are kept by the other turns' 429s and by
the clock, and make the action property.

`MemoryProofs`: `TypeCorrect`, `LinesAreKept`, `EndedNeverReturns`.  Sessions
write over each other from stale copies, so nothing can be said of a row from the
row alone.  `DirtyOK` says that a copy that has ended carries the columns that say
so or was loaded from a row that had ended, `HeirOK` and `OriginOK` that a session
that can still commit has marked what it replaces, with a replacement of its own;
`CommittedRow` is what these make of a row at the one step that writes it.

`WorldProofs`: `TypeCorrect`, `NeverTwice`, `TakenStays`.  What is appended
was looked for first; `Covered` says the cache may be believed, and no failure
takes a line away that was whole.

All of this is for any values of the constants that satisfy the `ASSUME` of the
module, and uses no fairness.

Every invariant and action property of the passing runs, and both refinements,
are stated by a theorem.  Each inductive invariant was model-checked on the
instances before it was proved.  Only model-checked is liveness (`EveryWorkEnds`,
`MailSettles`, `EveryActionEnds`, `ExpiryContinues`, `ClosedIsSwept`,
`AsksSettle`, `EveryTurnEnds`, `MemoryTurnsEnd`): it rests on fairness, so on
`ENABLED`, which the prover does not take.  The two violations are TLC's.

## 5. Plan

Done: the pipeline and its outbox, scheduler, interactions, surfaces, the
tutor's loop, memories, the transcript; two refinements and all safety properties
proved.  What is left, in this order:

1. `Surfaces` further: the contents of `state_json` under concurrent turns.
2. `Scheduler` composed with the outbox, for the scheduled reply that is sent
   before its commit.
3. The rate gate's token bucket as a function of time (`THROTTLE` and cooldown),
   the World's execution slots.
4. Pure functions against reference definitions: `retry_backoff_seconds`,
   relatedness and folding, chunking, surface transitions.

### Not modelled

Identity and linking: the fences `link` and `link_request` are not among those
that `parse_agent_output` recognizes (`directives.py:25`), so no turn requests or
presents a code and the challenges have no live writer.  What is live, two first
messages of a student that both create an identity, ends in a unique-key
violation and a webhook that the channel repeats.

Not planned: HTTP clients and routes, media download, message rendering,
sandboxed execution, signature checks, logging, configuration, migrations.  They
are I/O or formatting; what they return to the pipeline is a nondeterministic
outcome in the models.
