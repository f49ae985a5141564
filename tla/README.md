# TLA+ models of the AI vision TCP server

The repository holds two generations of a competition server. The **station
receiver** (`station_*.py`, `packaging_catalog.py`; TCP v2 and text reports)
takes observations from detection stations, judges barcodes against a catalog
that administrators edit over the web, and stores them. The **referee server**
(`core.py`, `network.py`, `storage.py`, `headless.py`; TCP v1) runs timed rounds
against one contestant, under the hands of a judge at a Tk window or a web page.
Both keep their evidence in SQLite and promise never to lose, invent or change a
result. This directory states such promises and checks them.

Paths below are relative to `src/competition/` unless they begin with `src/`.

## 1. Inventory

| component | state it keeps | operations | talks to |
|---|---|---|---|
| catalog and results (`packaging_catalog.py`, `station_store.py`) | tables `standards`, `standard_updates`, `results`, `events` | `set_standard`, `set_catalog`, `select_standard`, `record`, upgrade of old rows | called by web routes and connection threads; one lock and transaction per call |
| station engine and service (`station_runtime.py`) | `peers`, `fatal`, `clients`, per connection `key`, `alive`, `last_result_id`, buffer | accept, receive, send, disconnected, fail, stop, close | one thread per connection, the accept thread, web threads; `StationEngine.lock`, `StationService.lock` |
| text codec (`station_text.py`), JSON codecs (`station_protocol.py`, `standard_json.py`) | `FrameDecoder.mode` and the connection's buffer | `pop`, `decode_text`, `encode_result`, `validate` | the receive loop |
| station web API (`station_webapp.py`) | none of its own | catalog writes, reads, exports | store, engine, login |
| referee engine (`core.py`, `storage.py`) | session, peer, active round, start times, `fatal`; tables `sessions`, `rounds`, `receipts`, `target_revisions`, `audit` | judge's commands, message handlers, `tick`, `fail`, recovery | connection threads, timer thread, GUI or web threads; `Engine.lock` |
| referee TCP service (`network.py`) | listener, connections, accept and timer threads | start, stop, run | engine |
| headless control (`headless.py`) | receipts of commands, epoch, state token | `command`, `state`, `history` | engine, jobs, web |
| maintenance jobs (`headless.py`) | list of jobs, pending count, executor queue | submit, run, get, list, close | one worker thread, database files |
| database files (`dbtools.py`, `schema.py`, `Store.__init__`) | data directory, lock file, backup folders | open, upgrade, backup, restore | other processes, through the file system and `DataLock` only |
| login (`web_auth.py`) | sessions, attempt windows, map of addresses | login, get, logout | routes of both web apps, on a pool of threads |
| public display (`display.py`, `web/app.js`) | the publisher's cached snapshot, the page's last answer | publish, poll, show | engine's lock, the network |
| desktop window (`gui.py`, `database_ui.py`) | event queue, busy and dirty flags, last snapshot, pending backups | buttons, poll, control worker, backup worker, close | engine, database files |
| headless web app (`webapp.py`), admin and monitor pages (`admin/admin.js`, `monitor/app.js`) | drafts, state token | routes, polls | headless control, login |
| clients, command line tools | none | sample sessions; backup, restore, reports | servers; database files |

What is hard here: threads that meet under different locks; a clean-up that runs
after its connection was replaced; an error that leaves a handler before it is
reported to `fail()`; requests and results that are repeated because an answer was
lost; pages and windows that act on an old view; a window that waits on the queue only it
empties; an exception that leaves a window's handler half done; a time limit racing an answer; limits of
queues and caches; frames without a length; processes that die between two writes
to disk. Each such place is listed, with its line and the property that watches
it, under `hazards` in `PROJECT.json`.

What makes each component correct:

- *catalog*: no update lost, none applied twice, no target nobody chose, verdicts
  as of the time of receipt, repeated requests answered alike;
- *station engine*: at most one live connection for a station, an ACK only for what
  is stored, nothing stored after a storage failure, shutdown ends and ends last;
- *framing*: frames are those that were sent, however TCP cuts the stream, and none is
  lost before the connection ends;
- *referee*: one waiting round, one verdict for a round, memory and tables agree,
  a time limit always ends a wait;
- *headless*: a command is carried out once, and by a judge who knew the state;
- *jobs*: no unfinished job is forgotten, the queue moves, the database closes last;
- *login*: the limits on attempts hold, whoever attempts; a login lives as long as it
  should and no longer;
- *display*: what is shown as live is recent and never goes back;
- *window*: it shows the match as it is, starts what it showed, answers unless one of four
  known things has happened, and no closed session is left without a backup or a word about it;
- *files*: what looks like a backup is one, restores overwrite nothing, an upgrade
  keeps the original.

## 2. Modules

| module | models | how state and steps correspond |
|---|---|---|
| `StationCatalog` | catalog and `record` | the tables are variables; a call runs in one transaction, so one call is one action. `Build`, `KeptSelection`, `NewRow`, `Verdict` are the code's functions; `answers` and `acks` are history, and an answer says whether its request was ahead of the list |
| `ObservationLog` | *abstract*: what a station is promised | an append-only log and the acknowledged entries |
| `StationEngine` | station engine, service, runtime | `pc[c]` is the place of a connection's thread (listed at the module's head). A handler is split where others can intervene: before the lock, and at each write or send that may fail |
| `TextFraming` | `FrameDecoder`, codec, receive loop | a byte is a character; `Step` is the pure decision of one `pop`, the actions are the two nested loops with every way out of them; the clock is left out: the last `MAX_RATE` frames fell within a second or they did not, an unfinished frame is five seconds old or it is not |
| `RoundLedger` | *abstract*: what a judge is promised | rounds and acknowledged verdicts |
| `RefereeEngine` | engine, tables, connections, timer | a handler is one step under `Engine.lock`; a failed write cuts it where it fails, and a crash between two writes leaves the same tables |
| `HeadlessControl` | commands, tokens, receipts | the engine is reduced to what pages show; `RoundMoves` stands for contestant and timer |
| `MaintenanceJobs` | `Jobs` and its worker | jobs are numbered in the order of submission, which is the order of list and queue |
| `DatabaseCopies` | opening, upgrade, backup, restore | one action per step that a process may die after; bytes stand for their digest |
| `WebLogin` | `Auth` and the login and logout routes | times are ages; a thread works with a time up to `Delay` old, as it reads the clock before it has the lock. `admitted` and `grants` are history: the true ages of attempts and logins |
| `PublicDisplay` | the publisher's loop, its cache, a page in view | times are ages in ticks of half a second; a fetch is on its way out, being answered, or on its way back |
| `DesktopWindow` | `App` with its queue and both workers, the engine's notifications | `events` is the queue; `posts` is what the holder of `Engine.lock` has still to post, so a handler's later notifications are steps of their own; `created` and `results` are what the control worker has still to put; `polling` says that `_poll` is still called again |
| `MC*` | instances for TLC | definitions of constants, symmetry |
| `*Proofs` | theorems | extend the component's module and TLAPS; `HeadlessServerProofs` extends the three parts of that server's process, which is why the definitions of `MaintenanceJobs` and `PublicDisplay` begin with `Jobs` and `Display` |

`StationEngine` carries the results of the store only as rows; what `record`
decides about a row is `StationCatalog`'s subject. Both modules contain the
duplicate check, so each stands alone. `HeadlessControl` and `RefereeEngine` overlap
in the same way: the former has the judge's commands as pages see them, the latter
what they do to tables and connections; `DesktopWindow` has what the engine's
notifications and snapshots make of a window. Operators whose name is followed by a
comment `fault` are not part of a model: each is a plausible slip in the operator
after it, and the property listed with it in `PROJECT.json` fails when it is put in.

Events and audit rows are left out as data. Their writes are not: each of them can
fail, and the failure is a step.

## 3. Runs

| run | question | bounds | distinct states |
|---|---|---|---|
| `StationCatalog` | two administrators, two stations, results | 2 request ids and 2 requests of three kinds, ones ahead of the list included, 3 lists (one changes a barcode), 2 results, old and new databases | 2.1 million |
| `StationEngine` | competition for a slot, failing disk, stop, crash; a place returns, a shutdown ends | 2 connections, 1 slot, 2 places, 2 contents of one message, 2 rows, one tolerated error | 0.27 million |
| `RefereeRounds` | rounds, verdicts, receipts | 1 session, 2 connections, 2 rounds, 2 messages, 2 verdicts, 2 target revisions | 1.9 million |
| `RefereeSessions` | contestant and session across restarts, the timer; a timed round ends | 2 sessions, 2 connections, 1 round, 1 message, 1 verdict, 2 target revisions | 2.0 million |
| `HeadlessControl` | repeated deliveries and stale pages | 2 request ids, 2 in flight, 1 receipt kept, 2 processes, 2 sessions, 1 round in each, 2 revisions | 11.5 million |
| `HeadlessStalePage` | the token as documented; **violated** | 1 process, 2 rounds | stops at the violation |
| `MaintenanceJobs` | limits of the queue | 2 pending, 2 listed, 6 jobs | 2 thousand |
| `TextFraming` | framing under all chunkings | up to 3 pieces, chunks of up to 3 bytes, 2 layouts, fields empty and `end`, 8 kinds of noise; 2 frames in a second, 2 refused frames | 0.20 million |
| `DatabaseCopies` | files across processes | 2 directories, 2 restores, 2 backup folders, 2 commits | 6.2 million |
| `DesktopWindow` | window, workers and engine around the queue; commands end | a queue of 1 place, 1 pending backup, 3 sessions, 2 target versions of the first, settings refused in the first two | 1.1 million |
| `WebLogin` | limits of attempts and logins | 3 addresses, window 3 and delay 1, 3 attempts in all and 1 from an address, 2 addresses remembered, 2 logins valid, 3 granted | 1.3 million |
| `PublicDisplay` | stalling publisher, slow network | age limit 5, abort after 4, room for 2 fetches | 29 thousand |

Why these bounds are enough. The catalog's and the engine's properties relate at most two
requests, two stations or two connections to each other: in `StationEngine` one connection
takes over the slot of another that is still cleaning up, and both places are in use. Two
rounds are one that is over and one that runs; two sessions are one that was left and one
in force. A receipt limit of one is the smallest where a new receipt pushes out one that is
still asked for. What the small instances of `StationEngine`, `HeadlessControl` and the
referee leave open for more connections, rounds or receipts, the proofs settle for every
value. `ItemLimit = PendingLimit = 2` is the tightest case the code's assumption allows (8
and 100 in the code). A text stream of three pieces with chunks of one to three bytes cuts a
terminator in all places, and the frame limit of 10 is the length of one kind of report, with others
below and above it. Two frames in a second and two refused frames (100 and 5 in the code)
let three pieces pass either limit, or stay below. A queue of one place is full after one event, which makes every
drop and every wait of `DesktopWindow` happen (2500 in the code); one pending backup and
three sessions make the list overflow. A setting may be refused in the first two sessions
(`LastRefusal`), so that the program can lose its polling, or its close, before and after a
session was closed. `MapLimit` is one less than `GlobalLimit`, the
tightest that `LoginConstants` allows (1024 and 20 in the code), and three addresses push
one out. In `PublicDisplay` the ages go beyond age limit and abort time together.

`CHECK_DEADLOCK FALSE` stands in the runs whose behaviours really end: connections and
session ids are used once, request ids and backup folders run out, a remote end
may stop sending, and a window that was closed does nothing any more.

### Fairness

Only the runs with liveness properties assume any. `StationEngine`: a thread that can go
on goes on (weak fairness); a step that needs the engine's lock is taken if the lock is free
again and again (strong fairness), which the limit of 100 frames a second for each
connection and the time-out of every socket call justify. `RefereeSessions`: the timer
thread ticks, time passes, and a raised error arrives. `MaintenanceJobs`: the worker
runs and a job ends. `DesktopWindow`: Tk's loop goes on while its handlers return (weak
fairness of `React`), which includes that the referee answers the boxes it opens; the two
workers need the engine's lock and places in the queue that others take in between (strong
fairness of `Work` and `Backup`), which the pauses between polls, commands and messages
justify. Nothing is assumed of clients, judges, disks or accepts, and nothing makes a crash
happen or not happen.

### What the runs show

All properties hold but the one of `HeadlessStalePage`. There `docs/WEB_API.md:64` and
the message at `headless.py:267` say that a command is refused when the state of a round
has changed since the page was loaded. The digest at `headless.py:186` holds the number of
rounds and the active one, not their statuses: a result that arrives after its time limit
turns a TIMEOUT round into a LATE one and the token stays. `KnowsTheRounds` says exactly
how far the token does reach, and holds: nothing but such a late result can have happened.
Nor does the token change for good when a change is undone: it is the same after the
listener was stopped and started again, and after a session was created and ended.

More things a reader should know, which the properties state as their exceptions or which
the models show on the way:

- A catalog request that names a revision still to come is refused with `STATE_CHANGED` like
  a stale one (`packaging_catalog.py:62`), and the refusal is not put on record: the same
  request, sent again when the catalog has got there, is carried out. This is the one case
  where two answers to one request differ, and `AnswersAgree` states it.
- A station that sends nothing but sound reports may still be cut off: above 100 frames in a
  second, of which the last is dropped (`station_runtime.py:185`); with an unfinished frame
  after five seconds (`:157`); after five frames that were refused for other reasons (`:194`).
  What it has sent behind the cut is lost, nothing before it is (`SentIsReceived`).
- A connection that never identifies itself is not timed out by the station receiver
  (`PlaceIsReturned` excludes it).
- A restore that failed leaves `competition.lock`, so its directory is refused the next time.
- The window's queue drops any notification when it is full. The comment at `gui.py:86` says
  only the live display can drop, and `docs/DATABASE_GUIDE.md:103` promises a backup after
  each session; but `session_closed`, which asks for that backup, goes the same way. It
  takes 2500 unread events to happen; `BackupsAccounted` holds as long as nothing was dropped.
- The window's own thread puts the refusal of a backup with a blocking put (`gui.py:280`) into
  the queue that only this thread empties. With the queue full then, window and workers wait
  for ever: `Stuck`, which the model reaches, and which `WindowAnswers` excepts.
- A setting of more than 2000 characters is refused with a ValueError (`storage.py:261`), and
  the window expects OSError only. At the close (`gui.py:622`) it leaves `_close` with `closing`
  set and no job submitted: the program cannot be closed any more. After a new session
  (`gui.py:576`) it leaves `_poll`, which is then never called again: the command that created
  the session keeps the buttons busy for ever. `WindowAnswers` excepts both (`NeverSubmitted`,
  `~polling`).
- A store or data lock that raises when it is closed (`gui.py:640`) keeps "closed" from being
  put, and the window stays: `NeverReported`, the last of the four exceptions.
- If the display or the listener raises while the program closes (`_close`), the session is
  closed without its automatic backup and nobody is told; `BackupsAccounted` excepts a
  shutdown that raised.
- The display page measures the age of a snapshot from the publisher's side; how long an
  answer was on its way is bounded by the page's abort only. The true age of a verdict shown
  as live can be the sum of both limits, 2.5 and 1.8 seconds, where `docs/DISPLAY_GUIDE.md:106`
  speaks of about 2.5. `LiveIsRecent` states the sum.
- The login limits use the time a thread read before it had the lock, so they hold for a
  window less that delay (`TriesAreLimited`).

## 4. Proofs

TLAPS checks these for every value of the constants the named assumptions
(`CatalogConstants`, `EngineConstants`, `JobLimits`, `HeadlessConstants`,
`DisplayConstants`, `RefereeConstants`, `CopiesConstants`, `FileConstants`,
`WindowConstants`, `LoginConstants`, `FramingConstants`, `PrefixesAreWords`) allow. The type
invariants of the modules with proofs are theorems and no longer properties of runs. Each module of proofs extends
the module it is about, and TLC evaluates the assumptions on every run of that module.

- **`StationCatalogProofs`**: `TypeOK` is inductive by itself, and so is each of
  `SelectionsExist`, `NoLostUpdate` and `AckedIsRecorded` once it is known: a row and its
  update are written in one transaction. `AnswersAgree` needs `AnswersExplained`: an OK
  answer names a row of `standard_updates`; a request refused when it was not ahead of the list
  is not in that table and cannot get there any more, since its revision has passed, its id is
  taken, or its box is not in the list of its revision (`Hopeless`); one that was ahead was
  answered `STATE_CHANGED`, which is all that is known of it. With `NoLostUpdate` (an id has
  one row) no other two answers to a request differ. `HistoryNeverRejudged` needs that rows of `standards` are only appended, so
  that `CatalogAt(r)` stays for every old `r`, and `NoFutureRevision`, that no observation
  refers to a revision still to come. `TargetWasChosen` rests on `SelectionsExist` and
  `NoLostUpdate` and carries its witness along: the revision that chose the target stays
  the witness if the new row keeps box and barcode, and is the new revision otherwise.
- **`StationEngineProofs`**: the inductive invariant `EngineInv` joins the claims
  `LiveOwner` and `FatalCutsOff` with what they need: what a thread's place implies about
  its memory (`Places`: `ClosedWhenGone`, a thread that has left its loop is closed;
  `NewIsBlank`, a connection not yet accepted has no key; `HandIsFrame`, a thread inside
  `receive` holds a frame; `BelowLimit`, a loop that goes on has errors to spare); that
  `last_result_id` is a row its own connection stored (`LastIsOwnRow`, from which
  `CurrentIsOwn` follows); that after a storage failure no thread is inside `receive`
  (`FatalIsAlone`, from which `FatalFreezes` follows); and that `stop()` has listed every
  connection that is left (`AllListed`, without which `ClosedIsQuiet` is not inductive: an
  accept after the listing would escape the join).
  `ImplementsLog` proves the refinement of `ObservationLog`: a step that stores is
  `Accept`; a step that sends a `result_ack` is `Acknowledge`, because a result about to
  be acknowledged is stored word for word (`ReplyIsStored`); every other step stutters.
- **`RefereeEngineProofs`**: `RefereeInv` joins the types with: nobody is a member before its
  handshake, or of a session not yet created (`MembersKnown`), without which `LiveContestant`
  is not inductive; at most one session is open, which is the one in memory while no error is
  on its way, and a process that is down has no memory (`SessionsAgree`); at most one round of
  the table waits, in an open session and without a verdict, also in the tables a dead process
  left (`WaitingHasSession`), and a living one has it as its active round (`ActiveIsWaiting`);
  a round that timed out has passed its limit (`TimeoutIsOverdue`), so that its answer is a
  late one; without a listener nobody is connected and no round waits (`QuietWithoutListener`);
  and verdicts and receipts pair off (`ReceiptsPair`), from which the counts of `ReceiptsMatch`
  follow. `RoundSteps` sorts all steps into five kinds by what they do to rounds and receipts.
  `ImplementsLedger` proves the refinement of `RoundLedger` along these kinds: a round is
  started, expires, is cancelled or is answered as the ledger's is; a repeated result is
  `Acknowledge`; the rest stutters.
- **`HeadlessServerProofs`**, which holds what is proved about three parts of one process.
  `ControlInv` says that the rounds a page saw lead on to those of
  the match, `TIMEOUT` to `LATE` being the one step the token does not see (`PagesAreBehind`);
  that there are no rounds without a session; and what a command that was carried out has left
  behind, a receipt or a frozen engine, in its own process (`DoneLeavesTraces`). From these,
  `KnowsTheRounds` and `ExecutesOnce` for every limit of the receipts.
  `JobInv` orders the counters of the queue (`forgotten <= released <=
  finished <= taken <= accepted`, and `taken <= released + 1`), ties `pending` to
  `accepted - released`, and says that finished jobs have ended (`FinishedHaveEnded`) and that
  the database is closed behind the last one (`ClosedBehind`). With `PendingLimit <= ItemLimit`
  the jobs pushed out of the list are finished ones.
  `DisplayInv` follows a snapshot's age on its way: no answer and
  nothing shown is younger than the cache (`BehindTheCache`), an answer is older than it says by
  its time on the way at most (`OnTheWay`), what is shown as live by one such time (`Believed`),
  and there is one fetch at most (`OneAtATime`).
- **`DatabaseCopiesProofs`**: `CopiesInv` says who holds a directory, and that a restore that
  works in one finds no database there (`Holders`); that databases hold what was committed;
  that a backup's folder claims nothing before it is true (`FoldersTrue`) and a restore
  carries a true manifest (`RestoresKnow`); and that the backup a start-up waits for is its
  own last one and keeps what the upgrade will change (`UpgradesKeep`). `NeverReplaced` and
  `RestoresTheOriginal` then follow step by step from who may change a database
  (`DatabaseSteps`).
- **`DesktopWindowProofs`**: `WindowInv` says that one command is under way at a time, as a
  job, a result or an event (`OneCommand`); that a snapshot in the queue is current or has the
  end of the command that made it old behind it (`SnapshotsInOrder`), so that a button that is
  free shows the session and the target in force (`ButtonShows`); and that the closing
  job, if it was submitted at all, is the last one (`Ending`). `BackupsKnown` adds what the backups need: a pending one is being
  made, has been made, or its failure is in the queue (`PendingKnown`), which is why
  passing over a session that is pending already loses nothing; the notice to be put is
  about the copy at the head (`NoticeKnown`); and behind the last copy every session is settled
  or its failure comes (`LastKnown`), which is why the window that closes may pass over the
  rest. Most steps leave the backups alone (`OthersAside`). `ShownInv` is what `ShowsTheMatch`
  needs: one snapshot is under way at a time (`OneSnapshot`); whatever changed since the one
  shown was read, its news is posted, queued or has marked the window as dirty (`Following`),
  unless it was dropped by a full queue; and the button fits what is shown (`ButtonFits`).
  The property was first stated for an engine that has not failed; the proof does not need
  that, and it is stated for both now.
- **`WebLoginProofs`**: the limits hold because each list counts the tries that are
  remembered: there is an injection from the tries into the entries of the list, each entry
  late by `Delay` at most (`Counts`). Entries that are dropped are then none that counts
  (`DropCounts`). The map of addresses is in the order of the last tries (`InOrder`), so the
  address that makes room has as many others behind it as the map has places, each with a later
  try: with `MapLimit >= GlobalLimit - 1` it has no try that is remembered, or exactly the
  first of as many as there may be in all (`Exhausted`), and then nobody is let through before
  that one is too old. `LoginsInv` says of each login in the map that its age and the time it
  has left make its lifetime, less what the thread was late (`Ends`), and that each that is due
  (`Due`) is in the map; the one pushed out is the least of more than `SessionLimit` numbers, so
  as many came after it (`TrimmedAreOld`).

- **`TextFramingProofs`**: for streams of any length. First the operators: what `Split`
  returns is told by the places of the commas (`CommasOfPart`, `SplitInto`); `TextStep` and
  `JsonStep` accept a first part of the bytes exactly when that part is a frame by its shape
  (`IsText`, `IsLine`), and once they fail on some bytes they fail in the same way on more
  of them (`TextFrames`, `TextFails`, `JsonFrames`, `JsonFails`, joined in `Decided`). `Cut`
  takes each frame to be the shortest one from its place on, which agrees with a receiver
  that sees a part of the stream (`Stopping`, `CutGoesOn`). `Encoded` says that what
  `encode_result` writes is a frame and that `decode_text` makes the same message of it. The
  inductive invariant `FramingInv` then places the buffer in the stream (`Placed`): the
  buffer has the bytes from `p` to `e`, the wire the rest, the frames handed over and those
  the stream has from `p` on are those of the whole (`Reached`), and in a stream of reports
  and line ends, the reports handed over are those of the pieces before `p`, behind the last
  of which only line ends stand (`Sound`). A decision that fails or waits for too much then
  finds no frame in the stream either, so a connection that is given up for its bytes has had
  all its frames taken, and this never happens in a stream of reports, where the next byte that
  is no line end begins the next one (`ReportNext`, `ReportDecided`). The other closings only
  cut the sequence of frames short: of a stream of reports, the one for the rate has a frame
  more than `MAX_RATE` before it, and the one for an unfinished frame has bytes on the wire,
  since a buffer that ends with the stream is empty when the receiver waits. `FramingConstants` says that prefixes, fields and
  noise are byte strings and limits are positive; `PrefixesAreWords`, that a prefix is not
  empty, has no comma or line end and begins with no blank and no brace, as `screw`,
  `packaging`, `hello` and `ping` of `COMMAS` do. Without it a stream of reports could
  be taken for JSON.
  `Cut` is a recursive function and not a RECURSIVE operator, and the folds of the community
  modules are such functions too. What they compute is proved by least counterexample, with
  the well-founded order of the numbers (`LeastNumber`), in place of induction with an
  operator as parameter (`CutExists`, `Joined`, `Counted`).

Only model-checked: every liveness property (`QueueMoves`, `StopEnds`, `PlaceIsReturned`,
`TimedRoundEnds`, `WindowAnswers`), since fairness and ENABLED are outside the prover's
reach. Every safety property that a passing run checks is a theorem as well.

## 5. Not modelled

- The clock of the station receiver's time limits: idleness, hang-up, failed sends and the other
  ends of a connection that do not depend on its bytes are one step of `TextFraming` (`Closes`),
  which may come at any time. What `receive` refuses beyond what `decode_text` does is a free
  choice there.
- What the sqlite3 module does for a connection thread of the referee that outlives the two
  seconds `stop()` waits for it (`network.py:236`) and writes to a database closed since: in
  `RefereeEngine` such a thread goes on, and its writes fail.
- Of the desktop window: the list of past sessions, the dialogs of `database_ui.py` beyond
  being commands of the control worker, the display's settings.
- Of the display: what a snapshot contains, branding, pages in the background, the start
  and stop of its service.
- Of the web apps: the 503 of a station runtime that is not healthy, which only refuses
  requests; configuration, headers, origin checks, static files; of the monitor page,
  its drafts and polling.
- Exports, searches, statistics: they read in a transaction of their own.
- Field validation (formats, lengths, UTF-8, depth of JSON): stateless functions with
  unit tests; the models keep the distinction between valid and not.
- The sample clients: the servers are checked against any client. Catalog requests may name
  any revision, ahead of the list or behind, within the bound `MaxRevision`.

## 6. Plan

Done in this order: `StationCatalog` and its proofs, `StationEngine` with
`ObservationLog` and the refinement proof, `RefereeEngine` with `RoundLedger`,
`HeadlessControl`, `MaintenanceJobs` and its proofs, `TextFraming`, `DatabaseCopies`;
then `DesktopWindow`, `WebLogin`, `PublicDisplay`, and the proofs about `PublicDisplay`,
`HeadlessControl`, `RefereeEngine` (with its refinement), `DatabaseCopies` and `DesktopWindow`;
then the proofs about `WebLogin`, `TextFraming` and what the window shows.

Next, in order of weight:

1. The order in which `Runtime.close` of the headless server ends its parts.
2. A composition of `RefereeEngine` and `HeadlessControl`: that each engine step a page can
   see is one of `HeadlessControl`'s steps, as a refinement with its proof.
3. The drafts of `monitor/app.js` as readers of a catalog that moves on.
