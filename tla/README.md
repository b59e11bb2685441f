# Verification of auto-telegram-news

TLA+ models of the program under `src/`, TLC configurations that check them on small
instances, and theorems that the TLA+ proof system checks for every value of the constants.

## 1. The system

A single process with one asyncio event loop collects posts of Telegram channels with a user
session (Telethon), removes duplicates, has a language model write news from them, and
publishes these with a bot into other channels. The panel (FastAPI) runs in the same process.
Handlers declared `async def` run on the loop and use *synchronous* database sessions there;
handlers declared `def` run in a thread pool. The database runs READ COMMITTED; a session
(`autoflush` off) sees its own writes, locks the rows it has flushed, and nobody else sees them
before the commit. What lies between two `await`s is therefore atomic for the other coroutines,
and every `await` with an open transaction is a place where something can happen.

| component | state | operations | interacts with |
|---|---|---|---|
| Publication (`telegram_publisher`, `post_lifecycle`, `scheduler`, `web/routes/generated`, `posts`) | `generated_posts.status`, `raw_posts.status`, `publish_jobs` (status, attempts, sent_message_id, scheduled_at), the channels themselves | publish, publish-raw, defer, retry, due jobs, save, reject, bulk reject | called by requests, the scheduler and the pipeline; restores media through the reader |
| Collection (`telegram_reader`, `telegram_event_listener`, `news_pipeline.fetch_new_posts`) | `last_message_id`, raw posts, album buffer, tasks of the handlers, `_TELETHON_LOCK` | poll, catch-up, live handler, album timer, connect, disconnect | three paths write one table and one cursor |
| Pipeline and deduplication (`news_pipeline`, `deduplication`, `embedder`, `text_cleanup`) | raw post statuses, hashes, vectors | process_ready_posts, run_autopublish | reads what collection writes, calls generation and publication |
| Generation (`post_generation`, `ai_gateway`, `ai_prompt`, `manual_post`) | drafts | generate, regenerate, bulk, compose | external gateway |
| Telegram session and login (`telegram_login`, `telegram_session_store`) | login state, client, lock | QR and phone login, 2FA, cancel, logout | stops and starts the listener, shares the lock with every poll |
| Prompts; sources, routes, targets, projects | rows | forms | routing and the choice of a prompt |
| Media on disk (`media_storage`, `media_cache`, `post_media`) | files, `local_path` | store, evict, restore, upload | publication and `/media` read the files |
| Marks (`markdown_entities`, `message_entities`) | none | conversions | generation, publication |
| Settings, panel logins, middleware, statistics, journal, retention, notification | rows, a counter of failed logins | forms, queries | - |
| Process, database, migrations, deployment | lifespan, schema | start, stop | all |

What is hard: claims that stay uncommitted over awaits; a commit in the middle of a split post;
answers of Telegram that are lost after the message was accepted; a scheduler that works off a
list it read earlier; windows that close while a post waits; three writers of one cursor; a
listener that is connected, but not yet listening; tasks nobody awaits; restarts between any two
of these. What makes the components correct:

- publication: a text reaches a channel once; when it may come twice, there is a reason that can
  be named; statuses are not claimed without a delivery; the attempts stop; what was queued is
  taken up;
- collection: no message is passed over; an album is one post; what was heard is not lost
  silently; every queue is drained;
- pipeline and generation: of the posts the base already had, none goes out a second time by
  itself; an original exists; a text typed by hand is never taken by the automatic loop; a post
  gets one automatic draft;
- session: one client on the session at a time; a login that ended, in whatever way, leaves the
  listener running and the lock free;
- media: what was uploaded is kept; a file needed by a pending publication is not evicted; what is
  sent is whole; the counter and the order of an album are right; no file is forgotten on the disk;
- sources: a cursor is one of the channel that is read; a channel is one source;
- prompts: exactly one is the main one, and a target names one that exists.

`PROJECT.json` lists every component with its status, and the hazards at their lines.

## 2. Modules

| module | what it is |
|---|---|
| `Publishing` | publication in detail: rows with committed and flushed values, coroutines with the place where they wait, the scheduler's pass, the clock, the operator, the channels |
| `DeliveryLedger` | the abstract specification of publication: who owes a text, who waits to be told, what is recorded as served; with its own proof |
| `PublishingProofs` | the theorems about `Publishing` |
| `PublishingRowProofs` | more theorems about `Publishing`: locks of posts, what a status is evidence of, RUNNING and SCHEDULED, attempts |
| `MCPublishing` | constants for TLC (which generated post belongs to which raw post, the symmetry) |
| `Collection` | one source channel: polls, catch-up, live handlers, the lock, the cursor |
| `CollectionProofs` | the theorems about `Collection` |
| `MCCollection` | constants for TLC (which messages are an album, the narrower bounds where the listener is started) |
| `TelegramSession` | the one session of Telegram: lock, clients, the login with its requests and its watcher of the QR code, the listener's tasks, polls |
| `SessionProofs` | the theorems about `TelegramSession` |
| `MCSession` | the symmetry of tasks and clients for TLC |
| `Newsroom` | from a collected post to a draft: deduplication, the automatic loop, generation, manual posts, edits, rejection, deletion |
| `NewsroomProofs` | the theorems about `Newsroom` |
| `MCNewsroom` | the texts of the posts, equal or alike, and the symmetry for TLC |
| `MediaFiles` | the media of the posts: rows, files, uploads, moves, cleanup, restorations, what is sent |
| `MediaProofs` | the theorems about `MediaFiles` |
| `MCMediaFiles` | the album of a post and the symmetry for TLC |
| `Catalogue` | sources, targets, routes and prompts, with the collections that read and write the rows of sources |
| `CatalogueProofs` | the theorems about `Catalogue` |
| `MCCatalogue` | the channels of the links and the symmetry for TLC |

The modules meet where the code has one table or one call: `Publishing` is the inside of the step
`AutoPublish` of `Newsroom` and of `Choose`/`Send` of `MediaFiles`; `Collection` is what lies behind
`Arrive` of `Newsroom`, `Collect` of `MediaFiles` and `Fetch`/`EndFetch` of `Catalogue`. Each takes the
other's part as one step with every outcome the other has.

### Publishing

A row is a record `[com, cur, by]`: the committed value, the value written by the session that
holds the row, and the holder. `View` is what a session reads, `Put` a flushed write, `Commit`
and `Rollback` end a transaction. A coroutine that needs a row held by another one *stops the
loop* (`frozen`), because the driver is synchronous and the holder is a coroutine of the same
loop; handlers in threads only wait. A frozen loop is left by `Restart` alone (the host's health
check).

`Publish` is `publish_generated_post` up to its first await with its early returns in the order of
the code: already published, empty payload, outside the window, claim. `RestoreMedia`, `Deliver`,
`Acknowledge`, `SendFails` and `AnswerLost` are what comes after. A message is accepted by Telegram
(`Deliver`) in a step of its own before the answer is heard, so that a lost answer and a crash can
fall in between. A post is a "text", a "captioned" message (media carry the whole text) or "split"
(media first, committed, then the text). The callers are `Click` (the publish route, and each
publication of the automatic loop), `PublishRaw`, `RetryFailedJob` and `ProcessScheduledJob`; the
scheduler's pass reads each list once (`StartRetries`, `StartScheduled`) and commits at its end, or
rolls back when the database fails there (`EndRun`). `SaveGenerated`, `RejectGenerated`, `RejectPost` and `BulkReject` are the operator.
`lostTexts`, `lostMedia` and `overlaps` are history: deliveries that were never recorded, claims
of a pair another coroutine was already at.

### Collection

A reader (a poll or the catch-up) reads the cursor when it starts, waits (for the lock, for the
channel to be resolved), takes a batch by the cursor it read, looks at its posts one by one
(standalone messages first, then albums, as in `collect_pending`), and writes everything with the
cursor in one commit. The listener is "none" where it is not started (`main.py:119`: no API key), else "off",
"catchup" or "on"; only when it is "on" does an arriving message reach a handler. Handlers keep album parts in `buffer` for the timer, and a save
(`saves`) carries the cursor it read before its download. A raw post is the set of its messages; a
post whose anchor has no text exists only with its files (`Wordless`). `skipped`, `unsaved` and
`noted` are history: left out on purpose (too old, before the first collection), not saved because a save
failed, and told in the journal. A failed save of a single message may or may not be told: `_note` writes one text
once an hour at most, and swallows its own failure. One of an album never is (`SaveFails`).

### TelegramSession

The actors are the coroutines of the login's routes (`Requests`) and the tasks of `_watch_qr`
(`Watchers`); `pc` says at which `await` an actor waits, `mine` with which client. A step is
everything up to the next `await`: `Reset` is `_reset` up to `disconnect()`, `GiveBack` the rest of it up
to the end of `start()`, which is immediate unless a task of the listener must be stopped first
(`StopTask`, then `Restarted`). `EnsureClient`, `Stopped`, `Acquire` and `Connected` are the four
stretches of `_ensure_client`, and what they look at is looked at in that stretch: `_client` before
`stop()`, `_lock_acquired` after it, `_client` again when it is returned.

Cancellation follows asyncio. A cancelled task of the listener leaves `async with` at once, except
one in `run_until_disconnected`, whose `finally` disconnects and sleeps ("ending"); `stop()` waits for it up
to 5 seconds. `_reset` cancels the watcher; when it is the watcher itself that runs `_reset`, the
next `await` raises in it: it is "cut", with the client down and nothing given back. `Woken` says that
callbacks that are ready run before the loop looks at the network. A bot's login is an error after
`_reset` returns, and only then, so that a cut watcher leaves the state as it was.

### Newsroom

`row` is `raw_posts` (status, hash, reference to the original, vector), `draft` is `generated_posts`. A run
(`Runs`) is `NewsPipeline.run_once` after the fetch: `StartRun` loads the NEW and READY posts, `Compare`
judges one of them, `CommitVerdicts` writes them, `ListReady`, `AskModel`, `SaveAuto` or `Unsuitable`, and
`AutoPublish` are `run_autopublish`. `Verdicts` has the three phases of `deduplicate_post` in their order:
equal hashes against the whole table, similar texts and then close vectors against the posts of the
last 48 hours (`recent`). The queries see committed rows only, for the session does not flush: that is why
`loaded` and `staged` are kept apart, and why `Merge` writes just the columns that differ. A post may be
deleted by a thread between two comparisons, and then the commit fails (`Refused`). The comparison
contains no `await`, so `LoopFree` keeps every other coroutine out of it, but not the threads. `Embed` loads
the model once; after a failure it is never tried again. `Desks` are the requests that ask the gateway
(`Generate`, `Regenerate`, `Compose`), the other requests write at once. `before` and `shared` are history.

### MediaFiles

`item` is `media_items`, `disk` says of every path whether there is nothing, a part or the whole file. The path
of a medium of a channel has the day in it (`Path`), so that a restoration on another day brings it to
another path; an upload has a name of its own. `StartUpload` loads the post with its items and keeps
that view while the files are read; `FlushUpload` counts with what others have committed, and `CommitUpload`
writes the counter only if it differs from the one that was loaded (`Counter`). Deleting, moving, cleaning and
deleting a post are threads with a flush and a commit. `StartRestore` (a page, one per post, with
`_in_flight` and the ten minutes of `_last_failure`) and `StartPublish` share the downloads: `Download`
truncates the file, `Downloaded` and `DownloadBreaks` end it, `EndRestore`/`EndReload` write the new paths, and
fail as a whole when a row is gone (`Stale`). A publication takes the files that exist (`Choose`) and opens
them later (`Send`). `Restart` takes the disk, which is a cache. `raced`, `broken`, `lost` and `left` are history.

### Catalogue

A row of `source` carries the public name or the invitation, the id of the channel, and the cursor, which
in the model is *the channel whose message number it holds*. `AskToJoin` and `Join` are the two halves of
`_add_private_source` around Telegram's answer; `AskAgain` and `Approved` are `check_join`. `Fetch` keeps the row
as it was loaded, `EndFetch` writes the id and the cursor over whatever the operator did meanwhile. `Hear` looks
the source up as the listener does: by the id if that is a key, else by the name (`Key`, `Matches`), in the keys
of the last reload. `SyncRoutes` reads its form between the target and the routes. Prompts: `Successor` is the
next default one, `CommitPrompt` the commit of a thread that has read the prompt before. `doubled`, `checked`,
`misled` and `orphaned` are history.

## 3. Runs

| run | question | result |
|---|---|---|
| `publishing_safety` | do statuses, locks, counters and channels stay consistent under overlapping requests, retries, windows, restored media, lost answers, a crash and the operator | holds |
| `publishing_liveness` | does publication implement the ledger; are deferred, failed and running publications attended to, and do attempts stop | holds |
| `publishing_stranded` | is every queued publication taken up when the post has several channels | no (finding) |
| `collection` | do polls alone drain the queue without loss; with the listener, does anything but a failed save lose what a handler heard | holds |
| `collection_gap` | is a message lost between catch-up and registration | yes (finding) |
| `collection_album` | does the journal tell of every post that could not be saved and is not read again | no (finding) |
| `session` | with one operator: one client, one owner of the lock, a login that gives back what it took, a truthful `is_active` | holds |
| `session_qr` | does every login that ended leave the lock free and the listener at work | no (finding) |
| `newsroom` | with two runs, a request, threads and a crash: does the automatic loop repeat a news the base had, take a composed text, draft a post twice; does every original exist | holds |
| `newsroom_duplicates` | is the original of a duplicate an original | no (finding) |
| `media` | are uploads kept, albums counted and ordered, files accounted for and sent whole, restorations owned, and the files of waiting publications spared | holds |
| `catalogue` | do cursors, channels, routes and prompts of the operator's set-up survive the collections and requests that work with older rows | holds |

What the violations show:

- *stranded*: `_process_scheduled_jobs` (`scheduler.py:78`) skips jobs of a post that is PUBLISHED
  or FAILED, but the status of the post is set by whichever channel was last; the job waits for
  ever. README.md:162 promises publication at the next window. With one channel
  (`publishing_liveness`) the promise holds.
- *gap*: `_connect_and_listen_locked` registers the handler after the catch-up; a message between the
  two is heard by nobody and the next live message moves the cursor over it.
- *album*: a save that fails is told by the handler that awaits it, and the comment there
  (`telegram_event_listener.py:357-359`) says why: the post used to vanish without a trace. An album is saved by a
  timer task (`_flush`, line 464) that nobody awaits. The trace: one part of an album is heard, the timer fires, the
  save fails; the next message is saved and moves the cursor beyond the album; the journal is empty.
- *qr*: a login by QR code, successful or not, ends in the watcher's own task, and `_reset`
  (`telegram_login.py:114-115`) cancels that task first. The session is saved, but the lock stays taken, the
  listener stopped, and every poll times out, until the operator presses cancel or logout (or starts
  another login, which fails and thereby resets). `LockGoesBack` in the run `session` is the same
  property without this case, holds, and is proved for any number of requests (`LoginGivesBack`): nothing else keeps the lock.
- *duplicates*: two posts with one text. The query for an equal hash (`deduplication.py:42-44`) asks the database, where
  the hash of the other post of the same batch is not flushed yet, so that both stay READY; the next pass loads both
  again, each finds the committed hash of the other, and each is marked a duplicate of the other: neither is left. A
  duplicate is marked "with a reference to the original" (`post_lifecycle.py:33`), and README.md:118 promises the
  instant detection of exact duplicates by SHA-256; here there is no original.

Known and not asked by a run of their own: a request that arrives while a split post is between its
media and its text publishes it again, although the first records SUCCESS (`overlaps` counts these, and
`DuplicatesAccountedFor` allows exactly them); `_note_new_post` compares with the cursor read before the download, so a
live save can move it back; `_ensure_client` tests `_client` before two awaits, and two logins started at once make two
clients, as does a cancel or logout while another request is still connecting, and an exception between `connect()` and
its `try` leaves a second one (`OneClient` is checked with one request and without `Strays`, and there is no theorem
about it); a `_shrink_to_limit` that fails while it writes leaves a part of a file which `_discard` does not know, although the
comment at `post_media.py:92-93` wants no stump on the disk (`OrphansAccountedFor` is about whole files).

`PollsPassNothingOver` and `AlbumOnce` are about the polls alone, where the listener is not started, and
which the lock keeps apart: with the listener running a message can be passed over (`collection_gap`,
`collection_album`), and a poll and the listener can hold different parts of one album and both write a post, because
the last check before the insert looks for the anchor message alone.

Properties with an exception say which interleaving is the only cause of an irregularity, and do not exclude that
interleaving: `TwiceOnlyWhenShared` (`shared`), `AlbumAddsUp` and `OrdersDistinct` (`raced`), `SendsWhole` (`broken`, or a download under
way), `OrphansAccountedFor` (`left`), `CursorIsOwn` (`misled`), `TwinsAccountedFor` (`doubled`, `checked`; closed sources only),
`PromptsResolve` (`orphaned`). `RunningIsAlive` and `ScheduledHasJob` are about a process that has not restarted. The hazards of
`PROJECT.json` say in a note where a property stops.

### Bounds

Publishing: `MaxAttempts` stops requests (`Click`) for a job that has that many committed attempts, while the scheduler
is bounded by the code's own limit; `MaxRestarts` bounds crashes. `MaxRetry` is 2 in the runs that pass (3 in
the code): with 1 no retry exists, and the third would repeat the second. Two request coroutines and the scheduler
give every overlap of two and a third party; two channels, one with a window, give the dependence
of a post's status on several jobs; `publishing_liveness` uses a second source of
posts (publish-raw, `Fresh`) that shares the raw post; the refinement is checked there, without a crash, and
proved with crashes. `RetryLimit` says that the committed attempts end at `MaxRetry` or one after those made by hand
(`MaxAttempts`): a click on a job that the scheduler has in its list, already read, adds an attempt to it. The run has
one attempt by hand, where the limit is the scheduler's; with two it would take far more than minutes, and the theorem `AttemptsEnd`
is for any number. The post of `publishing_safety` may lose its text
(`Bodyless`), so the empty payload occurs.

Collection: one run for both ways the program starts. Where the listener is not started: two polls, five messages with
an album of two, limits of two (a batch may end inside the album, and the queue is longer than a batch), one message
without text, an age cutoff that moves, one restart, one failure. Where it is: `Beside` narrows this to one poll and three
messages, without ageing and restart, and with the failure: two suffice for an overlap, a third to be
passed over. `collection_gap` has three messages and no failure, `collection_album` two, of which the first is an album.

Session: one request, one watcher, three tasks of the listener (one that ends, its successor, and one more, when
`stop()` gives up waiting) and three clients (login, listener, poll). `Strays` turns on the exceptions between the listener's `connect()` and its `try`, which leave a client
connected without the lock: `OneClient` cannot hold with it, and the runs leave it off; the other
theorems hold with it.

Newsroom: two posts of channels with one text and one composed text close to it, two drafts,
two overlapping runs, one request that waits and one that writes: the comparison needs two posts, a
repetition a third, and a post in two hands two runs. `newsroom_duplicates` is the smallest instance: two posts with one text, one run.

Media: one post with one medium of a channel and two numbers for uploads, a limit of two (the limit is
reached), two days (a restoration brings another path), two uploads, two pages, two threads and
one publication: every pair of the writers overlaps, and a page and a publication download one file at once.

Catalogue: two channels, both with a name, two links to one of them, two sources, one target, two prompts, five
requests: a rename, a delete and a second source of the same channel fit in beside a collection and a
message that is heard.

### Fairness

`Publishing!Fairness`: awaits end (each has a timeout in the code) while the loop is not frozen;
the interval job comes again for ever; windows open every day. Requests, the operator, closing windows, lost answers and
crashes are never required to happen. `PendingIsServed` asks for a window that stays open, since an interval
longer than the window may miss it. The liveness properties except a frozen loop ("or frozen"), from which
nothing in the process recovers.

`Collection!Fairness`: the timed poll comes again, and gets the lock if it is free again and again
(asyncio locks are first come, first served); a reader that has started ends. A batch that
exceeds its 90 seconds every time is outside this assumption, see the hazards.

## 4. Proofs

Each theorem holds for every value of the constants that satisfies the module's assumption
(`PublishingAssumption`, `SessionAssumption`, `NewsroomAssumption`, `MediaAssumption`, `CatalogueAssumption`,
`CollectionAssumption`: names are different, sets of posts, prompts and numbers have their types, limits are natural
numbers); what a theorem needs beyond that is said below.

`PublishingProofs` and `DeliveryLedger`:

- `PublishingTypeCorrect`: `Spec => []TypeOK`. The type invariant gives the tables their shapes and is
  inductive by itself, one step per action.
- `JobLocksHaveOwners`: a locked job row belongs to a coroutine at work on that pair, which
  sees it RUNNING while the committed value is not SUCCESS. This is the strengthening the refinement
  needs: a commit by `p` may only change jobs `p` works on, and only the end of
  a publication may turn one into SUCCESS.
- `PublishingImplementsLedger`: under the mapping `served` = jobs committed SUCCESS, `owing`/`told` =
  coroutines at the pair before/after Telegram accepted the text, the initial state and every
  step of `Publishing` is one of `DeliveryLedger` or a stutter.
- `LedgerAccounted` (in `DeliveryLedger`): `texts <= 1 + lost + overlaps` is not inductive: nothing in
  it says that a worker under way has not been counted yet. `Credit` adds the texts owed and the
  one that may be begun for free, and is. Cardinalities occur, so the coroutines are finitely many.
- `NoUnaccountedDuplicates`: the two together: `Spec => []DuplicatesAccountedFor`.
- `JobsAdvance`: the committed attempts never fall and a recorded delivery is never forgotten.

`PublishingRowProofs`, from `RowInv` = the types and the job locks above, with `PostLocks` and `RawLocks` (a locked row of a
post belongs to a coroutine at work on it), `Settled` (a row nobody holds shows the value that is
committed), `Approving` (who holds the row of a post has written "approved" in it) and `Unborn` (a post that is not
committed yet is in the hands of who makes it). What one step does to all rows is summed up once, whichever
action it is (`StepCases`, and from it `JobSteps` and `PostSteps`); the invariants are proved from the summary.

- `LocksAlwaysOwned`: with several rows per coroutine, written in a fixed order and committed together,
  every step has to give back what it took (`Gains`, `StayingOwns`).
- `StatusAlwaysEarned`: a job shown as SUCCESS, a `sent` flag and a post shown as published each have a message in
  the channel behind them. `Evidence` carries it through the window in which it is known only in memory: a coroutine that has an answer of Telegram
  (`AnswersHold`), a delivery the channel cannot forget (`ChannelGrows`).
- `RunningAlwaysAlive`: a job that is committed RUNNING has a coroutine at work on it, or the process was restarted
  since: a coroutine leaves a pair only by settling its job (`PairGoesOn`).
- `ScheduledAlwaysHasJob`: the post and its job are deferred by one commit, from a row that was settled.
- `AttemptsEnd`: `RetryLimit`, for any `MaxRetry` and any `MaxAttempts`. Attempts made by hand are not bounded by the
  code; the model stops them at `MaxAttempts`, which may lie below the scheduler's limit or beyond it, so that a click on a
  job the scheduler has already read is among the steps. `Limits` bounds what is committed and what is
  only written (`Within`), and leaves a job in the scheduler's list room for one more (`Room`).
- `NoUnaccountedMedia`: `media <= 1 + lostMedia + overlaps`, for finitely many coroutines. As with the texts, what is
  sent so far is not inductive: `MediaCredit` adds the coroutines that owe media (`Payers`) and what
  a first claim would send for free (`FreeMedia`). Unlike the text, a medium may be sent by one attempt and the
  text by the next, so the account rests on two facts about `sent_message_id`: it is committed the moment it is set
  (`SentAlike`), and who sends the text alone does so because it is committed (`ResumesSent`). What one step
  does to the account of one pair is summed up in `Covered`, which `MediaStep` and `CreditStep` add up.
- `PublishedOnce`: the two accounts as the operator sees them. With `~Lossy`, `MaxRestarts = 0` and `InTurn` (a coroutine
  begins with a pair only when nobody is at it) there is nothing to account for, and a channel gets text and media at
  most once. Each hypothesis names one way to a second copy.

`SessionProofs`:

- `SessionTypeCorrect`, `LockHasOneOwner`, `ActiveIsTrue`: the types of `TelegramSession`, who holds the lock,
  and that `is_active` is never set without a task that catches up or listens. The last two are inductive
  together with the types. The proofs have one lemma per function of the code (`StopTaskOwned`,
  `GiveBackOwned`, `ResetOwned`), which the actions that call it cite. They hold for any
  number of overlapping logins, where `OneClient` does not: whatever the requests do to each other, the lock is never
  released by somebody who does not hold it.
- `LoginGivesBack`: `LockGoesBack`, also for any number of overlapping logins and with `Strays`. `LoginInv` says who will give back what
  is taken: the lock is the login's exactly while there is a client of it (`HasClient`); such a client has a
  login in progress, a watcher that cut itself off, or an actor at a call after which it shows a code or resets
  (`Answerable`); who waits in `stop()` waits for a task that ends, and nobody who waits has a password to
  enter (`WaitersKnow`, `ErrandsKnown`); and where no task of the listener lives, there is a client of the
  login or somebody who is on the way to start one (`TaskComesBack`).

`NewsroomProofs`:

- `NewsroomTypeCorrect`: the types, with what a session has loaded and staged and what an actor has in its
  hands while it waits (`TypeInv`).
- `OriginalsAreThere`: the original of a duplicate is another row that exists. A comparison and the commit of its
  verdicts are separate steps, and a thread may delete the original in between; the proof follows the
  foreign key through `Merge`: a staged verdict either refers to a row that is there at the commit, or the
  whole commit is refused.
- `ManualNeverAuto`: no text typed by hand is drafted automatically. `ManualInv`: a composed post never
  has a status the runs select, and is in no session and no hand of a run. What a step of a run may load, keep
  and take in hand is summed up once (`RunSteps`, `RunMoves`), and the later theorems use the same summary.
- `TwiceIsShared`: two automatic drafts of a post need two runs that had it in hand at once. `PlaceInv`: one run at
  most is in the comparison loop; `JudgedInv`: what it has compared has a verdict; `SharedInv`: a post is in
  the hands of two runs only in `shared`, and one with an automatic draft is `Away` (its status is no longer one that
  runs select, and no session or hand has it) unless it is in `shared`.
- `FirstIsFirst`: an automatic draft repeats no text the base had before and still has. `FreshInv` says that the rows of a
  session are as they were read but for what threads wrote, so that a verdict "ready" that was justified when
  it was staged still is at the commit; `FirstInv` carries it from the commit to the draft.

`MediaProofs`, all from `KeptInv` = types /\ `ThreadInv` /\ `DownloadInv` /\ `KeepInv`:

- `MediaTypeCorrect`; `FlightOwned` (a post is in flight exactly while one page restores it).
- `ManualKept`: the invariant alone is not inductive, since a row appears at a commit, long after its file;
  `UploadInv` says that a file saved by an upload that is not committed is whole, that no row has its number, and that no
  other upload has it too. The threads and downloads touch files of channels only (`ThreadInv`, `DownloadInv`).
- `WaitingFilesKept`: an action property, from the guards of the steps that erase.
- `OrphansKnown`: every whole file is named by a row, is in the hands of an upload or a restoration, or is in `left`. What a
  download does to the disk and to the rows is summed up once (`Moves`: what it got, knows, wrote and
  has in hand), and the invariant is proved from that summary.
- `WholeFilesSent`: `PartInv` follows every partial file: it is being written, its download broke off,
  or it is the stump of a refused upload, which nobody will ever name.
- `AlbumsAddUp` and `OrdersStayDistinct`: `TidyInv` says of every post that is not in `raced` that it has one writer at
  most, that its counter is true and its places differ, and that what the writer has read still is so: the
  upload's last place and room (`Adding`), the deleter's row and count (`Removing`), the places a move is going to
  leave (`Moving`, which rests on `RanksDiffer`: the order by place and number is linear). `HeldInv` keeps the
  rows of one post out of the hands of the writers of another, also those in `raced`.

`CatalogueProofs`, from `CatalogueInv` = the shapes of rows and of what waits with a row in hand (`RowInv`), the
listener's keys, prompts and routes:

- `CatalogueTypeCorrect`; `PromptsAlwaysResolve`: the default prompt exists and is one, and a target names a prompt that is
  there, except a target in `orphaned`: its thread commits a prompt that was deleted after the thread had read it. Finitely
  many prompts, numbered, for the successor is the least.
- `NoUnaccountedTwins`, about two closed sources: of one link only when two requests asked about it at once, of one
  channel only when a later check of a link told the channel. A public source beside a closed one of its channel
  needs neither and is outside the theorem. `JoinInv` adds the requests that have asked about a link and wait.
- `CursorsAreOwn`: the cursor is one of the channel the source is read from, except of a source in `misled`: renamed
  while a collection or a save was on its way, or heard by the id of its former channel at any time since. `OwnInv`
  says the same of everything that waits with a number for a source.

`CollectionProofs`, from `CollectInv` = `BaseInv` /\ `ReadInv` /\ `LiveInv`: a post is a message or parts of
one album, a reader never knows more than the channel has, a save holds what was announced:

- `CollectionTypeCorrect`; `HeardMessagesKept`: with the listener, any number of polls, failures and restarts, only a
  save that fails loses what a handler heard. That the journal then tells of it is another question, which
  `collection_album` answers.
- `PollsPassNothing` and `PollsKeepAlbums` are about the behaviours that start with the listener at "none". `PollInv` says that one poll reads at a time
  (`AloneInv`, the lock), that everything up to the cursor is covered, and that everything up to a reader's `last` is
  covered or in its batch. With the listener neither is true without more: the runs `collection_gap` and
  `collection_album` show the first, section 3 says why of the second.
- `ListenerPassesNothing`: with the listener, under `Gapless`: at the moment the handler is registered everything in the
  channel is attended to, the process ends with nothing in hand, and the journal tells of every save that fails. These
  are the three ways to lose a message, and the theorem says that there is no fourth: not by readers that overlap with
  old cursors, nor by a save that moves the cursor back or ahead. `GapInv`: what is in hand comes after what
  is attended to (`ListenerKnows`), and a reader answers for what is not in its batch (`ReaderKnows`).

Liveness, ENABLED and induction over recursive definitions are beyond the prover and stay with
TLC. Every invariant of a run that holds is stated by a theorem, except `OneClient`: what it needs (requests that do not
overlap, no exception between `connect()` and its `try`) the code does not give, so that it is an account of what the
run shows, for one operator, and no more.

## 5. Not modelled

- *Marks* (`markdown_entities`, `message_entities`): pure conversions of one text. No actor shares anything with
  another, and the tests of the repository compare their results directly.
- *Settings, panel logins, middleware*: single rows written by one form; a value that matters to a property
  is a constant or a choice where it is read.
- *Statistics, journal, retention, notification of drafts, pages, deployment*: nothing another component
  reads. The journal is in the models where it tells of a loss (`noted`).
- In publication: the deletion of a post while it is being sent (deletion itself is in `Newsroom` and
  `MediaFiles`), what a text or a medium looks like, the length limits that choose the layout (the layout is
  a choice). A pass of the scheduler that fails rolls back (`_safe_run`): at its end, in `EndRun`. A pass that fails in
  the middle, with jobs left in its list, is not modelled; the next pass reads its list anew.
- The database is PostgreSQL (`src/README.md`, "Database"): row locks, READ COMMITTED, and foreign keys that refuse.
  SQLite, which is supported for local development, is opened without `PRAGMA foreign_keys` (`database.py:22-24`) and
  enforces none. What rests on a refusal does not hold there: `OriginalIsThere` (the commit of a verdict whose original
  was deleted), the rows of media in `MediaFiles!TypeOK` (an upload for a deleted post), and the routes in `Catalogue!TypeOK`.
- In the media: the name of a downloaded file has the index of the medium in the list (`telegram_reader.py:525`), which may
  differ at a restoration; `Path` has the day and the medium only. `RejectUpload` is both the refusal and the failure of an
  upload, which discard the same files and leave the post alike; an upload that is cancelled is not modelled.
- In collection: several sources at once (each has its own cursor, and they share only the lock, whose holder is
  modelled), the back-off between connections, joining of channels during a poll.
- In the session: texts for the panel, the import of an old session file, the task that reloads the sources.
- In the catalogue: windows, modes and titles of targets, the names and texts of prompts, projects: columns
  that nothing else depends on.
- Hazards without a property. Some have a cause the properties leave out on purpose: a restart that leaves a job
  RUNNING (`telegram_publisher.py:377`), a batch that always exceeds its 90 seconds (`telegram_reader.py:232`), two
  requests of a login at once (`telegram_login.py:93`), an exception between `connect()` and its `try`
  (`telegram_event_listener.py:365`). One contradicts a docstring, without harm to the base: a late save moves the cursor
  back (`telegram_event_listener.py:472`, against lines 469-470), and the messages read again are known. Of the others no document or test says what should happen: the raw post that is
  rejected under a queued draft (`posts.py:256`), the empty post that is tried again without being counted
  (`telegram_publisher.py:346`), the album of which a poll and
  the listener each make a post (`telegram_reader.py:341`) or which the limit cuts (`telegram_reader.py:335`), the post that
  is rejected while it is being drafted (`news_pipeline.py:138`), and the post whose generation always fails and holds
  up those behind it (`news_pipeline.py:153`). The steps are in the models, so that the properties hold in spite of them.

## 6. State and what is left

Done: the six components that keep state which several actors share (publication, collection, session, newsroom,
media, catalogue), each with a run, a type invariant that is proved, and its most important properties proved;
publication also as an implementation of an abstract ledger.

Left, in this order:

1. an abstract specification of the session (who may be connected), and its liveness (the listener comes back after
   every login that is not cut off);
2. one module that composes `Newsroom` and `Publishing`: the deletion of a post while it is sent;
3. several sources in `Collection`, with the order in which the catch-up visits them;
4. `PublishWindow` and the marks as operators, checked against reference definitions over short inputs.
