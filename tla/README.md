# Spotule in TLA+

Spotule logs what its users listen to on Spotify, keeps statistics about it, skips
what they have banned, and edits their playlists for them. It is a FastAPI
application with Celery workers, or with an external scheduler in their place,
over Postgres and Redis. These modules model the parts of it where several
processes, Spotify and the database meet; TLC checks them on small instances and
TLAPS proves the central results for every instance. Paths below are relative to
`src/backend/app/`.

## The system

| component | state it keeps | operations | met by | what makes it correct |
|---|---|---|---|---|
| Lifetime stream logger, `services/ingest/recently_played.py` | `streams` (api_poll rows), `sync_cursors`, `stream_hourly_rollups` | poll one account: fetch what is later than the cursor, upsert tracks, insert, move the cursor, recount the hours | Celery fan-out with retries, scheduler sweep, importer, relinking, account deletion | no gap behind the cursor; rollups agree with the rows; every play is logged in the end |
| History import, `services/ingest/json_importer.py` | `streams` (json_import rows), `import_jobs` | run an import batch by batch, relink | poller, hydration, redelivery | no play twice; counters and status tell the truth |
| Catalogue, `services/catalog.py` | tracks, artists, albums, genres; a Redis genre cache and two cool-downs | upserts, hydration of artists and orphans | poller, importer, purger, guard | every orphan is hydrated in the end; cache and table agree |
| Spotify client and rate limiter, `services/spotify/` | Redis token bucket, Retry-After deadline | acquire, request with retries, throttle; paged reads, batched writes | everything | the application's budget; Retry-After; a retried write has one effect |
| OAuth and sessions, `services/spotify/auth.py`, `api/v1/auth.py`, `api/deps.py` | `spotify_credentials`, Redis sessions | store, refresh, log in, log out | every worker | the stored refresh token works; an old session opens no new account |
| Tool runs, `services/tools/` | `tool_runs`, `playlist_backups`, `audio_features`; the playlists themselves on Spotify | queue, back up, compute, write, audit | Celery redelivery, automations, purges, the user | what is taken out can be put back; a success has written what was computed |
| Purger, `services/banhammer/purger.py` | `purge_runs`, `playlist_backups` | scan, back up, remove | as above | every purge is reversible |
| Skip guard, `services/banhammer/skip_guard.py`, `workers/tasks/banhammer.py` | Redis: roster, lock, current track; `skip_events` | roster refresh, tick | its own chain of ticks, the limiter | one chain per user, one skip per banned track |
| Ban-hammer rules, `services/banhammer/registry.py` | banned genres and artists, exemptions | evaluate; add, delete, ban, exempt | guard, purger | exemptions win; the next evaluation uses the stored rows |
| Automations, `workers/tasks/automations.py`, `services/sweeps.py` | `automation_jobs` | minute tick, sweep | each other | a due job runs once |
| Friends, `api/v1/friends.py` | `friend_links` | request, accept, remove | each other | mutual, and only with both people's consent |
| Analytics, `services/analytics/` | `milestones`; otherwise reads | detect, rank, clock | ingest | a threshold is awarded once |
| Account, `api/v1/me.py` | `users`, `user_preferences` | update, delete | everything | nothing is left of a deleted account |
| Web front end, `src/frontend/` | none of its own | pages, proxy route | API | not modelled |

They meet in three places: rows of Postgres written by concurrent transactions at
READ COMMITTED, keys of Redis, and Spotify, which is slow, fails, hands lists out
in pages, and is edited by the user in other clients.

What is hard here: polls, sweeps and retries of one account overlap, because
nothing claims a job; state is read before an `await` on Spotify and used after
it; Celery acknowledges late, so a task is executed again when its worker dies or
when it runs longer than the broker's visibility timeout; a message may overtake
the commit of its row, or be lost after it; remote writes are not part of any
transaction. `PROJECT.json` lists these hazards line by line, with the property
that covers each.

## Modules

| module | models | checked by | proofs |
|---|---|---|---|
| `PlayHistory` | what the ledger promises (abstract) | `ledger` | refined in `StreamLedgerProofs` |
| `StreamLedger` | poller, importer's batches, orphan hydration, relinking, account deletion | `ledger` | `StreamLedgerProofs` |
| `RateLimiter` | `rate_limiter.py` and the retry loop of `client.py` | `rate_limiter` | `AccountsProofs` |
| `FriendLinks` | `api/v1/friends.py` | `friends` | `FriendLinksProofs` |
| `ItemLists` | lists of items: slices, filters, the batches of `client.py` (pure) | all below that use it | with them |
| `PlaylistRuns` | runs and purges that race on one playlist: `runner.py`, `purger.py`, paging of `client.py` | `playlist_runs`, `playlist_purge` | `PlaylistProofs` |
| `PlaylistAlgebra` | what the tools compute (pure) | `tools` | with `ToolBuilds` |
| `ToolBuilds` | every tool that makes, overwrites, deletes or backs up a playlist, request by request | `tools` | `PlaylistProofs` |
| `GuardRoster` | `workers/tasks/banhammer.py`: roster refresh, chains of ticks, lock | `guard_roster` | `SkipGuardProofs` |
| `SkipGuard` | `services/banhammer/skip_guard.py`: what one tick, or one report of the browser, does to the player | `skip_guard` | `SkipGuardProofs` |
| `Blacklist` | `registry.py`: the verdict of the rules on a track (pure) | `skip_guard` | with `GuardRules` |
| `GuardRules` | the endpoints of `api/v1/banhammer.py` over `Blacklist`, composed with `SkipGuard` | `skip_guard` | `SkipGuardProofs` |
| `Automations` | `workers/tasks/automations.py` and the sweep of the same jobs | `automations` | `AutomationsProofs` |
| `Accounts` | `api/v1/auth.py`, `auth.py`, `deps.py`: sign-in, sessions, token refresh, deletion | `accounts` | `AccountsProofs` |
| `ImportJob` | `json_importer.py`: upload, message, batches, counters | `imports` | `ImportJobProofs` |
| `Catalog` | `catalog.py`, the hydrating sweep and task, and what polls, evaluations and purges write | `catalog` | `CatalogProofs` |

`MC...` modules hold the constants of the runs.  Three of them (`MCRateLimiter`,
`MCSkipGuard`, `MCCatalog`) divide a run into scenes: a variable that keeps its first
value says which of the environment's steps are left out, so that one run asks several
questions of a component and stays within minutes; no step that the code has to take is
ever left out, and the fairness of `MCSpec` is the component's own over the staged steps. A definition named `X_something`
in front of `X` is a mutant: `X` with a plausible bug, which the property it
belongs to must catch; no specification uses it.

### StreamLedger

A play is its position in the user's history; the rows of one user and source are
a set of plays, because the unique key makes every insert idempotent. The export
stamps the end of a play and the API its start, so the two sources have two sets,
`polled` and `imported`. `txn[u][w]` is a poll in flight. It is cut where the code
awaits Spotify and where another transaction can come in between:

    BeginIngest     read the cursor, issue the request           :24-33
    FetchItems      the feed answers
    FetchNothing    error or nothing new: commit the bookkeeping  :34-45
    StoreStreams    autoflush the cursor row, upsert, insert      :47-66
    RefreshRollups  SELECT ... GROUP BY hour                      :77-92
    CommitIngest    upsert the buckets and commit                 :68-74, 93-114
    AbortIngest     anything goes wrong: rolled back

The flush of the changed `sync_cursors` row takes its row lock (`HoldsLock`), and
this lock, which the code never mentions, is what keeps two recounts of one
account apart. A first poll inserts the row instead, and all but one of several
first polls break the primary key (`CursorClash`). `ImportFlush`, `HydrateOrphans`
and `Relink` take no such lock. `Play` is the listener; `missed` records what left
Spotify's feed of `Window` plays before it was stored, so that `NoGap` can tell a
gap of the code's making from one that polling cannot avoid.

### RateLimiter

The bucket and the deadline as Redis holds them, one caller per client instance.
Every await is a step of its own:

    Look           acquire's GET of the deadline             rate_limiter.py:54
    Decide         the comparison; a priority caller is off  :55-61
    RunScript      the bucket's Lua script                   :28-42, 60-65
    Throttled      a 429: the deadline is computed           client.py:88-90
    StoreDeadline  its SET, over whatever is stored          rate_limiter.py:68
    ServerError, Answered, Crash                             client.py:79-102

A caller stamps its script with its own clock; scripts run up to `MaxDelay` ticks
later, in any order. One tick refills one unit and a request costs `Cost` units,
so fractions of a token stay integers. `window` is an arbitrary interval chosen
at the start, `spent` what was granted to stamps inside it: `WindowBudget` holds
for every interval because it holds for an arbitrary one. `late` counts, per caller,
the requests that left while the stored deadline ran, since it was stored. The
document has none (`EveryCallerPauses`, violated); `OneLateRequest` is what the
interleavings leave of it: the one request a caller had already let past the check.
Each key expires on its own: the bucket's expiry is modelled, the deadline's key
outlives the deadline by five seconds and so never matters.

### FriendLinks

Rows with ids, and API requests as transactions: what a request has read, whether
it has flushed a row (and so locks it), and what its DELETE had found when it
began. `consent` records who asked for or accepted whom; `raced` that an
acceptance was committed while a removal of the same pair was under way.

### PlaylistRuns

A playlist as a sequence, a run per row of `tool_runs` or `purge_runs`, and the
task that executes it. Lists are read `PageSize` items at a time at growing
offsets, writes go out in batches of `Chunk`; every write may have taken effect
whatever its answer was. A tool commits its backup before it starts
(`CommitBackup`), a purge only flushes it (`FlushBackup`) and commits it with the
status (`End`). `Crash` rolls back and delivers again, or loses the message when
only the child process was killed; a task may also be delivered again after it
had finished. Sorting, shuffling and pruning have the control of `reverse` or
`dedupe` here; what they compute is in `ToolBuilds`. ISRCs are `KeyOf`. `KindsOf` lets
the initial state choose what a run does, among several tools or a purge.

### GuardRoster

The user's tick and the refresh of the roster, as the Redis commands they consist
of (`workers/tasks/banhammer.py`); which users are `eligible` changes at any time.

    SelectUsers     SELECT ... LIMIT, no ORDER BY: any MaxActive of them
    ReadActive      SMEMBERS guard:active, both set differences
    AddUser         SADD, for each user to start
    SendFirstTick   guard.tick is sent
    RemoveUser      SREM, for each user to stop
    EndRefresh      done
    Receive         a message is taken: SISMEMBER, or the chain ends
    TakeLock        SET NX EX: the tick begins, or is dropped without a successor
    EndTick         DEL of the lock, whoever's it is by now
    Reschedule      the next tick is sent with its countdown
    ExpireLock      the lock's time to live is over, its tick may still run

`CrashTick` is the death of an execution: the message comes back, or is lost when
it had been acknowledged with the child process; the lock stays until it expires.
`Dormant` are users who play nothing: no step looks at them, and `RunsWhileEnabled`
holds of them too. The two modules share the fact that ticks follow each other, which
`GuardRoster` shows and `SkipGuard` assumes as its fairness, and the lock: each takes,
frees and expires it for itself.

### SkipGuard

A play is a position in what the player is going to play, so that the same track
can come again. `reported` is the play that Spotify answers with; it catches up
with `position` at some time. An evaluation goes through `locked` (a tick has its
lock), `loaded` (the rules have been read), `observed` (the player has answered and is
not paused), `fresh` (the Redis key names another track), `marked` (the key names this
one), `skipping` (the verdict is a ban) and `skipped` (the command was sent, the audit
row is due); `over` is a tick that has still to delete the lock. Evaluations from the
browser (`posted`) join at `observed` and take no lock. Ticks may overlap: the lock
expires (`LapseLock`) whether or not its tick is done, and `Release` deletes whatever
lock is there. What fails is an action of its own: `RepeatSkip` is the retry in
`_request` of a command that had been obeyed, `SkipFails` a skip that ends in an error,
`Abandon` every other request or commit that fails, `Die` a process that leaves its lock
behind. `commands` counts, per play, the POSTs that Spotify carried out for it, the
repeated ones too; `resent` and `lapsed` record what `OneSkipPerPlay` excepts. A rule
that cannot be compiled ends an evaluation as a verdict that lets the track play does
(`Judge`): the track is marked, and nothing is skipped.

### Blacklist, GuardRules

`Evaluate` is `registry.evaluate` loop by loop: exemptions of the track and its
album, then each artist in turn, exempt ones passed over, banned ones by id, the
others by the genre rules. `Loop` is a Python `for` loop as
a recursive function; its theorems need that, and could not use a fold of the library,
which recurs over all subsets of the positions. Which genres a pattern
matches is a constant, as `re` decides it; `Broken` are the patterns `re` cannot compile,
which no endpoint refuses: `Raised` is the exception that trying one of them makes of
the whole verdict. `GuardRules` replaces `SkipGuard`'s
arbitrary change of the rules by the endpoints: `AddGenre` (anywhere among the rules,
which are loaded without an order), `DeleteGenre`,
`BanArtist`, `AddExemption`. `VerdictsRight` compares the loops with what the rules
mean, and says which tracks alone may meet the exception.

### ToolBuilds, PlaylistAlgebra

`PlaylistAlgebra` holds the orderings, selections and cuts as loops (`Looped`) and
filters (`Kept`) over sequences whose entries may be gone or local files.
`ToolBuilds` runs one job from `execute_tool_run` on:

    Refuse                parameters that do not validate, outside the try: raises
    TurnAway              no linked account or no token: nothing is executed
    BuildStart            running
    SaveTarget            a destructive tool's target backed up, committed
    Plan                  read the pages, compute the lists to write
    Create, Add           POST a playlist, POST items by the hundred
    Put, Delete           replace the first hundred, unfollow
    Store                 _store_backup: the row after the copy is complete
    BuildEnd              the status
    BuildFail             a request fails for good: the run failed
    BuildBreak            a query, flush or commit fails: its session cannot record that
    BuildCrash            the worker dies; the run is redelivered or its message lost

`Create(TRUE)` and `Add(TRUE)` are POSTs that took effect, were answered with a 5xx
and were sent again. `Invalid` are jobs whose parameters the API never saw: an automation's
config is stored as it comes (`api/v1/automations.py:20`). `Resolve` stores a sonic filter's features and meets the
foreign key: a track that a provider knows and the catalogue has no row of breaks
the transaction in which the run's end would be written, and the run stays
"running", against the comment at `runner.py:60`, as after any other failure of the
database (`ExceptionsRecorded`, violated). The ends without a record have names (`left`,
`stuck`, `broken`, `lost`), and `RunRecorded` says that there are no others.

### Automations

Time is in minutes and a cron expression is a period; `Never` is one that `croniter`
accepts and cannot resolve. A tick fires all due jobs in one transaction
(`TickRead`, `TickFire`, `TickPass`, `TickCommit`, `TickAbort`) and sends each tool
run before it commits, so that `Deliver` may find no row (`early`). A sweep runs each
job inline (`SweepStart`, `SweepFinish`) and marks it after (`SweepMark`), with
the moment at which it began. Users create, edit and delete jobs meanwhile;
`fired` and `twice` record what was fired for which moment. The condition of
`OncePerDue`, that no two drivers overlapped, is what a deployment must provide:
neither driver claims a job.

### Accounts

Refresh tokens are numbered as Spotify issues them; a refresh may be answered by a
new one, and then the old is dead (`Rotate`). `login[b]` is a sign-in between its
requests, `fetch[w]` a refresh between reading the credential and committing it. A
sign-in that found no user and inserts one meanwhile inserted breaks a unique key;
a refresh writes into a row that is gone and raises. `FailFetch` is every failure of a
refresh that loses no new token: 429, 5xx, a timeout, a process that dies. `logger`
is the switch of the stream logger, whose polls are what keeps asking for a token. Sessions in Redis outlive
their account, and only the account's key in them tells an old one from a new one.
`mishap` records that a rotated token was lost (`LoseAnswer`) or the grant withdrawn.

### ImportJob

An execution counts in its own copy of the job and commits what changed after each
batch. `Redeliver` covers a dead worker and the visibility timeout (1 h by default,
while the task may run for 6 h), after which two workers run one import. Files that
break off end the job as `failed`; an error of the database and the time limit
leave it "running" for ever, a send lost after the commit leaves it "queued"
(`faults` counts these). `Stored` is the table after an INSERT of a batch that
ignores conflicts, key by key, and `Written` the number of rows it returned: those
without a track, and the first of each key that was not there. The key makes a second
row of a named track with one timestamp impossible, so `StoredPerDelivery` is about the
plays without a track: at most as many copies as they have places in the export, per
delivery. `ImportFuzzy.cfg` is an instance in which a poll has stored a play that the
export dates 80 s later.

### Catalog

The sweep looks up artists, tries accounts in turn, marks the catalogue endpoint
as refused for an hour, harvests what the accounts play and follow, then fetches orphan
tracks and relinks; its two halves commit apart. The task does both in one
transaction with whichever account comes first, dead grants included, and ignores the
cool-down. Ids unknown to Spotify are never hydrated; `LIMIT` without `ORDER BY` is an
arbitrary choice, of ids and of accounts.

`Writers` are the others that call `upsert_tracks` and `upsert_artists`: a poll
(`PollStores`), an evaluation of the skip guard (`GuardAsks`), which commits what it has
fetched only if it skips (`LetPlay` otherwise), and a purge (`PurgeScans`), which holds
its tracks while it asks for their artists. Rows that one transaction has written make
another wait; two that wait for each other are resolved by Postgres (`Deadlock`).
`astray` are the artists whose genres were cached by a transaction that did not commit.

## Runs

| run | instance | shows |
|---|---|---|
| `ledger` | 1 user who may leave, 2 polls at once, 3 plays, feed of 2, an export of 2 of them, fair | `NoGap`, `RollupBounds`, `NothingLeftOfDeleted`, `EveryPlayLogged`, `ImplementsHistory` |
| `rate_limiter` | 2 interchangeable callers and a priority one, 2 tokens, 5 ticks, scripts up to 1 tick late, Retry-After of 1 and 2, 2 attempts; scenes: both ordinary callers over every interval, or one beside the priority caller for 3 ticks | `WindowBudget`, `OneLateRequest` |
| `friends` | 2 people, 3 requests in flight, both may remove, 4 rows | `ConsentOfBoth`, `MutualUnlessRaced` |
| `playlist_runs` | a reversal (may crash, 2 deliveries) next to a purge, a scan or a deduplication; 3 items, pages and batches of 2, 2 attempts, 1 edit | `TypeOK`, `Restorable`, `SuccessMeansDone` |
| `playlist_purge` | one purge, its worker dies | violated: `PurgeReversible` |
| `tools` | 16 kinds of tool with their options over lists with repetitions, a gap and a local file, one job with invalid parameters, batches of 2, volumes of 3, 2 faults, fair | `BuildTypeOK`, `DoneMeansDone`, `PlansRight`, `BackupsSound`, `RunRecorded` |
| `guard_roster` | 1 user, who plays nothing, 2 workers, 2 refreshes at once, 3 toggles, 1 death, fair | `AliveUnlessDied`, `StopsWhenDisabled`, `RunsWhileEnabled` |
| `skip_guard` | 3 plays of 2 tracks, a cold cache, fair; scenes: 2 ticks, a lock that may expire, 1 failure, death or artist ban; or a tick and a browser tab with 2 reports, or 4 edits by any endpoint, among them a rule that cannot be compiled | `OneSkipPerPlay`, `BannedIsSkipped`, `VerdictsRight` |
| `automations` | 2 jobs, one of an owner without a link, a tick and a sweep, 2 minutes, 2 runs, 1 edit, 1 fault, fair | `TypeOK`, `OncePerDue`, `QueuedIsPending`, `BaseForward`, `EveryDueHandled` |
| `accounts` | 2 browsers, 2 refreshes at once, 2 accounts in turn, 3 tokens, fair | `StoredTokenWorks`, `SessionOnlyByLogin`, `TokenComesBack` |
| `imports` | 2 exports of 2 files, batches of 2, 2 workers, 2 redeliveries, 1 fault, fair | `TypeOK`, `SucceededIsComplete`, `CountersTrue`, `StoredPerDelivery`, `UploadEnds` |
| `catalog` | 3 accounts of which a sweep tries 2, 3 artists and 3 tracks of which one each is unknown, batches of 2, fair; scenes: 1 track with all artists, 1 change; 2 tracks, artists refused, up to 2 dead grants; 2 tracks and a further writer, 1 fault or change | `TypeOK`, `CacheBacked`, `ArtistsGetGenres`, `TracksGetLinked` |

`TypeOK` (`BuildTypeOK`) is checked where the types say something a reader would not take for
granted: what a batch, a counter, a retry, a driver or a created playlist may be;
elsewhere the proved theorem stands for it.

Why the bounds are enough to be interesting. Three plays and a feed of two let
plays fall out of the feed before, during and after a poll; two workers are what
it takes for a stale cursor to overwrite a newer one and for recounts to overlap;
the plays share tracks and hours, so that distinct tracks and streams differ. In
`rate_limiter` the clock reaches the bucket's time to live, and two callers are enough
for their scripts to swap; a longer deadline can be overwritten by
a shorter one, and the skip guard and an ordinary caller can each be between read and
request when it is stored. Three friend requests allow crossed requests together with a
removal. Lists of three items with pages and batches of two need two pages and two
batches; those of `tools` are longer than a batch and than a volume. In
`guard_roster` two refreshes that overlap and a user who comes back while an old
tick is still queued are enough for several chains of ticks; `MaxChains` is what
they can reach there and stops nothing. With one user the limit of the roster is
not exercised; the theorem has any limit. In `skip_guard` the banned track comes
first and again after another one; the two ticks stand for a chain and for a second
one that waits for the lock, or enters when it has expired. Four edits reach every
set of rows of that size; nothing is evaluated between them. In `automations` two minutes let a slow sweep mark a job
after a tick of the next minute has; a sweep looks at one of the two jobs
(`SweepLimit`). In `accounts` two refreshes read one token before either is
answered, and a second account can be opened while a session and a refresh of the
first live on. The exports of `imports` end a batch in the middle of a file, repeat
a play across files, contain one that is there already, one without a track, one
to skip and one that raises. Three tokens are two sign-ins
and a rotation, or one sign-in and two rotations. In `catalog` an unknown id can fill
half a batch and the endpoint can be refused; with three accounts and two attempts the
dead grants can be none, one, or all that a sweep tries. The further writer is played in
a scene of its own, in which the accounts are alike, so the order in which a sweep tries
them is fixed: together the liveness would be beyond five minutes of TLC. The requests in `friends`
and the ordinary callers of `rate_limiter` are interchangeable (`SYMMETRY`).

Deadlock is checked except in three places: a playlist run stops when all its tasks
have ended, `automations` when its minutes are over, and `ledger` when its one
account is deleted.

Fairness, and why. `ledger`: the beat schedule starts polls again and again and a
started poll is carried on (weak fairness of `BeginIngest` and `FetchNothing`), and
neither Spotify nor Postgres fails one account for ever (strong fairness of the
steps an abort, a lock or a clash of first polls interrupts). `guard_roster`: the
beat schedule starts a refresh every 30 s, an execution that has begun is carried
on, and a queued tick is received in the end (strong fairness, since the worker it
waits for may be busy with others). `skip_guard`: ticks go on, a posted report is
handled, and Spotify's answers catch up. `automations`: beat sends the tick every
minute, what has started goes on, workers take what the broker holds. `accounts`:
while the logger is on, polls keep asking for tokens, an outage of the token endpoint
ends, and not every process dies at its commit (strong fairness of answer and commit). `imports`: the listener
uploads, workers take what is sent. `catalog`: the scheduler calls the sweep and the task again
and again, Postgres resolves deadlocks, and a step that waits for a row lock is served in the end, since Postgres
queues waiters in order (strong fairness); cool-downs end, although each outlasts
several sweeps. `tools`: a worker goes on with the run it has taken. Nothing is
assumed of users, of failures, or of the importer beside the polls.

### Where the code and its documents part

The run `playlist_purge` shows it: `purger.py:1-2` says that a purge always takes a backup
first; it is flushed first and committed last, so a worker that dies after the removal
leaves none (`PurgeReversible`).

Six more properties state what a document says and the code does not do. Each has a
configuration of its own beside those of the runs, with which TLC finds it violated
within seconds (`tlc -config RosterIdle.cfg MCGuardRoster`, for instance; `RateLimiterPause.cfg`
goes with `RateLimiter`, the others with the `MC` module of their component):

* `StopsWhenIdle` (`RosterIdle.cfg`): `workers/tasks/banhammer.py:1-3` has the roster stop
  users who "go idle for a long time"; the selection knows no idleness, and
  `RunsWhileEnabled` is checked with a user who plays nothing: he is polled for ever.
* `EveryCallerPauses` (`RateLimiterPause.cfg`): `docs/ARCHITECTURE.md:161` has every caller
  pause until the stored deadline; one that has looked before it was stored does not.
  `OneLateRequest` is what holds.
* `FuzzyChecked` (`ImportFuzzy.cfg`): `models/stream.py:9-11` has the importer check against
  the polls' rows within 90 s; it does not, and a play that both report is stored twice.
* `GuardServedFromCache` (`CatalogHotPath.cfg`): `docs/ARCHITECTURE.md:164` has the guard never
  call Spotify on the hot path; a week after an artist was hydrated nothing has put him
  back into the cache, and each new evaluation asks Spotify for genres the table has.
* `TriedUntilUsable` (`CatalogAccounts.cfg`): `sweeps.py:150` has accounts tried until one is
  usable; five are.
* `ExceptionsRecorded` (`ToolsUnrecorded.cfg`): `runner.py:60` has every exception of a tool
  recorded; one of the database leaves a session that can record nothing.

The conditions in the properties name others, each the weakest under which the
property holds of the code:

* `MutualUnlessRaced`, `raced`: `friends.py:3-6` has a removal delete both
  directions; a DELETE that starts before a concurrent acceptance inserts its
  mirror row (`friends.py:203`) does not see it.
* `AliveUnlessDied`: `workers/tasks/banhammer.py:1` gives each active user a tick
  that reschedules itself; when its process dies, the user stays in `guard:active`,
  and the refresh starts ticks only for users who are not in it.
* `BannedIsSkipped`, no failure: `messages/en.json:193` has the guard skip
  blacklisted genres; the track is marked as seen before its genres are fetched and
  before it is skipped (`skip_guard.py:65`), and when one of these fails, later
  ticks take it for done. Guard and purger ask `/artists` directly, so an
  application that Spotify refuses never judges artists it has not cached.
* `OneSkipPerPlay`, `posts = 0`, `lapsed`, `resent`: a tick and a report of the browser
  may both skip one play, so may two ticks when the lock's 15 s end under one that waits
  for Retry-After, and `_request` sends a POST again after a 5xx that took effect.
* `VerdictsRight`, `Raised`: one rule that cannot be compiled (`schemas/banhammer.py:10-15`
  checks nothing) ends evaluations and purges with an exception.
* `CacheBacked`, `astray`: genres stay cached when their transaction is rolled back, or
  when the evaluation that fetched them lets the track play and commits nothing.
* `EveryDueHandled`: one job whose cron no date matches stops everybody's.
* `ArtistsGetGenres`, `TracksGetLinked`, `Starved`: unknown ids that fill a batch
  may be all that is ever asked for; `Crowded`: so may dead grants among the accounts.
* `TokenComesBack`, `mishap`: no worker can recover a rotated token that was lost.
* `UploadEnds`: the faults that leave an import without an end.
* `RunRecorded`: the ends of a tool run without a record. Parameters of an automation
  that do not validate leave its row queued (`runner.py:24`), as does an owner without a
  token; a failing database leaves it running.
* `OncePerDue`, `BaseForward`, `QueuedIsPending`: overlapping drivers, and a message
  that overtakes the commit of its row.

Known without a property: a sweep of automations looks at 50 enabled jobs without an
order, so others may never come up (`sweeps.py:250`); a tool run delivered again after a crash
half way works on the half-written list (the first backup stays, which is
`Restorable` and `BackupsSound`), and `backup_id` names only its last backup;
a destructive tool without a target, `BulkUnfollowArtists`, has no backup;
`prune_unavailable` never sees `is_playable`, which is not asked for
(`client.py:191`, against `docs/FEATURE_MATRIX.md:144`); the tick maps
`liked_songs_snapshot` to `backup.playlist` (`tasks/automations.py:20`), the sweep to
`backup.liked_songs` (`sweeps.py:53`); `add_genre` lower-cases regular expressions
(`banhammer.py:66`); `en.json:172` promises that exempt artists are always allowed,
but a track they share with a banned one is banned; the session's TTL is fixed,
while `docs/ARCHITECTURE.md:127` calls it sliding; a flush of 5000 import rows of
17 columns has more parameters than Postgres takes; the harvest's cool-down is
one key for all accounts (`catalog.py:268`), and an account whose artists' half is
refused while its tracks' half succeeds ends the sweep's attempts
(`sweeps.py:189`); turning the guard off and on while a tick is queued starts a
second chain, and the two share the lock; a banned track played twice in a row is
skipped once.

## Proofs

`StreamLedgerProofs`, for every number of users, workers, plays and tracks and
every window, from `ConstantsAssumption`:

* `TypeCorrect`: `Spec => []TypeOK`, action by action.
* `NoGapTheorem`: `Spec => []NoGap`. `NoGap` alone is not inductive: a poll
  commits a cursor it computed long before. The invariant `GapInv` adds that plays
  which fell out of the feed are logged or missed (`FeedInv`), that everything up
  to any cursor a transaction has *read* is logged or missed (`PollsInv`) and that
  its items begin right after it or at the end of the feed, and that a locked
  account is alive (`LockInv`).
* `DeletedTheorem`: `Spec => []NothingLeftOfDeleted`; a poll past its flush holds
  the lock the deletion waits for.
* `Refinement`: `Spec => ImplementsHistory`; each action maps to an action of
  `PlayHistory` or to a stutter, `CommitIngest` to `Log` by means of `GapInv`.
* `RollupTheorem`: `Spec => []RollupBounds`. A recount is made before the commit
  that publishes it, and imports and relinks go on in between. `TallyInv` says that
  such a recount still lies between what the polls have logged, the poll's own items
  with them, and all that the ledger holds; it survives because `OneLock` leaves an
  account one poll past its flush, so no other adds to what was counted. `HourCounts`
  gives the monotonicity of the cardinalities.

`FriendLinksProofs`, for every number of users and requests:

* `TypeCorrect`.
* `ConsentTheorem`: `Spec => []ConsentOfBoth`. `ConsentInv` adds that a row's first
  user has asked, that ids are never given twice, and that the row a request has
  read, while it exists, still runs between the same two people.
* `MutualTheorem`: `Spec => []MutualUnlessRaced`. `MutualInv` adds that a direction
  has one row; that a row which a request has flushed stays, because the flush locks
  it; that a removal has found every accepted row of its pair, unless an acceptance
  was committed since it began, which is what `raced` records; and that a mirror read
  as accepted, which the acceptance does not write again, is still there at its commit.

`SkipGuardProofs`, for every queue and set of rules:

* `TypeCorrect`.
* `OneSkipTheorem`: `Spec => []OneSkipPerPlay`, for any number of ticks and browsers.
  `Exclusive`: until a lock expires under a tick or a browser reports, a tick that runs
  has the lock and runs alone. `LagInv`: Spotify's answers are not ahead of the player;
  `BehindInv`: nor what a tick watches of them. `SkippedInv`, `SeenInv`: a skipped play
  is over, and as long as it may be observed again, or still is, the key names its
  track. `FreshInv`: a play under evaluation has not been skipped, unless the command
  was answered by a 5xx and is about to be sent again.

and, in the same module, about `GuardRules`, for every set of artists, rules and
exemptions:

* `RulesRefineGuard`: `RulesSpec => Spec` of `SkipGuard`: an endpoint's edit is a
  change of the blacklist, or a stutter.
* `OneSkipUnderRules`: `OneSkipPerPlay` carried over by this refinement.
* `VerdictsTheorem`: `RulesSpec => []VerdictsRight`, for lists of any length. The
  provers cannot instantiate the library's induction theorems, but `WFMin`, about the
  minimum of a set, says the same: `UpTo` is induction over `0..N`, `OutcomesExist` that
  a loop's recursive function exists. Each of the three loops `Settles` the verdict: a
  ban or an exception stays, and without one the loop ends with one of those it may come
  to, if there are any. `EndsAre` says which these are.

and about `GuardRoster`, for every number of users, workers and refreshes and every
limit of the roster:

* `RosterTypeCorrect`.
* `AliveTheorem`: `RosterSpec => []AliveUnlessDied`. A tick that finds the lock taken
  ends without a successor, so the invariant adds `LockHeld`: while no execution
  has died, a lock that exists has a tick in flight, which will send the next one.

`AccountsProofs`, for every number of browsers and workers:

* `TypeCorrect`: the keys and tokens of all rows are among those issued.
* `SessionTheorem`: `Spec => SessionOnlyByLogin`; a new account's key is larger
  than any that a session names.
* `StoredTokenTheorem`: `Spec => []StoredTokenWorks`. The property alone is not
  inductive: a dead token might be on its way into the credential. `GivenInv` and
  `ReturnedInv` say that a token which a sign-in or an answer holds is known to no
  other sign-in or refresh, so nobody can spend it before it is stored; `SentInv`
  that a refresh which sends the stored token belongs to the current account, so
  that its answer will be stored.

and, in the same module, about `RateLimiter`, for every number of callers and all parameters:

* `LimiterTypeCorrect`.
* `BudgetTheorem`: `LimiterSpec => []WindowBudget`. The potential `tokens - ts` is never
  raised by a refill and falls by `Cost` with every grant, in whatever order the
  stamps come. It needs `ExpiryAssumption`: an idle bucket is full again, with a
  late script's delay to spare, before its key expires (60 tokens at 3/s are 20 s,
  the key lives 120 s).
* `OneLateTheorem`: `LimiterSpec => []OneLateRequest`. `Caught` says that a caller whose
  late request has left cannot be past the check again: what it has read since is the
  deadline that still runs. A SET, which may come at any moment, starts the count anew.

`AutomationsProofs`, for every number of jobs, ticks, sweeps and runs, every cron
setting and every edit:

* `TypeCorrect`.
* `OnceTheorem`: `Spec => []OncePerDue`. `DeskInv` ties an uncommitted run to the tick
  that will commit it and a driver to jobs that exist. `InOrder`, which holds until two
  drivers overlap or a sweep dies before its mark, says that the base the working
  driver has read is still the job's and earlier than the moment it will write
  (`UpToDate`), that an uncommitted run is for the base its job still has
  (`FlushedNow`), and that every firing was for an earlier one, or for this one while
  the sweep that fired it has yet to mark it (`FiredBefore`).
* `BaseForwardTheorem`: `Spec => BaseForward`, from the same invariant.
* `PendingTheorem`: `Spec => []QueuedIsPending`. `PendingInv` extends the property to
  rows that nobody else sees yet.

`ImportJobProofs`, for every number of workers and redeliveries, every batch size,
every export and every ledger beforehand, from `ImportAssumption` (the unique key
holds beforehand, a play has a key):

* `TypeCorrect`. An entry is read only into a batch that is not full, and no commit
  of one execution's columns leaves a status or counter out of range, for which
  `CopyInv` says what an execution's copy of the job may hold; `StartInv` what is true
  before the first delivery.
* `CompleteTheorem`: `Spec => []SucceededIsComplete`. `PassedInv`: every play that an
  execution has passed is in the ledger or in its batch; rows are never taken out, so
  a second execution beside it, or after it, does no harm.
* `CountersTheorem`: `Spec => []CountersTrue`. `AloneInv`: until two executions
  overlap, the committed row is what the only one has committed, so writing the
  changed columns writes all. `SumInv`: counters and batch are the entries read.
* `AccountDataTheorem`: `Spec => []AccountDataOnce`, the first delivery's part of
  `StoredPerDelivery`. `CopiesInv`: the first execution stores and
  holds no more copies of a key than the entries before its place list; the lemmas
  count places of a sequence of sequences as it is read one by one.

`PlaylistProofs`, about `PlaylistRuns`, for any number of runs, any lists, page and batch sizes and any
number of repetitions and deliveries:

* `TypeCorrect`. What the tools compute are recursive functions over lists. Their
  values exist (`OutcomesExist`), and what they are follows by induction over the length
  as a least counterexample: `KeptIs`, `DedupedIs` and `NewOrderIs` give types, items
  and recordings, `BatchAndRest` and `NextPage` that batches and pages lose nothing.
* `NothingIsLost`: `PurgesLive => (Spec => []Restorable)`. `RunInv` says what an execution
  holds: nobody else having written, it has read a prefix of the playlist, all of it when
  it is backed up, and what it still has to write it has read. `RestorableInv`: what a
  run in flight has read is in the playlist or in a backup (`Backed`), and from its
  first write on, or once another run has written, so is the whole playlist (`Covered`);
  hence a write, whoever else is under way, takes nothing that is not saved. `PurgesLive`,
  that no purge dies, is no convenience: a purge removes before it commits its backup,
  and `playlist_purge` shows what is lost when it does die.
* `SuccessIsDone`: `Spec => []SuccessMeansDone`. `Doing` says at each step what is done
  and what is left, up to the recordings: playlist and items still to be added are the
  backup's recordings, playlist without the items still to be removed is the scan
  without the banned. It survives requests sent twice because it speaks of sets.

and, in the same module, about `ToolBuilds`, for any set of jobs, lists of any length
with gaps and local files, any batch and volume sizes, keys, artists and faults. Of the
constants it takes `ItemsAssumption` (a batch is not empty), `AlgebraAssumption` (an
entry without its item is no item) `BuildAssumption`: which lists can have gaps,
and which tools overwrite what they read; and `InvalidAssumption`.

* What a tool decides on: `PlansIs` says that each of its plans is lists of the inputs'
  items only, one list unless it is a split. Under it lie lemmas on every operator of
  `PlaylistAlgebra`. A `for` loop keeps what each of its rounds keeps (`LoopedIs`, by the
  least round that does not): `FirstsIs`, `FisherYatesIs`, `SpreadArtistsIs`. A sort puts
  at place `p` the element with `p - 1` before it: `Ranked` shows by counting that a
  strict total order of the positions has such an element for every place (`InOrderIs`,
  `SortItemsIs`). `NothingIs` says that prune and subtract have nothing to write only
  if the target is their plan.
* `BuildTypeCorrect`: `BuildSpec => []BuildTypeOK`, from `Shape`, the types with every
  list one of the inputs' items, and `Course`, which runs come to which steps.
* `BuildsDone`: `BuildSpec => []DoneMeansDone`. The property speaks of the end only;
  `SoFar` says how far a run is at each request: the lists before the present one are
  written, and list or target together with the items still to add are the plan.
  It speaks of sets of items, because a repeated request adds them twice. `Exact` says
  the same of sequences as long as there was no fault, and `Written` carries both
  over the last request to the recorded status.
* `BackupsTheorem`: `BuildSpec => []BackupsSound`. `Snapshots`: past the backup's commit
  the target's first state is saved, which a run that starts over on a half-written
  target cannot undo, since rows are only added. `Copies`: a row names a copy only
  after its last item was added, and no later step shortens a playlist.
* `PlansTheorem`: `BuildSpec => []PlansRight`. The property is about the lists read at
  the step that decides, so `Shape` is all of the invariant it needs; the work is in the
  lemmas about the operators, each an induction over the passes of a loop as a least
  pass that breaks it (`UpTo`), with the places of the items as witnesses. `SortRightIs`:
  the places are those `Ranked` finds. `ShuffleRightIs`: a position is settled by the pass
  that draws for it (`Settled`), so equal orders undo pass by pass into equal draws
  (`DrawsDiffer`), and the items move as their places do (`ShuffledAlong`).
  `SpreadRightIs`: after `n` passes list and pool are the input's items in known places,
  the pool in the input's order (`Places`), an artist's items in order, and two neighbours of
  one artist only when all that follows and the whole pool is theirs (`Spaced`).
  `TurnsRightIs`: where the items stand after `n` rounds (`InTurns`). `SplitRightIs`: `n`
  volumes are the first `n` times `ChunkSize` items; `Parts` bounds the division.
  `SelectsIs`, `EachOnceIs`: a filter keeps order and repetitions, `Firsts` the first of each.

`CatalogProofs`, for any number of accounts, further writers, artists and tracks, any
limits and credits:

* `CatalogCorrect`: `Spec => []TypeOK`. `Holds` says what a driver may hold and ask for at
  each of its steps: a driver holds rows only of what Spotify has answered.
* `CacheTheorem`: `Spec => []CacheBacked`. A driver gives up the artists it holds only by
  storing them, or by a rollback, its own or Postgres', which puts them astray.

Only model-checked: all liveness
(`EveryPlayLogged`, `StopsWhenDisabled`, `RunsWhileEnabled`, `BannedIsSkipped`,
`EveryDueHandled`, `TokenComesBack`, `UploadEnds`, `ArtistsGetGenres`,
`TracksGetLinked`, `RunRecorded`), since liveness under fairness is out of the prover's
reach.

## Not modelled, and why

`ms_played` sums and the error counters of a cursor row (no decision depends on
them); the order in which bulk upserts lock catalogue rows (its effect, a killed
transaction, is `AbortIngest`); friend status `blocked`, which nothing writes;
purges of Liked Songs, which differ from playlist purges in the batch size; export
and the bulk edits of names, visibility, descriptions and followed artists, which
are plain sequences of requests whose results nothing reads; the guard's poll
intervals, the audit columns of `skip_events` and the count of attempts of a skip;
redelivery of a tool run while its first execution still runs; encryption of
tokens; preferences and profile updates.

Analytics: SQL over the rows that `StreamLedger` keeps, hence aggregates with no
control of their own, and the milestones, whose only write is an insert that
ignores conflicts. Three facts of it stand without a model: `milestones_seen`
(`stats.py:129`) also marks those inserted after the list was shown;
`_active_users` (`sweeps.py:97`) limits without an order; the Celery fan-out of the
milestones stops at the first user that fails (`tasks/ingest.py:94`). The front end
has no state of its own; configuration, translations, logging and migrations are
constants and I/O.

## Plan

Done: 1 `PlayHistory`, `StreamLedger`; 2 `RateLimiter`; 3 `FriendLinks`;
4 `PlaylistRuns`; 5 `GuardRoster`, `SkipGuard`; 6 `Blacklist`, `GuardRules`;
7 `Automations`; 8 `Accounts`; 9 `ImportJob`; 10 `Catalog`; 11 `PlaylistAlgebra`,
`ToolBuilds`.
