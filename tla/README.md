# Verification of mogotor

TLA+ models of mogotor, a small server dashboard: one Go process that samples
its host every 30 seconds or so, keeps a day of samples in Redis, serves them
over HTTP and posts a digest once a day. The modules are translated from the
code; TLC checks them on small instances, and TLAPS proves every safety property
those instances satisfy for all values of the constants.

    tlc -config MCHistoryStore.cfg MCHistory
    tlapm HistoryProofs.tla

## The system

| component | state | operations | talks to |
|---|---|---|---|
| `cmd/mogotor/main.go` | the Redis client, the run context | start, wait for a signal, cancel, `Shutdown`, `Close`, exit | starts everything else |
| `internal/collector/collector.go` | two tickers | `Run` (a select), `collect` | calls every probe, then `History.Add`, `Latest.Set`, `MaybeSend` |
| `internal/store/history.go` | points, counter baseline; the Redis set `mogotor:history` | `Load`, migration of `history.json`, `Add`, `Persist`, `Points` | Redis; read by the server |
| `internal/store/latest.go` | the last snapshot | `Set`, `Get`, `Age` | written by the collector, read by the server |
| `internal/server` | none | `/api/snapshot`, `/api/history`, `/api/health` | reads both stores, each under its own lock |
| `internal/notify` | the file `last-daily-notify` | `MaybeSend`, `ShouldSendDaily`, `markSent` | a webhook |
| `internal/collector/*.go` | none | one probe per panel, each a ladder of commands or requests with fallbacks | the host, Redis, Mongo, RabbitMQ, fail2ban, ... |
| `static/app.js` | the charts, the modal | `refresh` every 30 s | the HTTP API |
| `internal/config` | none | reads the environment once | passes the list of watched databases to the Redis panel, paths and names to the others |

The collector is one goroutine; main, every HTTP request and the webhook are
others. `collect()` runs the probes one after the other. Most are external
commands without a deadline, so it may take any time. Main does not wait for
the collector when it stops. systemd starts a process again that died.

### What is hard

* **Time.** A sample taken in this process is compared by its monotonic
  reading, a reloaded one by the wall clock, and Redis by wall milliseconds.
  There are three cut-offs. `ZRANGEBYSCORE` and `ZREMRANGEBYSCORE` cut at a
  millisecond, `trim` at a nanosecond: they differ within the millisecond of the
  cutoff, and must differ in the harmless direction.
* **Counters** restart when the host does, and read as 0 when a read fails.
* **Two copies.** Memory and Redis are written in two steps, the second
  unchecked; the migration of the old file is a pipeline that may be cut short.
* **Crash windows** between the POST of a digest and the state file, between a
  sample in memory and in Redis.
* **Interleavings** of handlers with the collector, and of the collector with
  the shutdown that closes its Redis client.
* **Lost or late answers** of the webhook.
* **Partial views** of other programs: tails of logs, one command per jail, log
  lines without a year, two or three requests that are answered at different
  times and joined by name.
* **Overlapping refreshes** of the page, whose answers may come back in any order
  and from two lives of the process.

`PROJECT.json` lists each hazard at its line, with the property that covers it.

### What makes each component correct

* History: a sample that can be shown is recoverable; a process that loaded
  serves what Redis holds of the retention; a clock that is set costs no point of
  this process; rates never exceed the traffic; the chart is in
  time order.
* Latest and server: no answer contradicts an earlier one about the same sample.
* Process: a stop completes, and costs at most the sample in flight.
* Notifier: one digest a day, repeated only for a reason, never given up while
  rounds are completed.
* Panels: what was there all along is shown, nothing is shown that is not so, and
  there is a reason where nothing is shown.
* Dashboard: it goes back in time only where a refresh was overtaken, and catches
  up when the process stays up.

## The modules

| module | models | composed of |
|---|---|---|
| `RetainedLog` | what the history promises, abstractly: a log with a window | |
| `History` | `history.go` with its Redis set, the clock, the counters, crashes and reboots | refines `RetainedLog` |
| `HistoryProofs` | theorems about it | `History` |
| `DigestPromise` | what the digest promises, abstractly | |
| `DailyDigest` | `MaybeSend` and the state file | refines `DigestPromise` |
| `DailyDigestProofs` | theorems about it, and the refinement | `DailyDigest` |
| `SampleFeed` | what a page may expect of the process, abstractly | |
| `Mogotor` | main, the collector, both stores, the handlers and the Redis client, interleaved | the process as a whole; abstracts `History` and `DailyDigest`; refines `SampleFeed` |
| `MogotorProofs` | theorems about it, and the refinement | `Mogotor`, `FiniteFacts` |
| `Dashboard` | `refresh` and the chart window of `app.js` | runs beside `SampleFeed` |
| `DashboardProofs` | theorems about it | `Dashboard` |
| `SshFailures` | the list of failed logins, the loop of `dedupeSSHFailures` step by step | |
| `SshLogins` | `CollectSSH` and the list of logins, from `last` or the auth log | `SshFailures`, for the tail of the log |
| `BanLog` | `CollectFail2ban` beside a fail2ban that bans, unbans and rotates its log | |
| `RedisPanel`, `MongoPanel`, `RabbitPanel` | the data stores: one probe each, beside the system it asks | |
| `DploPanel`, `DisksPanel`, `GoModelPanel` | the same for what the host runs | |
| `OpenVPNPanel` | the same for the VPN | |
| `Probes` | the ten probes that take several steps, one in a behaviour: they share no state | all panels, `BanLog`, `SshFailures`, `SshLogins` |
| `StoresProofs`, `HostProofs`, `AccessProofs` | theorems about the data stores, what the host runs, and who comes in | `Probes`, `FiniteFacts` |
| `FiniteFacts` | lemmas on finite sets, numbers and lists that these proofs share | |
| `MC*` | the instances TLC checks | |

A definition named `X_Y`, placed before `X`, is a mutant of `X`: the way a
plausible bug would have it. No specification uses one; they show that each
property can fail.

### History

`now` is real time and `now + skew` the wall clock, so that `SetClock` is one
assignment. A tick is a fraction of a millisecond (`Milli`): scores and the cutoffs
sent to Redis are rounded down by `UnixMilli`, as the code does, and `trim` is not. A
stamp has both readings; `live` says whether it still has the
monotonic one, and `Elapsed` compares as `time.Time.Sub` does. `Stored` is what
a round trip through JSON does to a sample: it loses that reading.

`TakeSample`, `AddToMemory` and `AddToRedis` are the collector's way through
`collect()` and `History.Add`; other actions may come between them. `AddToRedis`
applies neither, either or both commands of its pipeline. There are four ways
to start: from Redis, by migrating the file, without a history because `Load`
failed, and with a migration that failed half way. `Forget` is the loss of
memory in `Crash` and `Reboot`.

A sample carries one counter, since bytes sent and received are treated alike.
The ghosts `moved` and `boot` say what the host really moved, and `span` what it
moved since the baseline of a rate; `unread` is what Redis held when a `Load` failed. `redis` is a set of samples: a member of a
Redis sorted set is unique, and its score is a function of it.

Properties: the type invariant, `Recoverable`, `RateWithinTraffic`, `Chronological`,
`SteadyRate`, and three about the cut-offs. `ServesStored`: with a right clock every
sample in Redis that is not before the cutoff (`Fresh`) is served, except those a failed
`Load` left unread, which stay out until the next start. What lies in the cutoff's
millisecond but before the cutoff may be in Redis and no longer in memory. `TrimExact`:
`Add` keeps all that is fresh and, beside it, at most points of the cutoff's millisecond,
behind which `trim` may stop since Redis returns a millisecond in any order. `OwnKept`:
whatever the wall clock does, `Add` drops no point of this process before the retention
has passed in real time. `LogRetained` says with a
right clock that memory and Redis together are a `RetainedLog`: the samples of the
window that are in Redis are its `safe` ones, those in memory only its `fragile`
ones, so a crash costs only the latter, and nothing but time costs the former,
whatever `Load`, `Persist`, `trim` and the migration do.

### DailyDigest

The time is the Berlin date and hour, and `at` the time `collect()` began at.
Each outcome of the POST is an action, as is each half of `os.WriteFile`
(truncate, write). A failure after which the file says less than the channel
knows is a *slip*, and is counted: a crash before the file is written, an answer
that is lost, a file that cannot be read or written, a date set back.
`RepeatsExplained` uses that count to say that nothing else can repeat a digest.
`PromiseKept` says the same without the code: `today`, the digests the channel
received and the slips behave as `DigestPromise` does, `log` being its `digests`.
That module allows digests in the order of their days, and a second one for a day
only after a slip. `TypeOK` says beside the types that a digest is only on its way in a
round that began at or after the hour of the digest, however late its probes end.

### Mogotor

Main, the collector (`run` is its program counter), the tickers and each client
take steps of their own. The handlers that read the stores twice are two
actions. A sample is its time and whether it has rates: the collector keeps the
sample without them, `History.Add` makes the copy that has them. `open` is the
Redis client; a write to a closed client is an error that nobody looks at.
`FeedsPage` maps the points in memory and the latest snapshot to `SampleFeed`: the
chart gets a sample before the cards do, loses one only when the window has left it
behind, both start again with the process, and what the cards show is the last
sample taken, never an earlier one. Here Redis applies what it is sent as long as the
client is open: a pipeline that fails in part is a matter of `History`.

### Dashboard

The page sees the process through `SampleFeed`, which `Mogotor` was shown to
implement, so that the page is checked beside the handful of states it can tell
apart. `flight` has the calls of `refresh` under way: each sends two requests, which
are answered in any order and at any time by the process they were sent to, or lost
with it (`cut`; what a browser repeats by itself is left out); a call draws when both are answered, in one step, since a script runs to its
next await undisturbed. Nothing keeps one call from drawing after a later one: the
ghost `overtaken` marks the calls to which that happened. `OpenModal` and
`CloseModal` are clicks.

`CardsGoBackExplained` and `ModalShowsHistory` hold at every step.
`DashboardCatchesUp` says that overtaken and lost calls do no lasting harm.

### SshFailures, SshLogins, BanLog

The external program is a few actions around the probe: lines are written, the
log is rotated, addresses are banned. The probe is the code's own ladder. The
loop of `dedupeSSHFailures` is an action per turn, so that its loop invariants
are state invariants. `sort.Slice` is not stable, and `Sorted` allows every
order it may produce. In `BanLog`, `fail2ban-client` is asked once per jail and
may fail at every question. In `SshLogins` the records have their true times. `last`
prints the newest first, and the list keeps its order. The auth log has the oldest
first, without a year: each list is dated by one reading of the clock, with the year of
that reading, and sorted by those dates. `LoginsNewest` compares the list with the true
times. It holds for `last` over New Year too; for the auth log it excepts lists with logins
of last year (`lastYear`), which the sort puts first and for which the limit may cut newer ones: the
same code as in `ssh_new_year` below.

### The other panels

Each has a program counter of its own and a world that moves between its steps:
other clients write to Redis, dplo writes the `meta.json` of its runs, which may be
caught half written, OpenVPN writes its status file again, queues,
nodes and models come and go between the requests to RabbitMQ and GoModel. The overview
of RabbitMQ may lack the name of its node; then, or when that node left, the page gets the
first node of the list. In `DploPanel` a directory that cannot be listed ends the search,
and a file that cannot be read is skipped. A running run without a project ends it too,
and nothing is named (`orphan`).
`RedisPanel` begins with `resolveRedisWatchDBs`: the setting may have entries that are
no numbers. In `DisksPanel` a mount point may have several lines, of which any may be
of a kernel file system or not answer. Commands under a shared deadline fail singly in `RedisPanel`,
which allows more than the deadline does; in `MongoPanel` a command that hangs
makes all later ones at that address fail, since that is what is asked of it.
The order in which `sort.Slice` leaves equal entries, and the order of a list of
databases, nodes or jails, are choices of the environment.
`Parsed` is what the loop of `parseOpenVPNStatus` collects, written without the
loop: the section of a row is that of the last title above it.
A ghost (`full`, `steady`, `truth`, `stayed`, `lasting`) names what was there from the first question on, and
the properties say that this is on the panel; a run is `steady` while it was running, not
written to, and read whenever it was its turn.

How OpenVPN writes its status file is not in the repository and is an assumption: over
the old report, a line with each write, and cut off behind the new one at the end. The
file is read in one piece. A torn read is then the beginning of the new report and the rest
of the old one, whose first line may be a fragment: clients who left, and pieces of
lines, may show until the next reading. `ClientsOfFile` says that clients whose new row is
written are shown, that the rest of the old report is the only source of others, and that
a whole report yields its clients exactly.

## The runs

| run | instance | shows |
|---|---|---|
| `history_store` | right clock, 5 ticks of half a millisecond, retention 2, 2 starts, a legacy file with two points of one millisecond | `Recoverable`, `ServesStored`, `TrimExact`, `LogRetained`: refinement of `RetainedLog` |
| `history_rates` | clock 0 or 2 ticks back, 3 ticks, 2 starts, traffic 0 or 1 a tick | `TypeOK`, `RateWithinTraffic`, `Chronological`, `SteadyRate`, `OwnKept` |
| `history_failed_read` | the counter read may fail | **violated**: `RateWithinTraffic` |
| `digest_faults` | 3 days of 3 hours, 3 slips | `TypeOK`, `RepeatsExplained`, `PromiseKept`: refinement of `DigestPromise` |
| `digest_arrives` | 3 days, 2 slips, the date may go back; a fair clock and webhook, rounds that are completed as a premise | `MarkedWasReceived`, `LastDayArrives` |
| `process` | 5 ticks, 2 starts, no clients; fair | `TypeOK`, `StoredUntilClosed`, `FeedsPage`: refinement of `SampleFeed`, `StopCompletes` |
| `client` | one client, 4 ticks, 1 start | `HealthNotOverstated`, `ChartShowsCard` |
| `process_cards` | 3 ticks, 1 start | **violated**: `CardsHaveRates` |
| `dashboard` | two calls of `refresh` at a time, 2 ticks, 2 starts, two charts; fair | `ModalShowsHistory`, `CardsGoBackExplained`, `DashboardCatchesUp` |
| `probes` | the ten probes, each on an instance of its own (below) | `TypeOK`, `Explained`, and one or two properties of each probe |
| `ssh_new_year` | a year of 3 seconds | **violated**: `NoneInFuture` |
| `rabbit_queues` | the RabbitMQ panel of `probes` alone | **violated**: `NoQueuesMeansNone` |

The properties of `probes`, by module:

| module | instance | shows |
|---|---|---|
| `RedisPanel` | three databases, empty or not, two of them sized; a setting that is unset, junk, or junk between numbers | `NoDatabaseMissed`, `WatchedListed` |
| `MongoPanel` | up to four commands at up to three addresses | `AnswerFound` |
| `RabbitPanel` | two queues, two nodes | `QueuesListed`, `NodeOfOverview` |
| `DploPanel` | two runs | `RunningNotMissed` |
| `DisksPanel` | three mount points on three lines, kernel or not | `DisksListedOnce` |
| `GoModelPanel` | three models, two of one id, one with a slash in it | `ServedIsUp`, `UpWasServed` |
| `OpenVPNPanel` | two clients | `ClientsOfFile` |
| `BanLog` | two jails, one address, 3 lines of which the tail is 2 | `LogListsOnlyBanned`, `ClientTruthful` |
| `SshFailures` | two origins, 3 lines, window 1, a year of 3 | `Separated`, `Represented` |
| `SshLogins` | 4 records in each file, a tail of 3, a limit of 2, 3 sessions, seconds 1 to 3 in a year of 3 seconds | `LoginsNewest` |

`Explained` is one property for the three panels that try several sources and keep
the reason of a failure across them.

### Bounds

* Retention 2 with 5 ticks lets samples expire in memory, in Redis and while the
  process is down, and leaves samples on every one of the three cut-offs. With two ticks in a
  millisecond a cutoff falls on its beginning or inside it. With one, the three would
  agree, and with more, nothing new lies between them.
* Two starts are a first life and one that loads what it left. A third adds
  nothing new to Load, which sees only Redis.
* A clock that goes back by the whole retention makes new samples older than
  loaded ones, and puts loaded ones in the future.
* A day needs an hour before the digest, and one after it in which to try again.
  `MaxSlips` is larger than the number of slips between two digests.
* Three lines are what it takes to bring two entries of the SSH list together
  by a replacement if the sort is left out. The limit of one cuts the list. The
  tail is as long as the log there; where tail cuts matter, in `BanLog`, it is
  shorter.
* In `probes`, database 2 is watched but above those that are sized, and 1 is
  sized but not watched. One key is enough: the panel asks whether there are any,
  and of two counts keeps the larger; two runs put a queued or torn one before the running one;
  four commands are all that `mongoCommands` can return. Three lines of the
  partition table are one of a mount point that does not answer, one of it that does,
  and one of another. With four records, a tail of three and a limit of two, both cuts
  fall on logins and on other records. The clock of `SshLogins` starts in the last
  seconds of a year and ends in the first of the next, so that lists lie before, across and
  after New Year. The origins of failed logins are symmetric:
  the loop only asks whether two are the same. Deadlock is not checked: a probe
  returns.
* Two calls of `refresh` at a time are what it takes for one to overtake the other,
  and two ticks for their answers to differ. Two lives show the answer of the first
  being drawn in the second. Deadlock is not checked, for the bounds of the process
  and because a page may be left alone.
* `CHECK_DEADLOCK FALSE` in the runs of `Mogotor`: with the last start used and
  the clock at its bound, the process may be stopped for good.

### Fairness

`DailyDigest`: the clock runs, and a webhook that is asked again and again accepts
some time. Nothing is assumed of the collector, whose probes may hang for ever, of systemd
or of the state file. That rounds go on being completed (`RoundsComplete`) is the premise
of `LastDayArrives`, which then says that no state of the notifier makes all further rounds
pass without the digest.

`Mogotor`: only main is fair once it was signalled: `Shutdown` has a deadline of
10 seconds, and the rest is straight code. Nothing is assumed of the collector,
whose probes may hang for ever, nor of clients. `StopCompletes` then says that
nobody is waited for.

`Dashboard`: the interval goes on as long as the page is open; the network delivers
a request to a process that is up, and reports one that is lost; the script draws
what it has. Nothing is assumed of the process, which may stay down or never take a
sample, nor of whoever clicks. `DashboardCatchesUp` has the process staying up as its
premise.

## What the violated runs show

* `process_cards`: `collect()` passes `system` to `History.Add` by value. The
  rates are computed in that copy, so the snapshot in Latest has rates of zero,
  always, and so has the Network card of the dashboard.
* `history_failed_read`: when the counters cannot be read they are left at 0. That
  0 becomes the baseline, and the next rate is everything since boot divided by
  one interval: a spike that the chart shows for a day.
* `ssh_new_year`: log lines get the year of the reading. On the first of January
  the failures of December are dated up to a year ahead and head the list.
* `rabbit_queues`: when the last of the three requests fails, the snapshot is
  available, has an error, and has no queues. The page shows the error of a broker
  only when it is unavailable, so it says "No queues yet" beside the number of
  queues of the overview; the digest says "rabbit 0 queues, 0 without consumer".

## What is proved

TLAPS checks these for every value of the constants that the assumptions allow.

**History** (`HistoryProofs`). `TypeCorrect`: every action keeps the types. The
substance is that a rate is a natural number, hence that the unsigned difference
never wraps, that `trim` and `Load` return sequences of samples, and that the
Redis set stays finite, which is what lets `Load` order it.
The invariant behind it, `TypeInv`, adds two facts: the counter at the last boot is
at most what the host has moved, and no sample in Redis has a monotonic reading.
`HistoryRecoverable`: `Recoverable` is inductive together with `TypeInv`. The steps that matter are `Load` (each point served comes from the
set), `AddToRedis` (the sample in hand goes to the set or to `unsaved`) and the
purges (what leaves the set has a score that `purged` has passed).
`RatesWithinTraffic`, for hosts whose counters can be read: the inductive
invariant says of every sample anywhere that its counter is `moved - base`, with
`base` the value at the boot before it. A difference of two counters taken across
a reboot then only loses traffic, because `base` never goes down.

**DailyDigest** (`DailyDigestProofs`). `TypeCorrect`. `MarkedReceived`, for every failure and clock change: its invariant `MarkInv` adds
that from the POST to the end of `markSent` the channel has a digest of the date
`collect()` began at, which is the date `MarkWrite` writes. The other two assume
that the date is never set back. `RepeatsHaveReason`: its invariant `RepeatInv` says
that dates are ordered (file, round, today), that the file is at or past the date of
every digest after which no slip was counted, and that a round that decided to send
is later than all of those. `NotifierKeepsPromise`: by `RepeatInv` a received digest
is a `Deliver`, a counted failure is a `Slip` or part of the `Deliver` it spoils,
midnight is `NewDay`, and the rest stutters: so every crash, refusal, lost answer and
unwritable file keeps the promise.

**History, continued.** `ChartIsChronological` and `RatesAreSteady` hold whatever the
wall clock does. Their invariant `OrderInv` says beside them that the baseline is the
last point and that the sample in hand is not older than any point of this process:
without the latter, `Add` could not keep the order. `AddKeepsOwn` holds whatever the clock
does too: `trim` drops only what is expired, and of a point of this process that is said
by monotonic readings. The next three assume a right clock
(`Skews = {0}`), and need it: with the clock of `history_rates` in the instance of
`history_store`, TLC refutes each of them, because `trim` and the scores of Redis then cut
at different moments. `StoredIsServed`: the invariant `RightInv` says that
both readings of every stamp agree, that what is in Redis was left unread, is served, or is
not fresh, and that the sample on its way to Redis is in memory or not fresh. What is fresh has a score not
below that of the cutoff, since rounding down is monotonic, so `Load` finds it; and
`trim` drops only what is not fresh. `AddTrimsExactly` also assumes that the
legacy file was written before (its stamps are not after the start; it fails with
`LegacyStamps = {1}`): `trim` stops at the
first fresh point, so it is exact only while the points are in the order of their wall
readings, up to a millisecond (`SortedInv`). `HistoryIsLog` is the refinement of `RetainedLog`: every `Load`,
each half of the pipeline, the purges, the migration, crashes and time map to steps of the
log or to none; the facts about the right clock come from `RightInv`.

**Mogotor** (`MogotorProofs`), for any clients, retention and number of starts. All five
rest on one invariant, `ProofInv`: without a process nothing is in memory; samples are
taken, added and shown in the order of time (`SamplesInv`); points and Redis hold samples
not from the future (`StoresInv`); and every time the cards or an answer to a client names
is in the chart or has left the window (`ClientsInv`). `StoredUntilClosed` and
`HealthNotOverstated` are part of it because each is inductive only with the others.
`ProcessIsFeed` then maps each step of main, of the collector and of a tick to one of
`SampleFeed`; it needs the order of points, since `trim` drops a prefix.

**Dashboard** (`DashboardProofs`), for any number of calls under way. `CardsDoNotGoBack`
rests on `PageInv`: an answer of this life is not newer than what the process shows, and
a call that nobody overtook has an answer at least as new as the cards. A call that began
before another drew is thus the only way back. `ModalIsCurrent`: `WindowInv`.

**The probes.** A step of `Probes` is a step of one panel or leaves its variables alone
(`StoreSteps`, `HostSteps`, `AccessSteps`), so each panel has an invariant of its own:

| theorems | what the invariant adds |
|---|---|
| `AnswerIsFound` | the commands before the next one were refused, and one that would have answered only after one that hung (`LadderInv`) |
| `FullDatabasesShown`, `WatchedShown` | what had keys all along is counted with keys; what was counted or is watched, and was passed, has been looked into (`FullInv`, `PassedInv`) |
| `QueuesAreListed`, `NodeIsThatOfOverview` | what stayed is still there before each request (`StayedInv`) |
| `RunningIsSeen` | a steady run the count has passed was counted, and is still ahead of a search that has found none (`SteadyInv`); a failed listing or reading leaves it unsteady |
| `ServedIsShownUp`, `ShownUpWasServed` | a lasting model is in the inventory and served (`GatewayInv`) |
| `MountsListedOnce` | the list has no duplicates, each line passed is accounted for, and a sort keeps both (`AccountedInv`) |
| `ClientsAreThoseOfFile` | the file is the beginning of the new report followed by a rest of the old one, and what is unsent is the end of the new report (`FileInv`): the last title above a row of the new report is that of its section. In the rest a title may be lost, so there only the names are known |
| `LogTellsBanned` | if the last line of the log about an address is a ban, it is banned (`LastInv`): that stays so when lines are cut off the front |
| `ClientTellsTruth` | the jails asked and those to ask are all jails, and the answers are right but for what was touched (`AskedInv`) |
| `FailuresAreSeparated`, `FailuresAreRepresented` | entries are at least as new as what is still to come (`NewestFirst`), and each event passed has one that stands for it (`StandIns`): an event that replaces a near entry is therefore older than all entries, and near to no second one |
| `LoginsAreNewest` | the records of `last` are in turn and not in the future (`LoginsInv`); its loop keeps them all in order (`ListedFacts`), over New Year too; within a year, sorting by the dates given sorts by the true times (`SortedFacts`) |
| `PanelsSayWhy` | an address tried in vain left a reason (`ReasonInv`), an unknown container a problem (`ProblemInv`), a failed service or client an error |
| `PanelsAreTyped` | the loops have passed no more than there is (`CountInv`, `LineInv`), and a list of jails from the log has none without bans (`BanTypes`) |

**Assumptions.** The constants are assumed to be what the code and the host make of
them: sets of names, databases, queues, nodes, jails and peers are finite, since they come
in an answer that ends; limits and tails are natural numbers, databases are numbers of which
0 is one. They are named in the module that declares the constant, and TLC evaluates them
in each run. The lists a set is put in (`SetToSeq`, `SetToSeqs`) and sorted sequences are
only assumed to hold what they should, in any order.

**Model-checked only**: the liveness properties `LastDayArrives`, `StopCompletes` and
`DashboardCatchesUp`, since fairness is out of the prover's reach; that the four violated
properties fail; and what the bounds of the runs add to it, that the interesting cases are
reached at all. Induction over data is avoided: where a loop is a recursive function
(`Listed` in `SshLogins`), its lemma takes a least counterexample.

## Not modelled

Rendering, the wording of the digest, number and size parsing, JSON, the static
file server and the middleware keep no state and have no order to get wrong.
Of the configuration, only the list of watched databases is more than a string
passed on. The Docker, PM2 and systemd probes run one command each and pass on what
it says: no state, no second answer that must fit the first. (Reading them showed one
slip in a conversion: `parseSize` knows `KB`, but Docker writes the kilobytes of
`NetIO` and `BlockIO` as `kB`, which become 0.) Of the
Redis and dplo panels, sizes, memory, times to live and highlights are left out, as
are the counters of RabbitMQ: they are shown as they were read. Of the dashboard,
the render functions are layout.

## Plan

1. Done: `History`, `DailyDigest` with `DigestPromise`, `Mogotor` with `SampleFeed`,
   `Dashboard`, `RetainedLog`, the ten probes.
2. Done: every safety property that a passing run checks is a theorem.
3. Next: invariants of the abstract specifications themselves (`RetainedLog`,
   `DigestPromise`, `SampleFeed`), and what follows for the page from the composition of
   `Mogotor` with `Dashboard`; where a right clock is assumed, how far a wrong one can push
   memory and Redis apart.
