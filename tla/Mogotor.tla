------------------------------ MODULE Mogotor ------------------------------
(***************************************************************************)
(* The mogotor process as a whole: main (cmd/mogotor), the collector       *)
(* goroutine (internal/collector), the two stores it shares with the HTTP  *)
(* handlers (internal/store, internal/server), and Redis.  The goroutines  *)
(* interleave at every lock; main does not wait for the collector, and the *)
(* process may die at any time.                                            *)
(*                                                                         *)
(* A sample is its time and whether it carries network rates (traffic      *)
(* never rests, so every sample with a baseline gets one).  Clocks and     *)
(* counters are History's subject, the digest is DailyDigest's: here the   *)
(* wall clock is right, Redis answers while the client is open, and        *)
(* MaybeSend is one step.  Time 0 is Go's zero time, before any sample.    *)
(***************************************************************************)
EXTENDS Integers, Sequences, FiniteSets, SequencesExt

CONSTANTS
  Clients,    \* browsers and probes that call the API
  Retention,  \* MOGOTOR retention, in ticks
  MaxTime,    \* bound: the last tick
  MaxStarts   \* bound: how often the process is started

ASSUME MogotorAssumption ==
  /\ Retention \in Nat \ {0}
  /\ MaxTime \in Nat /\ MaxStarts \in Nat

VARIABLES
  clock,
  starts,     \* how often the process was started
  main,       \* the main goroutine
  run,        \* the collector goroutine
  cancelled,  \* runCtx is done
  tickers,    \* the tickers with a tick in their channel
  sample,     \* `system` of the running collect()
  added,      \* the copy of it in History.Add
  history,    \* History.points
  lastNet,    \* the time of History.lastNet
  latest,     \* Latest.snapshot
  redis,      \* the sorted set, as a set of samples
  open,       \* the Redis client is open
  request,    \* the request each client has in a handler
  answer      \* ghost: the last answer each client got of this process

processVars == <<starts, main, cancelled, open>>
collectorVars == <<run, tickers, sample, added, history, lastNet, latest, redis>>
clientVars == <<request, answer>>
vars == <<clock, starts, main, run, cancelled, tickers, sample, added,
          history, lastNet, latest, redis, open, request, answer>>

Zero == [ts |-> 0, rated |-> FALSE]
Idle == [kind |-> "none"]
NoAnswer == [kind |-> "none"]

-----------------------------------------------------------------------------
(* The stores *)

Fresh(p) == p.ts >= clock - Retention

\* trim drops the points before the first fresh one.
Trim_None(s) == s
Trim(s) ==
  LET first == Min({i \in 1..Len(s) : Fresh(s[i])} \cup {Len(s) + 1}) IN
    SubSeq(s, first, Len(s))

\* ZREMRANGEBYSCORE -inf cutoff
Purge(zset) == {p \in zset : p.ts > clock - Retention}

\* Load: the members of the window in score order; two of one score may come
\* in either order.
Loaded(zset) ==
  {s \in SetToSeqs({p \in zset : Fresh(p)}) :
     \A i, j \in 1..Len(s) : i < j => s[i].ts <= s[j].ts}

Newest_Unset(s) == IF s = <<>> THEN -1 ELSE Last(s).ts
Newest(s) == IF s = <<>> THEN 0 ELSE Last(s).ts

\* Latest.Age
Age(snapshot) == IF snapshot.ts = 0 THEN 0 ELSE clock - snapshot.ts

-----------------------------------------------------------------------------
Init ==
  /\ clock = 1 /\ starts = 0
  /\ main = "off" /\ run = "none" /\ cancelled = FALSE /\ tickers = {}
  /\ sample = Zero /\ added = Zero /\ history = <<>> /\ lastNet = 0 /\ latest = Zero
  /\ redis = {} /\ open = FALSE
  /\ request = [c \in Clients |-> Idle]
  /\ answer = [c \in Clients |-> NoAnswer]

Tick ==
  /\ clock < MaxTime
  /\ clock' = clock + 1
  /\ UNCHANGED processVars /\ UNCHANGED collectorVars /\ UNCHANGED clientVars

(* main *)

\* Up to `go col.Run` and ListenAndServe.  A Load error leaves no history.
Start ==
  /\ main = "off" /\ starts < MaxStarts
  /\ starts' = starts + 1
  /\ main' = "serving" /\ run' = "start" /\ cancelled' = FALSE /\ open' = TRUE
  /\ tickers' = {} /\ sample' = Zero /\ added' = Zero /\ latest' = Zero
  /\ \E loaded \in Loaded(redis) \cup {<<>>} : history' = Trim(loaded)
  /\ lastNet' = Newest(history')
  /\ UNCHANGED <<clock, redis>> /\ UNCHANGED clientVars

\* SIGTERM or SIGINT: cancel the collector and close the listener.
Signal ==
  /\ main = "serving"
  /\ main' = "stopping" /\ cancelled' = TRUE
  /\ UNCHANGED <<clock, starts, open>>
  /\ UNCHANGED collectorVars /\ UNCHANGED clientVars

\* Shutdown returns when the handlers have, or after 10 seconds.
ShutdownReturns ==
  /\ main = "stopping"
  /\ main' = "closing"
  /\ UNCHANGED <<clock, starts, cancelled, open>>
  /\ UNCHANGED collectorVars /\ UNCHANGED clientVars

\* The deferred rdb.Close.
CloseRedis ==
  /\ main = "closing"
  /\ main' = "exiting" /\ open' = FALSE
  /\ UNCHANGED <<clock, starts, cancelled>>
  /\ UNCHANGED collectorVars /\ UNCHANGED clientVars

\* The end of the process is the end of every goroutine.
Gone ==
  /\ main' = "off" /\ run' = "none" /\ cancelled' = FALSE /\ open' = FALSE
  /\ tickers' = {} /\ sample' = Zero /\ added' = Zero
  /\ history' = <<>> /\ lastNet' = 0 /\ latest' = Zero
  /\ request' = [c \in Clients |-> Idle]
  /\ answer' = [c \in Clients |-> NoAnswer]
  /\ UNCHANGED <<clock, starts, redis>>

Exit_Joined == main = "exiting" /\ run = "done" /\ Gone

\* main returns: nobody waits for the collector.
Exit == main = "exiting" /\ Gone

\* The process is killed, or ListenAndServe fails and log.Fatalf exits.
Die == main # "off" /\ Gone

(* The collector *)

\* The order of collect() after its probes, and back to the select of Run.
After_SetFirst ==
  [probing |-> "setting", setting |-> "adding", adding |-> "writing",
   writing |-> "notifying", notifying |-> "select"]
After_Unwritten ==
  [probing |-> "adding", adding |-> "setting", writing |-> "setting",
   setting |-> "notifying", notifying |-> "select"]
After ==
  [probing |-> "adding", adding |-> "writing", writing |-> "setting",
   setting |-> "notifying", notifying |-> "select"]

CollectorStep(from) ==
  /\ run = from
  /\ run' = After[from]
  /\ UNCHANGED <<clock, tickers>> /\ UNCHANGED processVars /\ UNCHANGED clientVars

\* collect() begins: `now` is taken before any probe.
BeginCollect ==
  /\ run = "start"
  /\ clock > sample.ts
  /\ run' = "probing"
  /\ sample' = [ts |-> clock, rated |-> FALSE]
  /\ UNCHANGED <<clock, tickers, added, history, lastNet, latest, redis>>
  /\ UNCHANGED processVars /\ UNCHANGED clientVars

\* The probes, one after the other, take any time.
Probe ==
  /\ CollectorStep("probing")
  /\ UNCHANGED <<sample, added, history, lastNet, latest, redis>>

\* The rates go into the copy of the sample that History.Add was passed.
AddToMemory ==
  /\ CollectorStep("adding")
  /\ added' = [sample EXCEPT !.rated = lastNet # 0 /\ sample.ts > lastNet]
  /\ lastNet' = sample.ts
  /\ history' = Trim(Append(history, added'))
  /\ UNCHANGED <<sample, latest, redis>>

\* The pipeline of Add; a closed client only returns an error, which is dropped.
AddToRedis ==
  /\ CollectorStep("writing")
  /\ redis' = IF open THEN Purge(redis \cup {added}) ELSE redis
  /\ UNCHANGED <<sample, added, history, lastNet, latest>>

SetLatest ==
  /\ CollectorStep("setting")
  /\ latest' = sample
  /\ UNCHANGED <<sample, added, history, lastNet, redis>>

\* MaybeSend, of which DailyDigest has the steps.
Notify ==
  /\ CollectorStep("notifying")
  /\ UNCHANGED <<sample, added, history, lastNet, latest, redis>>

\* A ticker of Run; its channel holds one tick.
TickerFires ==
  /\ run \notin {"none", "done"} /\ sample # Zero
  /\ \E t \in {"collect", "persist"} \ tickers : tickers' = tickers \cup {t}
  /\ UNCHANGED <<clock, run, sample, added, history, lastNet, latest, redis>>
  /\ UNCHANGED processVars /\ UNCHANGED clientVars

Persisted == IF open THEN Purge(redis) ELSE redis

\* The select of Run: any case that is ready may be taken.
SelectCollect ==
  /\ run = "select" /\ "collect" \in tickers
  /\ run' = "start" /\ tickers' = tickers \ {"collect"}
  /\ UNCHANGED <<clock, sample, added, history, lastNet, latest, redis>>
  /\ UNCHANGED processVars /\ UNCHANGED clientVars

SelectPersist ==
  /\ run = "select" /\ "persist" \in tickers
  /\ tickers' = tickers \ {"persist"}
  /\ redis' = Persisted
  /\ UNCHANGED <<clock, run, sample, added, history, lastNet, latest>>
  /\ UNCHANGED processVars /\ UNCHANGED clientVars

SelectDone ==
  /\ run = "select" /\ cancelled
  /\ run' = "done"
  /\ redis' = Persisted
  /\ UNCHANGED <<clock, tickers, sample, added, history, lastNet, latest>>
  /\ UNCHANGED processVars /\ UNCHANGED clientVars

(* The handlers: net/http runs each request in a goroutine of its own *)

\* A request is accepted until the listener is closed.
Ask(c, kind) ==
  /\ main = "serving" /\ request[c] = Idle
  /\ request' = [request EXCEPT ![c] = kind]
  /\ UNCHANGED <<clock, answer>>
  /\ UNCHANGED processVars /\ UNCHANGED collectorVars

Answer(c, a) ==
  /\ answer' = [answer EXCEPT ![c] = a]
  /\ request' = [request EXCEPT ![c] = Idle]
  /\ UNCHANGED clock /\ UNCHANGED processVars /\ UNCHANGED collectorVars

\* handleSnapshot: one read under the lock.
GetSnapshot(c) ==
  /\ main = "serving" /\ request[c] = Idle
  /\ Answer(c, [kind |-> "snapshot", ts |-> latest.ts])

\* handleHistory: RetentionFrom, then Points.
AskHistory(c) == Ask(c, [kind |-> "history", from |-> clock - Retention])

AnswerHistory(c) ==
  /\ request[c].kind = "history"
  /\ Answer(c, [kind |-> "history", from |-> request[c].from,
                points |-> ToSet(history)])

\* handleHealth reads Latest twice: its timestamp, then its age.
HealthOf_AgeFirst(read) == [last |-> latest.ts, age |-> read.age]
HealthOf(read) == [last |-> read.last, age |-> Age(latest)]

AskHealth(c) == Ask(c, [kind |-> "health", last |-> latest.ts, age |-> Age(latest)])

AnswerHealth(c) ==
  /\ request[c].kind = "health"
  /\ Answer(c, [kind |-> "health", at |-> clock, says |-> HealthOf(request[c])])

MainStep == Start \/ Signal \/ ShutdownReturns \/ CloseRedis \/ Exit \/ Die
CollectorNext ==
  \/ BeginCollect \/ Probe \/ AddToMemory \/ AddToRedis \/ SetLatest \/ Notify
  \/ SelectCollect \/ SelectPersist \/ SelectDone
HandlerNext ==
  \E c \in Clients :
    \/ GetSnapshot(c)
    \/ AskHistory(c) \/ AnswerHistory(c)
    \/ AskHealth(c) \/ AnswerHealth(c)

Next == Tick \/ MainStep \/ TickerFires \/ CollectorNext \/ HandlerNext

Spec == Init /\ [][Next]_vars

\* main runs on once it was signalled; nothing is assumed of the collector,
\* whose probes may hang, nor of clients.
FairSpec ==
  Spec /\ WF_vars(ShutdownReturns) /\ WF_vars(CloseRedis) /\ WF_vars(Exit)
-----------------------------------------------------------------------------
Samples == [ts : Nat, rated : BOOLEAN]

TypeOK ==
  /\ clock \in Nat /\ starts \in Nat
  /\ main \in {"off", "serving", "stopping", "closing", "exiting"}
  /\ run \in {"none", "start", "select", "done"} \cup DOMAIN After
  /\ cancelled \in BOOLEAN /\ open \in BOOLEAN
  /\ tickers \subseteq {"collect", "persist"}
  /\ {sample, added, latest} \subseteq Samples /\ lastNet \in Nat
  /\ history \in Seq(Samples) /\ redis \subseteq Samples
  /\ DOMAIN request = Clients /\ DOMAIN answer = Clients

\* The chart is never behind the cards: a history asked for after a snapshot has
\* the sample of that snapshot, or it is out of the window (collect() adds to
\* History before it sets Latest, and the handlers read both without a lock
\* over the two).
ChartShowsCard ==
  [][\A c \in Clients :
       (answer[c].kind = "snapshot" /\ answer'[c].kind = "history") =>
         \/ answer[c].ts = 0
         \/ \E p \in answer'[c].points : p.ts = answer[c].ts
         \/ answer[c].ts < clock - Retention]_vars

Feed == INSTANCE SampleFeed WITH
  time <- clock, life <- starts,
  state <- IF main = "serving" THEN "up" ELSE IF main = "off" THEN "off" ELSE "stopping",
  chart <- {history[i].ts : i \in DOMAIN history},
  taken <- added.ts, shown <- latest.ts

\* What the page sees of the process is a feed of samples, whatever the order of
\* its goroutines: the stores, their locks and Redis implement SampleFeed.
FeedsPage == Feed!FeedSpec

\* Until main closes the Redis client, only the sample in the collector's
\* hands is missing from Redis: a stop can lose no other.
StoredUntilClosed ==
  open => \A i \in 1..Len(history) :
            Fresh(history[i]) =>
              history[i] \in redis \/ (history[i] = added /\ run = "writing")
              \/ history[i].ts = clock - Retention

\* /api/health never claims an age above that of the sample it names, though
\* a collect() may finish between its two reads.
HealthNotOverstated ==
  \A c \in Clients :
    answer[c].kind = "health" =>
      answer[c].says.age <= answer[c].at - answer[c].says.last

\* After SIGTERM the process is gone in the end, even if a probe hangs.
StopCompletes == main = "stopping" ~> main = "off"

\* The network figures of the cards are those of the chart: Latest has the
\* rates of the point it shows.
CardsHaveRates ==
  \A i \in 1..Len(history) : history[i].ts = latest.ts => history[i] = latest
=============================================================================
