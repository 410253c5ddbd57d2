------------------------------ MODULE History ------------------------------
(***************************************************************************)
(* The sample history of mogotor (internal/store/history.go): the points   *)
(* kept in memory for /api/history, the Redis sorted set "mogotor:history" *)
(* that outlives the process, and the counter baseline the network rates   *)
(* are computed from.  The single collector goroutine is the only writer,  *)
(* so it is a program counter, `pc`.                                       *)
(*                                                                         *)
(* Time is what makes this component hard.  A Go time.Time taken in this   *)
(* process carries a wall and a monotonic reading and is compared by the   *)
(* latter; one decoded from JSON has lost it, and the scores in Redis are  *)
(* wall milliseconds, which are coarser than either: a tick is a fraction  *)
(* of one.  `now` is real time, now + skew the wall clock.                 *)
(*                                                                         *)
(* A sample carries one network counter: bytes sent and received are       *)
(* handled alike and independently.  Its fields moved and base are ghosts: *)
(* the bytes the host had really moved, and had moved at its last boot.    *)
(***************************************************************************)
EXTENDS Integers, Sequences, FiniteSets

CONSTANTS
  Retention,     \* MOGOTOR retention, in ticks
  Milli,         \* ticks in a millisecond
  Skews,         \* wall clock minus real time: the values it may be set to
  Traffic,       \* bytes the host may move during one tick
  ReadMayFail,   \* net.IOCounters may fail, which leaves a counter at 0
  LegacyStamps,  \* wall stamps of the points in DataDir/history.json
  MaxTime,       \* bound: the last tick of real time
  MaxStarts      \* bound: how often the process is started

ASSUME HistoryAssumption ==
  /\ Retention \in Nat \ {0} /\ Milli \in Nat \ {0}
  /\ Skews \subseteq Int /\ 0 \in Skews
  /\ Traffic \subseteq Nat
  /\ ReadMayFail \in BOOLEAN
  /\ LegacyStamps \subseteq Int /\ IsFiniteSet(LegacyStamps)
  /\ MaxTime \in Nat /\ MaxStarts \in Nat

VARIABLES
  now,      \* real time
  skew,     \* wall clock minus real time
  moved,    \* ghost: bytes the host has moved since time 0
  boot,     \* ghost: the value of `moved` when the host last booted
  starts,   \* how often the process was started
  pc,       \* the collector goroutine: "down", "idle", "sampled", "added"
  cur,      \* the sample in its hands, or None
  points,   \* History.points
  lastNet,  \* History.lastNet, or None when its time is zero
  redis,    \* the sorted set: a set of samples, scored by wall stamp
  unread,   \* ghost: what Redis held when the Load of this process failed
  unsaved,  \* ghost: points of this process whose ZADD was not applied
  purged    \* ghost: the highest score Redis was told to delete up to

hostVars == <<now, skew, moved, boot, starts>>
memVars == <<points, lastNet, unread, unsaved>>
vars == <<now, skew, moved, boot, starts, pc, cur, points, lastNet, redis,
          unread, unsaved, purged>>

None == [none |-> TRUE]

-----------------------------------------------------------------------------
(* Time *)

Wall == now + skew

\* time.Now(): both readings.
Stamp == [mono |-> now, wall |-> Wall, live |-> TRUE]

\* time.Now().Add(-retention)
Cutoff == [mono |-> now - Retention, wall |-> Wall - Retention, live |-> TRUE]

\* a.Sub(b): monotonic readings when both have one, else wall readings.
Elapsed_Wall(a, b) == a.wall - b.wall
Elapsed(a, b) == IF a.live /\ b.live THEN a.mono - b.mono ELSE a.wall - b.wall

\* Time.Before(cutoff), as trim asks it.
Expired_AtCutoff(p) == Elapsed(p.ts, Cutoff) <= 0
Expired(p) == Elapsed(p.ts, Cutoff) < 0

\* Time.UnixMilli rounds down.
UnixMilli(wall) == wall \div Milli

\* scoreFor
Score(p) == UnixMilli(p.ts.wall)
CutoffScore == UnixMilli(Wall - Retention)

(* Samples *)

StampSet == [mono : Int, wall : Int, live : BOOLEAN]

\* delta / over is the rate; over = 0 stands for a rate left at zero.  The
\* ghost span is what the host moved since the baseline sample.
Sample == [ts : StampSet, recv : Nat, moved : Nat, base : Nat,
           delta : Nat, over : Nat, span : Int]

\* A sample after json.Marshal and json.Unmarshal.
Stored(p) == [p EXCEPT !.ts.live = FALSE]

LegacyPoint(w) ==
  [ts |-> [mono |-> w, wall |-> w, live |-> FALSE], recv |-> 0, moved |-> 0,
   base |-> 0, delta |-> 0, over |-> 0, span |-> 0]

Legacy == {LegacyPoint(w) : w \in LegacyStamps}

-----------------------------------------------------------------------------
(* The helpers of history.go *)

\* Definitions named X_Y are mutants of X; no specification uses them.
WithRate_Unguarded(s, b) ==
  IF b = None THEN s
  ELSE LET e == Elapsed(s.ts, b.ts) IN
       IF e > 0 THEN [s EXCEPT !.delta = s.recv - b.recv, !.over = e,
                               !.span = s.moved - b.moved]
                ELSE s

WithRate_Wraps(s, b) ==
  IF b = None THEN s
  ELSE LET e == Elapsed(s.ts, b.ts) IN
       IF e > 0 THEN [s EXCEPT !.delta = (s.recv - b.recv) % 256, !.over = e,
                               !.span = s.moved - b.moved]
                ELSE s

\* applyNetRates: the rate of s over the baseline b.
WithRate(s, b) ==
  IF b = None THEN s
  ELSE LET e == Elapsed(s.ts, b.ts) IN
       IF e > 0 /\ s.recv >= b.recv
         THEN [s EXCEPT !.delta = s.recv - b.recv, !.over = e,
                        !.span = s.moved - b.moved]
         ELSE s

Counters == [ts : StampSet, recv : Nat, moved : Nat, base : Nat]

\* The baseline a sample leaves behind, for applyNetRates and restoreLastNet.
Baseline(s) == [ts |-> s.ts, recv |-> s.recv, moved |-> s.moved, base |-> s.base]

TrimLengths_None(s) == {0}

\* trim drops the longest prefix of expired points, and only a prefix.
TrimLengths(s) ==
  {k \in 0..Len(s) : /\ \A i \in 1..k : Expired(s[i])
                     /\ k < Len(s) => ~Expired(s[k + 1])}

Drop(s, k) == SubSeq(s, k + 1, Len(s))

\* ZRANGEBYSCORE cutoff +inf: the set it selects, and the orders it may
\* return (points of one millisecond come in member order).
Window(zset) == {p \in zset : Score(p) >= CutoffScore}

Ordered_Any(S) ==
  {s \in [1..Cardinality(S) -> S] : \A p \in S : \E i \in DOMAIN s : s[i] = p}

Ordered(S) ==
  {s \in [1..Cardinality(S) -> S] :
     /\ \A p \in S : \E i \in DOMAIN s : s[i] = p
     /\ \A i, j \in DOMAIN s : i < j => Score(s[i]) <= Score(s[j])}

Purge_Now(zset) == {p \in zset : Score(p) > Wall}

\* ZREMRANGEBYSCORE -inf cutoff
Purge(zset) == {p \in zset : Score(p) > CutoffScore}

Latest(a, b) == IF a >= b THEN a ELSE b

-----------------------------------------------------------------------------
Init ==
  /\ now = 0 /\ skew = 0 /\ moved = 0 /\ boot = 0 /\ starts = 0
  /\ pc = "down" /\ cur = None
  /\ points = <<>> /\ lastNet = None
  /\ redis = {}
  /\ unread = {} /\ unsaved = {} /\ purged = CutoffScore - 1

(* The host *)

Tick ==
  /\ now < MaxTime
  /\ now' = now + 1
  /\ \E b \in Traffic : moved' = moved + b
  /\ UNCHANGED <<skew, boot, starts, pc, cur, redis, purged>> /\ UNCHANGED memVars

\* The wall clock is set, by hand or by NTP.
SetClock ==
  /\ skew' \in Skews \ {skew}
  /\ UNCHANGED <<now, moved, boot, starts, pc, cur, redis, purged>>
  /\ UNCHANGED memVars

Forget ==
  /\ pc' = "down" /\ cur' = None
  /\ points' = <<>> /\ lastNet' = None /\ unread' = {} /\ unsaved' = {}
  /\ UNCHANGED <<redis, purged>>

\* The process is killed, log.Fatals, or main returns.
Crash ==
  /\ pc # "down"
  /\ Forget
  /\ UNCHANGED hostVars

\* The host reboots: its network counters start again from zero.
Reboot ==
  /\ boot' = moved
  /\ Forget
  /\ UNCHANGED <<now, skew, moved, starts>>

(* History.Load, called by main before any goroutine starts *)

Adopt(zset) ==
  \E s \in Ordered(Window(zset)) : \E k \in TrimLengths(s) :
    /\ points' = Drop(s, k)
    /\ lastNet' = IF k < Len(s) THEN Baseline(s[Len(s)]) ELSE None
    /\ unread' = {}

LoadFails ==
  /\ points' = <<>> /\ lastNet' = None /\ unread' = redis'

\* main only logs an error of Load, and goes on with an empty history.
Starting ==
  /\ pc = "down" /\ starts < MaxStarts
  /\ pc' = "idle" /\ starts' = starts + 1
  /\ UNCHANGED <<now, skew, moved, boot, cur, unsaved, purged>>

StartFromRedis ==
  /\ Starting
  /\ Window(redis) # {}
  /\ Adopt(redis)
  /\ UNCHANGED redis

\* migrateLegacyFile succeeds (a missing file is an empty one).
StartMigrating ==
  /\ Starting
  /\ Window(redis) = {}
  /\ redis' = redis \cup Legacy
  /\ Adopt(redis')

\* Redis does not answer, or one of its members is not JSON.
StartUnloaded ==
  /\ Starting
  /\ UNCHANGED redis
  /\ LoadFails

\* The migration pipeline is no transaction: an error may leave a part of it.
StartHalfMigrated ==
  /\ Starting
  /\ Window(redis) = {}
  /\ \E part \in SUBSET Legacy : redis' = redis \cup part
  /\ LoadFails

(* The collector *)

\* collect() up to history.Add: the probes after it may take any time.  The
\* ticker never lets two samples of a process have the same time.
TakeSample ==
  /\ pc = "idle"
  /\ lastNet # None => (lastNet.ts.live => lastNet.ts.mono < now)
  /\ pc' = "sampled"
  /\ \E r \in {moved - boot} \cup (IF ReadMayFail THEN {0} ELSE {}) :
       cur' = [ts |-> Stamp, recv |-> r, moved |-> moved, base |-> boot,
               delta |-> 0, over |-> 0, span |-> 0]
  /\ UNCHANGED <<redis, purged>> /\ UNCHANGED memVars /\ UNCHANGED hostVars

\* History.Add under the lock.
AddToMemory ==
  /\ pc = "sampled"
  /\ pc' = "added"
  /\ cur' = WithRate(cur, lastNet)
  /\ lastNet' = Baseline(cur)
  /\ LET s == Append(points, cur') IN
       \E k \in TrimLengths(s) : points' = Drop(s, k)
  /\ UNCHANGED <<redis, purged, unread, unsaved>> /\ UNCHANGED hostVars

\* History.Add after the unlock: a pipeline of ZADD and ZREMRANGEBYSCORE,
\* either of which may not be applied; the error is dropped.
AddToRedis ==
  /\ pc = "added"
  /\ pc' = "idle"
  /\ cur' = None
  /\ \E zadd, zrem \in BOOLEAN :
       LET zset == IF zadd THEN redis \cup {Stored(cur)} ELSE redis IN
         /\ redis' = IF zrem THEN Purge(zset) ELSE zset
         /\ purged' = IF zrem THEN Latest(purged, CutoffScore)
                              ELSE purged
         /\ unsaved' = IF zadd THEN unsaved ELSE unsaved \cup {cur}
  /\ UNCHANGED <<points, lastNet, unread>> /\ UNCHANGED hostVars

\* History.Persist: the 5 minute ticker, or ctx.Done in Run.
Persist ==
  /\ pc = "idle"
  /\ redis' = Purge(redis)
  /\ purged' = Latest(purged, CutoffScore)
  /\ UNCHANGED <<pc, cur>> /\ UNCHANGED memVars /\ UNCHANGED hostVars

Next ==
  \/ Tick \/ SetClock \/ Crash \/ Reboot
  \/ StartFromRedis \/ StartMigrating \/ StartUnloaded \/ StartHalfMigrated
  \/ TakeSample \/ AddToMemory \/ AddToRedis \/ Persist

Spec == Init /\ [][Next]_vars
-----------------------------------------------------------------------------
HostOK ==
  /\ now \in Nat /\ skew \in Skews /\ moved \in Nat /\ boot \in Nat
  /\ starts \in Nat

CollectorOK ==
  /\ pc \in {"down", "idle", "sampled", "added"}
  /\ pc \in {"down", "idle"} => cur = None
  /\ pc \in {"sampled", "added"} => cur \in Sample

MemoryOK ==
  /\ points \in Seq(Sample)
  /\ lastNet \in Counters \cup {None}
  /\ unread \in SUBSET Sample /\ unsaved \in SUBSET Sample

StoreOK ==
  /\ redis \in SUBSET Sample /\ IsFiniteSet(redis)
  /\ purged \in Int

TypeOK == HostOK /\ CollectorOK /\ MemoryOK /\ StoreOK

InHand(p) == pc = "added" /\ p = cur

\* A sample the dashboard can be shown survives the process: it is in Redis,
\* unless it is still on its way there, its own write failed, or Redis was
\* already told to forget scores that old (Add against Load, Persist, crash).
Recoverable ==
  \A i \in 1..Len(points) :
    \/ Stored(points[i]) \in redis
    \/ InHand(points[i])
    \/ points[i] \in unsaved
    \/ Score(points[i]) <= purged

InWindow(S) == {p \in S : Score(p) > CutoffScore}

Log == INSTANCE RetainedLog WITH
  wall <- Wall, safe <- InWindow(redis),
  fragile <- InWindow({Stored(points[i]) : i \in DOMAIN points} \ redis)

\* While the wall clock is right, memory and Redis together are a log that
\* loses no saved sample within the window, and by a crash only samples whose
\* write was under way or had failed (Add, Persist, Load and the migration).
LogRetained == Log!LogSpec

\* Not before the cutoff, as trim sees it, of a right clock.
Fresh(p) == p.ts.wall >= Wall - Retention

\* While the wall clock is right, a process serves every sample within the
\* retention that Redis holds, but for those a failed Load left unread: memory,
\* trimmed by Add to the nanosecond, never runs ahead of the sorted set, which
\* Load and Add cut at the millisecond.
ServesStored ==
  pc # "down" =>
    \A q \in redis \ unread :
      Fresh(q) => \E i \in 1..Len(points) : Stored(points[i]) = q

\* The chart's points are in time order whatever the wall clock did: those
\* reloaded from Redis first, by score, then this process's own by real time.
Chronological ==
  \A i, j \in 1..Len(points) : i < j =>
    LET a == points[i].ts  b == points[j].ts IN
      /\ b.live => (a.live => a.mono <= b.mono)
      /\ ~b.live => (~a.live /\ UnixMilli(a.wall) <= UnixMilli(b.wall))

\* A stored rate never counts more bytes than the host moved since the
\* baseline sample, across restarts and reboots that reset the counters.
RateWithinTraffic ==
  \A p \in redis \cup {points[i] : i \in 1..Len(points)} : p.delta <= p.span

\* Between two samples of one process the interval of a rate is real time,
\* even when the wall clock is set in between.
SteadyRate ==
  \A i \in 1..(Len(points) - 1) :
    LET a == points[i]  b == points[i + 1] IN
      (a.ts.live /\ b.ts.live) => b.over \in {0, b.ts.mono - a.ts.mono}

\* While the wall clock is right, Add keeps every point of the retention, the
\* new one included if its probes were quick enough, and of the older ones at
\* most those of the cutoff's millisecond, which Load may return in any order.
TrimExact ==
  [][(pc = "sampled" /\ pc' = "added") =>
       LET Among(s) == {s[i] : i \in 1..Len(s)}
           all == Among(Append(points, cur'))
           kept == Among(points') IN
         /\ {p \in all : Fresh(p)} \subseteq kept
         /\ kept \subseteq {p \in all : Score(p) >= CutoffScore}]_vars

\* No change of the clock makes Add drop a point of this process before the
\* retention has passed in real time, although trim drops a prefix of points
\* that may then be in no order of the wall clock.
OwnKept ==
  [][(pc = "sampled" /\ pc' = "added") =>
       \A i \in 1..Len(points) :
         (points[i].ts.live /\ points[i].ts.mono >= now - Retention) =>
           \E j \in 1..Len(points') : points'[j] = points[i]]_vars
=============================================================================
