--------------------------- MODULE MogotorProofs ---------------------------
(***************************************************************************)
(* Theorems about the process as a whole, for any clients, any retention   *)
(* and any number of starts.                                               *)
(***************************************************************************)
EXTENDS Mogotor, FiniteFacts

Busy == {"probing", "adding"} \* a sample is taken, and not yet added
Runs == {"none", "start", "select", "done", "writing", "setting", "notifying"} \cup Busy
Mains == {"off", "serving", "stopping", "closing", "exiting"}

\* Without a process there is nothing in memory.
ProcessInv ==
  /\ main \in Mains /\ run \in Runs
  /\ starts \in Nat /\ tickers \subseteq {"collect", "persist"}
  /\ main # "off" => run # "none"
  /\ main = "off" =>
       /\ run = "none" /\ ~open /\ history = <<>>
       /\ sample = Zero /\ added = Zero /\ latest = Zero

FlagsInv == cancelled \in BOOLEAN /\ open \in BOOLEAN

\* Samples are taken, added and shown in the order of time.
SamplesInv ==
  /\ clock \in Nat /\ lastNet \in Nat
  /\ sample \in Samples /\ added \in Samples /\ latest \in Samples
  /\ sample.ts <= clock /\ latest.ts <= added.ts
  /\ run \in Busy => added.ts < sample.ts
  /\ run \notin Busy => added.ts = sample.ts
  /\ run = "writing" => 1 <= added.ts

StoresInv ==
  /\ history \in Seq(Samples)
  /\ \A i \in 1..Len(history) :
       /\ 1 <= history[i].ts /\ history[i].ts <= clock
       /\ run \in Busy => history[i].ts <= sample.ts
  /\ \A i, j \in 1..Len(history) : i < j => history[i].ts <= history[j].ts
  /\ redis \subseteq Samples /\ IsFiniteSet(redis)
  /\ \A p \in redis : 1 <= p.ts /\ p.ts <= clock

\* A time is no sample's, has its sample in the chart, or has left the window.
Charted(t) ==
  t = 0 \/ (\E i \in 1..Len(history) : history[i].ts = t) \/ t < clock - Retention

ClientsInv ==
  /\ DOMAIN request = Clients /\ DOMAIN answer = Clients
  /\ main = "off" => \A c \in Clients : request[c] = Idle /\ answer[c] = NoAnswer
  /\ Charted(latest.ts) /\ Charted(added.ts)
  /\ \A c \in Clients :
       /\ request[c].kind = "health" => request[c].last \in Nat /\ request[c].last <= latest.ts
       /\ answer[c].kind = "snapshot" => answer[c].ts \in Nat /\ Charted(answer[c].ts)

ProofInv ==
  /\ ProcessInv /\ FlagsInv /\ SamplesInv /\ StoresInv /\ ClientsInv
  /\ StoredUntilClosed /\ HealthNotOverstated

-----------------------------------------------------------------------------
(* The stores *)

InOrder(s) == \A i, j \in 1..Len(s) : i < j => s[i].ts <= s[j].ts

LEMMA ZeroIsSample == Zero \in Samples /\ Zero.ts = 0
  BY DEF Zero, Samples

LEMMA SamplesHaveTimes == \A p \in Samples : p.ts \in Nat
  BY DEF Samples

\* trim keeps the fresh points in order, and if they were in order no others.
LEMMA TrimKeeps ==
  ASSUME clock \in Nat, NEW s \in Seq(Samples), InOrder(s)
  PROVE  /\ Trim(s) \in Seq(Samples) /\ InOrder(Trim(s))
         /\ \A i \in 1..Len(Trim(s)) :
              Fresh(Trim(s)[i]) /\ \E j \in 1..Len(s) : Trim(s)[i] = s[j]
         /\ \A j \in 1..Len(s) :
              Fresh(s[j]) => \E i \in 1..Len(Trim(s)) : Trim(s)[i] = s[j]
<1> DEFINE n == Len(s)
           T == {i \in 1..n : Fresh(s[i])} \cup {n + 1}
           m == Min(T)
           t == SubSeq(s, m, n)
<1>1. n \in Nat /\ Retention \in Nat /\ \A i \in 1..n : s[i] \in Samples /\ s[i].ts \in Nat
  BY LenProperties, ElementOfSeq, MogotorAssumption, SamplesHaveTimes
<1>2. m \in T /\ \A i \in T : m <= i
  <2>1. T \subseteq Nat /\ T # {}
    BY <1>1
  <2> HIDE DEF T
  <2> QED
    BY <2>1, MinIsLeast
<1>3. m \in 1..(n + 1) /\ \A i \in 1..n : Fresh(s[i]) => m <= i
  BY <1>1, <1>2
<1>4. \A i \in 1..n : m <= i => Fresh(s[i])
  <2>1. m \in 1..n => Fresh(s[m])
    BY <1>2, <1>1
  <2> HIDE DEF m
  <2>2. ASSUME NEW i \in 1..n, m <= i PROVE Fresh(s[i])
    <3>1. m \in 1..n /\ s[m].ts <= s[i].ts
      BY <1>1, <1>3, <2>2 DEF InOrder
    <3> QED
      BY <1>1, <2>1, <3>1 DEF Fresh
  <2> QED
    BY <2>2
<1>5. Trim(s) = t
  BY DEF Trim
<1> HIDE DEF m, n
<1>6. /\ t \in Seq(Samples) /\ Len(t) = n - m + 1
      /\ \A i \in 1..Len(t) : t[i] = s[m + i - 1]
  <2>1. m \in 1..(Len(s) + 1) /\ n \in (m - 1)..Len(s)
    BY <1>1, <1>3 DEF n
  <2>2. /\ t \in Seq(Samples) /\ Len(t) = IF m <= n THEN n - m + 1 ELSE 0
        /\ \A i \in 1..(n - m + 1) : t[i] = s[m + i - 1]
    BY <2>1, SubSeqProperties
  <2> QED
    BY <1>1, <1>3, <2>2
<1> HIDE DEF t
<1>7. \A i \in 1..Len(t) : m + i - 1 \in 1..n /\ m <= m + i - 1
  BY <1>1, <1>3, <1>6
<1>8. \A j \in 1..n : m <= j => j - m + 1 \in 1..Len(t) /\ t[j - m + 1] = s[j]
  <2> SUFFICES ASSUME NEW j \in 1..n, m <= j
               PROVE  j - m + 1 \in 1..Len(t) /\ t[j - m + 1] = s[j]
    OBVIOUS
  <2>1. j - m + 1 \in 1..Len(t) /\ m + (j - m + 1) - 1 = j
    BY <1>1, <1>3, <1>6
  <2> QED
    BY <1>6, <2>1
<1>9. InOrder(t)
  <2> SUFFICES ASSUME NEW i \in 1..Len(t), NEW j \in 1..Len(t), i < j
               PROVE  t[i].ts <= t[j].ts
    BY DEF InOrder
  <2>1. m + i - 1 < m + j - 1
    BY <1>1, <1>3, <1>6
  <2>2. s[m + i - 1].ts <= s[m + j - 1].ts
    BY <1>7, <2>1 DEF InOrder, n
  <2> QED
    BY <1>6, <2>2
<1>10. \A i \in 1..Len(t) : Fresh(t[i]) /\ \E j \in 1..n : t[i] = s[j]
  BY <1>4, <1>6, <1>7
<1>11. \A j \in 1..n : Fresh(s[j]) => \E i \in 1..Len(t) : t[i] = s[j]
  BY <1>3, <1>8
<1> QED
  BY <1>5, <1>6, <1>9, <1>10, <1>11 DEF n

\* Load returns the samples of the window, in order.
LEMMA LoadedFacts ==
  ASSUME NEW zset, zset \subseteq Samples, IsFiniteSet(zset), NEW s \in Loaded(zset)
  PROVE  s \in Seq(Samples) /\ InOrder(s) /\ \A i \in 1..Len(s) : s[i] \in zset
<1> DEFINE W == {p \in zset : Fresh(p)}
<1>1. s \in SetToSeqs(W) /\ InOrder(s)
  BY DEF Loaded, InOrder
<1>2. IsFiniteSet(W)
  BY FS_Subset
<1>3. s \in Seq(W)
  BY <1>1, <1>2, ListOfAll
<1>4. \A i \in 1..Len(s) : s[i] \in W
  BY <1>3, ElementOfSeq
<1>5. Len(s) \in Nat /\ s \in [1..Len(s) -> W]
  BY <1>3, LenProperties
<1>6. s \in Seq(Samples)
  <2>1. s \in [1..Len(s) -> Samples]
    BY <1>5
  <2> QED
    BY <1>5, <2>1, SeqDef
<1> QED
  BY <1>1, <1>4, <1>6

\* Deleting by score leaves a finite set of samples, the newest of the old ones.
LEMMA PurgeFacts ==
  ASSUME clock \in Nat, NEW zset, zset \subseteq Samples, IsFiniteSet(zset)
  PROVE  /\ Purge(zset) \subseteq zset /\ IsFiniteSet(Purge(zset))
         /\ \A p \in zset : Fresh(p) => p \in Purge(zset) \/ p.ts = clock - Retention
<1>1. Purge(zset) \subseteq zset
  BY DEF Purge
<1>2. IsFiniteSet(Purge(zset))
  BY <1>1, FS_Subset
<1>3. ASSUME NEW p \in zset, Fresh(p) PROVE p \in Purge(zset) \/ p.ts = clock - Retention
  <2>1. p.ts \in Nat /\ Retention \in Nat
    BY MogotorAssumption, SamplesHaveTimes
  <2> QED
    BY <1>3, <2>1 DEF Purge, Fresh
<1> QED
  BY <1>1, <1>2, <1>3

-----------------------------------------------------------------------------
(* The steps *)

LEMMA TickStep ==
  ASSUME ProofInv, Tick
  PROVE  ProofInv'
<1>1. /\ clock' = clock + 1 /\ clock \in Nat /\ Retention \in Nat
      /\ UNCHANGED <<processVars, collectorVars, clientVars>>
  BY MogotorAssumption DEF Tick, ProofInv, SamplesInv
<1>2. ProcessInv' /\ FlagsInv'
  BY <1>1 DEF ProofInv, ProcessInv, FlagsInv, processVars, collectorVars
<1>3. SamplesInv'
  BY <1>1, SamplesHaveTimes DEF ProofInv, SamplesInv, collectorVars
<1>4. \A i \in 1..Len(history) : history[i].ts \in Nat
  BY ElementOfSeq, SamplesHaveTimes DEF ProofInv, StoresInv
<1>5. StoresInv'
  <2>1. \A p \in redis : p.ts \in Nat
    BY SamplesHaveTimes DEF ProofInv, StoresInv
  <2> QED
    BY <1>1, <1>4, <2>1 DEF ProofInv, StoresInv, collectorVars
<1>6. ASSUME NEW t \in Nat, Charted(t) PROVE Charted(t)'
  BY <1>1, <1>6 DEF Charted, collectorVars
<1>7. ClientsInv'
  <2>1. latest.ts \in Nat /\ added.ts \in Nat
    BY SamplesHaveTimes DEF ProofInv, SamplesInv
  <2>2. Charted(latest.ts)' /\ Charted(added.ts)'
    BY <1>1, <1>6, <2>1 DEF ProofInv, ClientsInv, collectorVars
  <2>3. ASSUME NEW c \in Clients, answer[c].kind = "snapshot"
        PROVE  answer[c].ts \in Nat /\ Charted(answer[c].ts)'
    BY <1>1, <1>6, <2>3 DEF ProofInv, ClientsInv, clientVars
  <2> QED
    BY <1>1, <2>2, <2>3
    DEF ProofInv, ClientsInv, clientVars, collectorVars, processVars
<1>8. StoredUntilClosed'
  BY <1>1, <1>4 DEF ProofInv, StoredUntilClosed, Fresh, processVars, collectorVars
<1>9. HealthNotOverstated'
  BY <1>1 DEF ProofInv, HealthNotOverstated, clientVars
<1> QED
  BY <1>2, <1>3, <1>5, <1>7, <1>8, <1>9 DEF ProofInv

\* Without a process nothing is claimed of a client.
LEMMA GoneStep ==
  ASSUME ProofInv, Gone
  PROVE  ProofInv'
<1>1. /\ main' = "off" /\ run' = "none" /\ cancelled' = FALSE /\ open' = FALSE
      /\ tickers' = {} /\ sample' = Zero /\ added' = Zero
      /\ history' = <<>> /\ lastNet' = 0 /\ latest' = Zero
      /\ \A c \in Clients : request'[c] = Idle /\ answer'[c] = NoAnswer
      /\ DOMAIN request' = Clients /\ DOMAIN answer' = Clients
      /\ UNCHANGED <<clock, starts, redis>>
  BY DEF Gone
<1>2. Idle.kind = "none" /\ NoAnswer.kind = "none"
  BY DEF Idle, NoAnswer
<1>3. ProcessInv' /\ FlagsInv'
  BY <1>1 DEF ProofInv, ProcessInv, FlagsInv, Mains, Runs
<1>4. SamplesInv'
  BY <1>1, ZeroIsSample DEF ProofInv, SamplesInv, Busy
<1>5. StoresInv'
  BY <1>1, EmptySeq DEF ProofInv, StoresInv, Busy
<1>6. ClientsInv'
  BY <1>1, <1>2, ZeroIsSample DEF ClientsInv, Charted
<1>7. StoredUntilClosed' /\ HealthNotOverstated'
  BY <1>1, <1>2 DEF StoredUntilClosed, HealthNotOverstated
<1> QED
  BY <1>3, <1>4, <1>5, <1>6, <1>7 DEF ProofInv

LEMMA StartStep ==
  ASSUME ProofInv, Start
  PROVE  ProofInv'
<1>1. /\ main = "off" /\ starts' = starts + 1
      /\ main' = "serving" /\ run' = "start" /\ cancelled' = FALSE /\ open' = TRUE
      /\ tickers' = {} /\ sample' = Zero /\ added' = Zero /\ latest' = Zero
      /\ lastNet' = Newest(history')
      /\ UNCHANGED <<clock, redis, request, answer>>
  BY DEF Start, clientVars
<1>2. PICK s \in Loaded(redis) \cup {<<>>} : history' = Trim(s)
  BY DEF Start
<1>3. redis \subseteq Samples /\ IsFiniteSet(redis) /\ clock \in Nat /\ Retention \in Nat
  BY MogotorAssumption DEF ProofInv, StoresInv, SamplesInv
<1>4. s \in Seq(Samples) /\ InOrder(s) /\ \A i \in 1..Len(s) : s[i] \in redis
  <2>1. CASE s = <<>>
    BY <2>1, EmptySeq DEF InOrder
  <2>2. CASE s \in Loaded(redis)
    BY <1>3, <2>2, LoadedFacts
  <2> QED
    BY <1>2, <2>1, <2>2
<1>5. /\ history' \in Seq(Samples) /\ InOrder(history')
      /\ \A i \in 1..Len(history') : history'[i] \in redis
  BY <1>2, <1>3, <1>4, TrimKeeps
<1>6. ProcessInv' /\ FlagsInv'
  <2>1. starts' \in Nat
    BY <1>1 DEF ProofInv, ProcessInv
  <2> QED
    BY <1>1, <2>1 DEF ProcessInv, FlagsInv, Mains, Runs
<1>7. SamplesInv'
  <2>1. Newest(history') \in Nat
    <3>1. CASE history' = <<>>
      BY <3>1 DEF Newest
    <3>2. CASE history' # <<>>
      <4>1. Last(history') = history'[Len(history')] /\ Len(history') \in 1..Len(history')
        BY <1>5, <3>2, EmptySeq, LenProperties DEF Last
      <4>2. Last(history') \in Samples
        BY <1>5, <4>1, ElementOfSeq
      <4> QED
        BY <3>2, <4>2, SamplesHaveTimes DEF Newest
    <3> QED
      BY <3>1, <3>2
  <2> QED
    BY <1>1, <2>1, ZeroIsSample DEF ProofInv, SamplesInv, Busy
<1>8. StoresInv'
  BY <1>1, <1>5 DEF ProofInv, StoresInv, InOrder, Busy
<1>9. ClientsInv'
  <2>1. \A c \in Clients : request[c].kind = "none" /\ answer[c].kind = "none"
    BY <1>1 DEF ProofInv, ClientsInv, Idle, NoAnswer
  <2>2. Charted(latest.ts)' /\ Charted(added.ts)'
    BY <1>1, ZeroIsSample DEF Charted
  <2> QED
    BY <1>1, <2>1, <2>2 DEF ProofInv, ClientsInv
<1>10. StoredUntilClosed'
  BY <1>1, <1>5 DEF StoredUntilClosed
<1>11. HealthNotOverstated'
  BY <1>1 DEF ProofInv, HealthNotOverstated
<1> QED
  BY <1>6, <1>7, <1>8, <1>9, <1>10, <1>11 DEF ProofInv

\* main on its way out changes nothing that is stored.
LEMMA StopStep ==
  ASSUME ProofInv, Signal \/ ShutdownReturns \/ CloseRedis
  PROVE  ProofInv'
<1>1. /\ main # "off" /\ main' \in {"stopping", "closing", "exiting"}
      /\ open' = open \/ open' = FALSE
      /\ cancelled' = cancelled \/ cancelled' = TRUE
      /\ UNCHANGED <<clock, starts, collectorVars, clientVars>>
  BY DEF Signal, ShutdownReturns, CloseRedis
<1>2. ProcessInv'
  BY <1>1 DEF ProofInv, ProcessInv, Mains, collectorVars
<1>6. FlagsInv'
  <2>1. open' \in BOOLEAN
    BY <1>1 DEF ProofInv, FlagsInv
  <2>2. cancelled' \in BOOLEAN
    BY <1>1 DEF ProofInv, FlagsInv
  <2> QED
    BY <2>1, <2>2 DEF FlagsInv
<1>3. SamplesInv' /\ StoresInv'
  BY <1>1 DEF ProofInv, SamplesInv, StoresInv, collectorVars
<1>4. ClientsInv'
  BY <1>1 DEF ProofInv, ClientsInv, Charted, collectorVars, clientVars
<1>5. StoredUntilClosed'
  <2>1. CASE open' = FALSE
    BY <2>1 DEF StoredUntilClosed
  <2>2. CASE open' = open
    BY <1>1, <2>2 DEF ProofInv, StoredUntilClosed, Fresh, collectorVars
  <2> QED
    BY <1>1, <2>1, <2>2
<1>7. HealthNotOverstated'
  BY <1>1 DEF ProofInv, HealthNotOverstated, clientVars
<1> QED
  BY <1>2, <1>3, <1>4, <1>5, <1>6, <1>7 DEF ProofInv

\* The steps of the collector that move only itself, and those that delete from
\* Redis what has left the window.
LEMMA CollectorMoves ==
  ASSUME ProofInv, run' \in Runs \ {"none"}, run # "none",
         run' = run \/ (run # "writing" /\ run' # "writing"),
         run' \in Busy <=> run \in Busy, tickers' \subseteq {"collect", "persist"},
         redis' \in {redis, Purge(redis)},
         UNCHANGED <<clock, sample, added, history, lastNet, latest, processVars, clientVars>>
  PROVE  ProofInv'
<1>1. UNCHANGED <<clock, sample, added, history, lastNet, latest, starts, main, cancelled,
                  open, request, answer>>
  BY DEF processVars, clientVars
<1>2. ProcessInv' /\ FlagsInv'
  BY <1>1 DEF ProofInv, ProcessInv, FlagsInv, Runs
<1>3. SamplesInv'
  BY <1>1 DEF ProofInv, SamplesInv
<1>4. /\ redis' \subseteq redis /\ IsFiniteSet(redis')
      /\ \A p \in redis : Fresh(p) => p \in redis' \/ p.ts = clock - Retention
  BY PurgeFacts DEF ProofInv, SamplesInv, StoresInv
<1>5. StoresInv'
  BY <1>1, <1>4 DEF ProofInv, StoresInv
<1>6. ClientsInv'
  BY <1>1 DEF ProofInv, ClientsInv, Charted
<1>7. StoredUntilClosed'
  BY <1>1, <1>4 DEF ProofInv, StoredUntilClosed, Fresh
<1>8. HealthNotOverstated'
  BY <1>1 DEF ProofInv, HealthNotOverstated
<1> QED
  BY <1>2, <1>3, <1>5, <1>6, <1>7, <1>8 DEF ProofInv

LEMMA MoveStep ==
  ASSUME ProofInv,
         Probe \/ Notify \/ TickerFires \/ SelectCollect \/ SelectPersist \/ SelectDone
  PROVE  ProofInv'
<1>1. After.probing = "adding" /\ After.notifying = "select"
  BY DEF After
<1>2. tickers \subseteq {"collect", "persist"} /\ run \in Runs
  BY DEF ProofInv, ProcessInv
<1>3. Persisted \in {redis, Purge(redis)}
  BY DEF Persisted
<1>4. CASE Probe \/ Notify
  <2>1. /\ \/ run = "probing" /\ run' = "adding"
           \/ run = "notifying" /\ run' = "select"
        /\ UNCHANGED <<clock, tickers, sample, added, history, lastNet, latest, redis,
                        processVars, clientVars>>
    BY <1>1, <1>4 DEF Probe, Notify, CollectorStep
  <2> QED
    BY <1>2, <2>1, CollectorMoves DEF Runs, Busy
<1>5. CASE TickerFires
  <2>1. /\ run # "none" /\ run' = run /\ tickers' \subseteq {"collect", "persist"}
        /\ UNCHANGED <<clock, sample, added, history, lastNet, latest, redis,
                        processVars, clientVars>>
    BY <1>2, <1>5 DEF TickerFires
  <2> QED
    BY <1>2, <2>1, CollectorMoves
<1>6. CASE SelectCollect
  <2>1. /\ run = "select" /\ run' = "start" /\ tickers' \subseteq {"collect", "persist"}
        /\ UNCHANGED <<clock, sample, added, history, lastNet, latest, redis,
                        processVars, clientVars>>
    BY <1>2, <1>6 DEF SelectCollect
  <2> QED
    BY <2>1, CollectorMoves DEF Runs, Busy
<1>7. CASE SelectPersist \/ SelectDone
  <2>1. /\ run = "select" /\ run' \in {"select", "done"} /\ redis' = Persisted
        /\ tickers' \subseteq {"collect", "persist"}
        /\ UNCHANGED <<clock, sample, added, history, lastNet, latest, processVars, clientVars>>
    BY <1>2, <1>7 DEF SelectPersist, SelectDone
  <2>2. run' \in Runs \ {"none"} /\ run' \notin Busy /\ run \notin Busy /\ run # "none"
    BY <2>1 DEF Runs, Busy
  <2> QED
    BY <1>3, <2>1, <2>2, CollectorMoves
<1> QED
  BY <1>4, <1>5, <1>6, <1>7

LEMMA BeginStep ==
  ASSUME ProofInv, BeginCollect
  PROVE  ProofInv'
<1>1. /\ run = "start" /\ clock > sample.ts /\ run' = "probing"
      /\ sample' = [ts |-> clock, rated |-> FALSE]
      /\ UNCHANGED <<clock, tickers, added, history, lastNet, latest, redis, starts, main,
                      cancelled, open, request, answer>>
  BY DEF BeginCollect, processVars, clientVars
<1>2. /\ clock \in Nat /\ added.ts = sample.ts /\ run \notin {"none", "writing"}
      /\ sample' \in Samples /\ sample'.ts = clock /\ main # "off"
  BY <1>1 DEF ProofInv, ProcessInv, SamplesInv, Samples, Busy
<1>3. ProcessInv' /\ FlagsInv'
  BY <1>1, <1>2 DEF ProofInv, ProcessInv, FlagsInv, Runs, Busy
<1>4. SamplesInv'
  BY <1>1, <1>2 DEF ProofInv, SamplesInv, Busy
<1>5. StoresInv'
  BY <1>1, <1>2 DEF ProofInv, StoresInv
<1>6. ClientsInv'
  BY <1>1 DEF ProofInv, ClientsInv, Charted
<1>7. StoredUntilClosed' /\ HealthNotOverstated'
  BY <1>1, <1>2 DEF ProofInv, StoredUntilClosed, HealthNotOverstated, Fresh
<1> QED
  BY <1>3, <1>4, <1>5, <1>6, <1>7 DEF ProofInv

\* What Add does to the points in memory.
LEMMA AddFacts ==
  ASSUME ProofInv, AddToMemory
  PROVE  /\ added' \in Samples /\ added'.ts = sample.ts
         /\ history' \in Seq(Samples) /\ InOrder(history')
         /\ \A i \in 1..Len(history') :
              /\ Fresh(history'[i])
              /\ history'[i] = added' \/ \E j \in 1..Len(history) : history'[i] = history[j]
         /\ Fresh(added') => \E i \in 1..Len(history') : history'[i] = added'
         /\ \A j \in 1..Len(history) :
              Fresh(history[j]) => \E i \in 1..Len(history') : history'[i] = history[j]
<1> DEFINE n == Len(history)
           s == Append(history, added')
<1>1. /\ run = "adding" /\ added' = [sample EXCEPT !.rated = lastNet # 0 /\ sample.ts > lastNet]
      /\ history' = Trim(s)
  BY DEF AddToMemory, CollectorStep
<1>2. /\ clock \in Nat /\ sample \in Samples /\ sample.ts \in Nat
      /\ history \in Seq(Samples) /\ n \in Nat /\ InOrder(history)
      /\ \A i \in 1..n : history[i] \in Samples /\ history[i].ts <= sample.ts
  BY <1>1, ElementOfSeq, LenProperties, SamplesHaveTimes
  DEF ProofInv, SamplesInv, StoresInv, InOrder, Busy
<1>3. added' \in Samples /\ added'.ts = sample.ts
  <2> DEFINE b == lastNet # 0 /\ sample.ts > lastNet
  <2>1. b \in BOOLEAN
    OBVIOUS
  <2>2. added' = [sample EXCEPT !.rated = b]
    BY <1>1
  <2> HIDE DEF b
  <2> QED
    BY <1>2, <2>1, <2>2 DEF Samples
<1> HIDE DEF n
<1>4. /\ s \in Seq(Samples) /\ Len(s) = n + 1 /\ s[n + 1] = added'
      /\ \A i \in 1..n : s[i] = history[i]
  BY <1>2, <1>3, AppendProperties DEF n
<1> HIDE DEF s
<1>5. InOrder(s)
  <2> SUFFICES ASSUME NEW i \in 1..(n + 1), NEW j \in 1..(n + 1), i < j
               PROVE  s[i].ts <= s[j].ts
    BY <1>4 DEF InOrder
  <2>1. i \in 1..n /\ (j \in 1..n \/ j = n + 1)
    BY <1>2
  <2>2. history[i].ts <= sample.ts /\ (j \in 1..n => history[i].ts <= history[j].ts)
    BY <1>2, <2>1 DEF InOrder, n
  <2> QED
    BY <1>3, <1>4, <2>1, <2>2
<1>6. /\ history' \in Seq(Samples) /\ InOrder(history')
      /\ \A i \in 1..Len(history') :
           Fresh(history'[i]) /\ \E j \in 1..(n + 1) : history'[i] = s[j]
      /\ \A j \in 1..(n + 1) :
           Fresh(s[j]) => \E i \in 1..Len(history') : history'[i] = s[j]
  <2>1. clock \in Nat /\ s \in Seq(Samples) /\ InOrder(s)
    BY <1>2, <1>4, <1>5
  <2>2. /\ Trim(s) \in Seq(Samples) /\ InOrder(Trim(s))
        /\ \A i \in 1..Len(Trim(s)) :
             Fresh(Trim(s)[i]) /\ \E j \in 1..Len(s) : Trim(s)[i] = s[j]
        /\ \A j \in 1..Len(s) :
             Fresh(s[j]) => \E i \in 1..Len(Trim(s)) : Trim(s)[i] = s[j]
    BY <2>1, TrimKeeps
  <2>3. Len(s) = n + 1 /\ history' = Trim(s)
    BY <1>1, <1>4
  <2> HIDE DEF InOrder
  <2> QED
    BY <2>2, <2>3
<1>7. \A j \in 1..(n + 1) : j \in 1..n \/ j = n + 1
  BY <1>2
<1>8. n + 1 \in 1..(n + 1) /\ \A j \in 1..n : j \in 1..(n + 1)
  BY <1>2
<1>9. \A i \in 1..Len(history') :
        history'[i] = added' \/ \E j \in 1..n : history'[i] = history[j]
  <2> SUFFICES ASSUME NEW i \in 1..Len(history')
               PROVE  history'[i] = added' \/ \E j \in 1..n : history'[i] = history[j]
    OBVIOUS
  <2>1. PICK j \in 1..(n + 1) : history'[i] = s[j]
    BY <1>6
  <2> QED
    BY <1>4, <1>7, <2>1
<1>10. /\ Fresh(added') => \E i \in 1..Len(history') : history'[i] = added'
       /\ \A j \in 1..n :
            Fresh(history[j]) => \E i \in 1..Len(history') : history'[i] = history[j]
  BY <1>4, <1>6, <1>8
<1> QED
  BY <1>3, <1>6, <1>9, <1>10 DEF n

LEMMA AddStep ==
  ASSUME ProofInv, AddToMemory
  PROVE  ProofInv'
<1>1. /\ run = "adding" /\ run' = "writing" /\ lastNet' = sample.ts
      /\ UNCHANGED <<clock, tickers, sample, latest, redis, starts, main, cancelled, open,
                      request, answer>>
  BY DEF AddToMemory, CollectorStep, After, processVars, clientVars
<1>2. /\ clock \in Nat /\ sample.ts \in Nat /\ added.ts \in Nat /\ latest.ts \in Nat
      /\ sample.ts <= clock /\ added.ts < sample.ts /\ latest.ts <= added.ts
      /\ Retention \in Nat /\ main # "off"
  BY <1>1, SamplesHaveTimes, MogotorAssumption DEF ProofInv, ProcessInv, SamplesInv, Busy
<1>3. /\ added' \in Samples /\ added'.ts = sample.ts
      /\ history' \in Seq(Samples) /\ InOrder(history')
      /\ \A i \in 1..Len(history') :
           history'[i] = added' \/ \E j \in 1..Len(history) : history'[i] = history[j]
      /\ Fresh(added') => \E i \in 1..Len(history') : history'[i] = added'
      /\ \A j \in 1..Len(history) :
           Fresh(history[j]) => \E i \in 1..Len(history') : history'[i] = history[j]
  BY AddFacts
<1>4. ProcessInv' /\ FlagsInv'
  BY <1>1, <1>2 DEF ProofInv, ProcessInv, FlagsInv, Runs
<1>5. SamplesInv'
  BY <1>1, <1>2, <1>3 DEF ProofInv, SamplesInv, Busy
<1>6. StoresInv'
  <2>1. \A i \in 1..Len(history') : 1 <= history'[i].ts /\ history'[i].ts <= clock
    <3> SUFFICES ASSUME NEW i \in 1..Len(history')
                 PROVE  1 <= history'[i].ts /\ history'[i].ts <= clock
      OBVIOUS
    <3>1. CASE history'[i] = added'
      BY <1>2, <1>3, <3>1
    <3>2. CASE \E j \in 1..Len(history) : history'[i] = history[j]
      BY <3>2 DEF ProofInv, StoresInv
    <3> QED
      BY <1>3, <3>1, <3>2
  <2>2. redis \subseteq Samples /\ IsFiniteSet(redis) /\ \A p \in redis : 1 <= p.ts /\ p.ts <= clock
    BY DEF ProofInv, StoresInv
  <2>3. run' \notin Busy
    BY <1>1 DEF Busy
  <2>4. \A i, j \in 1..Len(history') : i < j => history'[i].ts <= history'[j].ts
    BY <1>3 DEF InOrder
  <2> QED
    BY <1>1, <1>3, <2>1, <2>2, <2>3, <2>4 DEF StoresInv
<1>7. ASSUME NEW t \in Nat, Charted(t) PROVE Charted(t)'
  <2>1. CASE t = 0 \/ t < clock - Retention
    BY <1>1, <2>1 DEF Charted
  <2>2. CASE \E j \in 1..Len(history) : history[j].ts = t
    <3>1. PICK j \in 1..Len(history) : history[j].ts = t
      BY <2>2
    <3>2. CASE Fresh(history[j])
      <4>1. PICK i \in 1..Len(history') : history'[i] = history[j]
        BY <1>3, <3>2
      <4> QED
        BY <3>1, <4>1 DEF Charted
    <3>3. CASE ~Fresh(history[j])
      BY <1>1, <1>2, <3>1, <3>3 DEF Charted, Fresh
    <3> QED
      BY <3>2, <3>3
  <2> QED
    BY <1>7, <2>1, <2>2 DEF Charted
<1>8. Charted(added.ts)'
  <2>1. CASE Fresh(added')
    <3>1. PICK i \in 1..Len(history') : history'[i] = added'
      BY <1>3, <2>1
    <3> QED
      BY <3>1 DEF Charted
  <2>2. CASE ~Fresh(added')
    BY <1>1, <1>2, <1>3, <2>2 DEF Charted, Fresh
  <2> QED
    BY <2>1, <2>2
<1>9. ClientsInv'
  <2>1. Charted(latest.ts)'
    BY <1>1, <1>2, <1>7 DEF ProofInv, ClientsInv
  <2>2. ASSUME NEW c \in Clients, answer[c].kind = "snapshot"
        PROVE  answer[c].ts \in Nat /\ Charted(answer[c].ts)'
    BY <1>1, <1>7, <2>2 DEF ProofInv, ClientsInv
  <2> QED
    BY <1>1, <1>2, <1>8, <2>1, <2>2 DEF ProofInv, ClientsInv
<1>10. StoredUntilClosed'
  <2> SUFFICES ASSUME open, NEW i \in 1..Len(history'), Fresh(history'[i])
               PROVE  \/ history'[i] \in redis
                      \/ history'[i] = added'
                      \/ history'[i].ts = clock - Retention
    BY <1>1 DEF StoredUntilClosed, Fresh
  <2>1. CASE \E j \in 1..Len(history) : history'[i] = history[j]
    BY <1>1, <2>1 DEF ProofInv, StoredUntilClosed
  <2> QED
    BY <1>3, <2>1
<1>11. HealthNotOverstated'
  BY <1>1 DEF ProofInv, HealthNotOverstated
<1> QED
  BY <1>4, <1>5, <1>6, <1>9, <1>10, <1>11 DEF ProofInv

LEMMA WriteStep ==
  ASSUME ProofInv, AddToRedis
  PROVE  ProofInv'
<1>1. /\ run = "writing" /\ run' = "setting"
      /\ redis' = IF open THEN Purge(redis \cup {added}) ELSE redis
      /\ UNCHANGED <<clock, tickers, sample, added, history, lastNet, latest, starts, main,
                      cancelled, open, request, answer>>
  BY DEF AddToRedis, CollectorStep, After, processVars, clientVars
<1>2. /\ clock \in Nat /\ added \in Samples /\ added.ts <= clock
      /\ redis \cup {added} \subseteq Samples /\ IsFiniteSet(redis \cup {added})
  BY <1>1, FS_AddElement DEF ProofInv, SamplesInv, StoresInv, Busy
<1>3. ProcessInv' /\ FlagsInv'
  BY <1>1 DEF ProofInv, ProcessInv, FlagsInv, Runs
<1>4. SamplesInv'
  BY <1>1 DEF ProofInv, SamplesInv, Busy
<1>5. /\ redis' \subseteq redis \cup {added} /\ IsFiniteSet(redis')
      /\ open => \A p \in redis \cup {added} :
                   Fresh(p) => p \in redis' \/ p.ts = clock - Retention
  <2>1. CASE open
    BY <1>1, <1>2, <2>1, PurgeFacts
  <2>2. CASE ~open
    BY <1>1, <2>2 DEF ProofInv, StoresInv
  <2> QED
    BY <2>1, <2>2
<1>6. StoresInv'
  <2>1. \A p \in redis \cup {added} : p \in Samples /\ 1 <= p.ts /\ p.ts <= clock
    BY <1>1, <1>2 DEF ProofInv, SamplesInv, StoresInv
  <2> QED
    BY <1>1, <1>5, <2>1 DEF ProofInv, StoresInv, Busy
<1>7. ClientsInv'
  BY <1>1 DEF ProofInv, ClientsInv, Charted
<1>8. StoredUntilClosed'
  <2> SUFFICES ASSUME open, NEW i \in 1..Len(history), Fresh(history[i])
               PROVE  history[i] \in redis' \/ history[i].ts = clock - Retention
    BY <1>1 DEF StoredUntilClosed, Fresh
  <2>1. history[i] \in redis \cup {added} \/ history[i].ts = clock - Retention
    BY <1>1 DEF ProofInv, StoredUntilClosed
  <2> QED
    BY <1>5, <2>1
<1>9. HealthNotOverstated'
  BY <1>1 DEF ProofInv, HealthNotOverstated
<1> QED
  BY <1>3, <1>4, <1>6, <1>7, <1>8, <1>9 DEF ProofInv

LEMMA SetStep ==
  ASSUME ProofInv, SetLatest
  PROVE  ProofInv'
<1>1. /\ run = "setting" /\ run' = "notifying" /\ latest' = sample
      /\ UNCHANGED <<clock, tickers, sample, added, history, lastNet, redis, starts, main,
                      cancelled, open, request, answer>>
  BY DEF SetLatest, CollectorStep, After, processVars, clientVars
<1>2. /\ sample \in Samples /\ added.ts = sample.ts /\ latest.ts <= sample.ts
      /\ latest.ts \in Nat /\ sample.ts \in Nat /\ main # "off"
  BY <1>1, SamplesHaveTimes DEF ProofInv, ProcessInv, SamplesInv, Busy
<1>3. ProcessInv' /\ FlagsInv'
  BY <1>1, <1>2 DEF ProofInv, ProcessInv, FlagsInv, Runs
<1>4. SamplesInv'
  BY <1>1, <1>2 DEF ProofInv, SamplesInv, Busy
<1>5. StoresInv'
  BY <1>1 DEF ProofInv, StoresInv, Busy
<1>6. ClientsInv'
  BY <1>1, <1>2 DEF ProofInv, ClientsInv, Charted
<1>7. StoredUntilClosed'
  BY <1>1 DEF ProofInv, StoredUntilClosed, Fresh
<1>8. HealthNotOverstated'
  BY <1>1 DEF ProofInv, HealthNotOverstated
<1> QED
  BY <1>3, <1>4, <1>5, <1>6, <1>7, <1>8 DEF ProofInv

\* A handler changes only what its client asks and was answered.
LEMMA HandlerMoves ==
  ASSUME ProofInv, ClientsInv', HealthNotOverstated',
         UNCHANGED <<clock, processVars, collectorVars>>
  PROVE  ProofInv'
<1>1. UNCHANGED <<clock, starts, main, cancelled, open, run, tickers, sample, added, history,
                  lastNet, latest, redis>>
  BY DEF processVars, collectorVars
<1>2. ProcessInv' /\ FlagsInv' /\ SamplesInv'
  BY <1>1 DEF ProofInv, ProcessInv, FlagsInv, SamplesInv
<1>3. StoresInv' /\ StoredUntilClosed'
  BY <1>1 DEF ProofInv, StoresInv, StoredUntilClosed, Fresh
<1> QED
  BY <1>2, <1>3 DEF ProofInv

\* The three answers, and the two questions that wait for theirs.
LEMMA AskStep ==
  ASSUME ProofInv, NEW c \in Clients, AskHistory(c) \/ AskHealth(c)
  PROVE  ProofInv'
<1>1. PICK r : /\ main = "serving" /\ request' = [request EXCEPT ![c] = r]
               /\ UNCHANGED <<clock, answer, processVars, collectorVars>>
               /\ r.kind = "health" => r.last = latest.ts
  <2>1. CASE AskHistory(c)
    <3> DEFINE r == [kind |-> "history", from |-> clock - Retention]
    <3>1. Ask(c, r) /\ r.kind # "health"
      BY <2>1 DEF AskHistory
    <3> HIDE DEF r
    <3> QED
      BY <3>1 DEF Ask
  <2>2. CASE AskHealth(c)
    <3> DEFINE r == [kind |-> "health", last |-> latest.ts, age |-> Age(latest)]
    <3>1. Ask(c, r) /\ r.last = latest.ts
      BY <2>2 DEF AskHealth
    <3> HIDE DEF r
    <3> QED
      BY <3>1 DEF Ask
  <2> QED
    BY <2>1, <2>2
<1>2. UNCHANGED <<clock, main, answer, history, latest, added>>
  BY <1>1 DEF processVars, collectorVars
<1>3. latest.ts \in Nat
  BY SamplesHaveTimes DEF ProofInv, SamplesInv
<1>4. /\ DOMAIN request' = Clients
      /\ \A d \in Clients : request'[d].kind = "health" =>
           request'[d].last \in Nat /\ request'[d].last <= latest.ts
  BY <1>1, <1>3 DEF ProofInv, ClientsInv
<1>5. ClientsInv'
  BY <1>1, <1>2, <1>4 DEF ProofInv, ClientsInv, Charted
<1>6. HealthNotOverstated'
  BY <1>2 DEF ProofInv, HealthNotOverstated
<1> QED
  BY <1>1, <1>5, <1>6, HandlerMoves

LEMMA AnswerStep ==
  ASSUME ProofInv, NEW c \in Clients, GetSnapshot(c) \/ AnswerHistory(c) \/ AnswerHealth(c)
  PROVE  ProofInv'
<1>1. PICK a : /\ Answer(c, a)
               /\ a.kind = "snapshot" => a.ts = latest.ts
               /\ a.kind = "health" => a.says.age <= a.at - a.says.last
  <2>1. CASE GetSnapshot(c)
    BY <2>1 DEF GetSnapshot
  <2>2. CASE AnswerHistory(c)
    BY <2>2 DEF AnswerHistory
  <2>3. CASE AnswerHealth(c)
    <3> DEFINE h == [last |-> request[c].last, age |-> Age(latest)]
    <3>1. Answer(c, [kind |-> "health", at |-> clock, says |-> h]) /\ request[c].kind = "health"
      BY <2>3 DEF AnswerHealth, HealthOf
    <3>2. /\ request[c].last \in Nat /\ request[c].last <= latest.ts
          /\ latest.ts \in Nat /\ clock \in Nat
      BY <3>1, SamplesHaveTimes DEF ProofInv, SamplesInv, ClientsInv
    <3>3. latest.ts <= clock
      <4>1. added.ts \in Nat /\ sample.ts \in Nat
        BY SamplesHaveTimes DEF ProofInv, SamplesInv
      <4> QED
        BY <3>2, <4>1 DEF ProofInv, SamplesInv
    <3>4. Age(latest) <= clock - request[c].last
      BY <3>2, <3>3 DEF Age
    <3> QED
      BY <3>1, <3>4
  <2> QED
    BY <2>1, <2>2, <2>3
<1>2. /\ answer' = [answer EXCEPT ![c] = a] /\ request' = [request EXCEPT ![c] = Idle]
      /\ UNCHANGED <<clock, processVars, collectorVars>>
  BY <1>1 DEF Answer
<1>3. UNCHANGED <<clock, main, history, latest, added>>
  BY <1>2 DEF processVars, collectorVars
<1>4. latest.ts \in Nat /\ Idle.kind = "none"
  BY SamplesHaveTimes DEF ProofInv, SamplesInv, Idle
<1>5. main # "off"
  <2>1. main = "off" => request[c].kind = "none"
    BY DEF ProofInv, ClientsInv, Idle
  <2> QED
    BY <2>1 DEF GetSnapshot, AnswerHistory, AnswerHealth
<1>6. \A d \in Clients : request'[d].kind = "health" =>
        request'[d].last \in Nat /\ request'[d].last <= latest.ts
  BY <1>2, <1>4 DEF ProofInv, ClientsInv
<1>7. \A d \in Clients : answer'[d].kind = "snapshot" =>
        answer'[d].ts \in Nat /\ Charted(answer'[d].ts)
  BY <1>1, <1>2, <1>4 DEF ProofInv, ClientsInv
<1>8. ClientsInv'
  BY <1>2, <1>3, <1>5, <1>6, <1>7 DEF ProofInv, ClientsInv, Charted
<1>9. HealthNotOverstated'
  BY <1>1, <1>2 DEF ProofInv, ClientsInv, HealthNotOverstated
<1> QED
  BY <1>2, <1>8, <1>9, HandlerMoves

LEMMA ProofStep ==
  ASSUME ProofInv, [Next]_vars
  PROVE  ProofInv'
<1>1. CASE Tick
  BY <1>1, TickStep
<1>2. CASE MainStep
  BY <1>2, StartStep, StopStep, GoneStep DEF MainStep, Exit, Die
<1>3. CASE TickerFires
  BY <1>3, MoveStep
<1>4. CASE CollectorNext
  BY <1>4, BeginStep, MoveStep, AddStep, WriteStep, SetStep DEF CollectorNext
<1>5. CASE HandlerNext
  BY <1>5, AskStep, AnswerStep DEF HandlerNext
<1>6. CASE UNCHANGED vars
  <2>1. UNCHANGED <<clock, processVars, collectorVars, clientVars>>
    BY <1>6 DEF vars, processVars, collectorVars, clientVars
  <2>2. UNCHANGED <<clock, main, history, latest, added, request, answer>>
    BY <2>1 DEF processVars, collectorVars, clientVars
  <2>3. ClientsInv' /\ HealthNotOverstated'
    BY <2>2 DEF ProofInv, ClientsInv, Charted, HealthNotOverstated
  <2> QED
    BY <2>1, <2>3, HandlerMoves
<1> QED
  BY <1>1, <1>2, <1>3, <1>4, <1>5, <1>6 DEF Next

\* What each goroutine may find, in every reachable state.
LEMMA ProofInvariance == Spec => []ProofInv
<1>1. Init => ProofInv
  <2> SUFFICES ASSUME Init PROVE ProofInv
    OBVIOUS
  <2>1. /\ clock = 1 /\ starts = 0 /\ main = "off" /\ run = "none" /\ cancelled = FALSE
        /\ tickers = {} /\ sample = Zero /\ added = Zero /\ history = <<>> /\ lastNet = 0
        /\ latest = Zero /\ redis = {} /\ open = FALSE
        /\ DOMAIN request = Clients /\ DOMAIN answer = Clients
        /\ \A c \in Clients : request[c] = Idle /\ answer[c] = NoAnswer
    BY DEF Init
  <2>2. Idle.kind = "none" /\ NoAnswer.kind = "none"
    BY DEF Idle, NoAnswer
  <2>3. ProcessInv /\ FlagsInv
    BY <2>1 DEF ProcessInv, FlagsInv, Mains, Runs
  <2>4. SamplesInv
    BY <2>1, ZeroIsSample DEF SamplesInv, Busy
  <2>5. StoresInv
    BY <2>1, EmptySeq, FS_EmptySet DEF StoresInv
  <2>6. ClientsInv
    BY <2>1, <2>2, ZeroIsSample DEF ClientsInv, Charted
  <2>7. StoredUntilClosed /\ HealthNotOverstated
    BY <2>1, <2>2 DEF StoredUntilClosed, HealthNotOverstated
  <2> QED
    BY <2>3, <2>4, <2>5, <2>6, <2>7 DEF ProofInv
<1>2. ProofInv /\ [Next]_vars => ProofInv'
  BY ProofStep
<1> QED
  BY <1>1, <1>2, PTL DEF Spec

-----------------------------------------------------------------------------
\* The stores hold samples, and each goroutine is where its code can be (main, Run,
\* collect, the handlers).
THEOREM ProcessIsTyped == Spec => []TypeOK
<1>1. ProofInv => TypeOK
  <2> SUFFICES ASSUME ProofInv PROVE TypeOK
    OBVIOUS
  <2>1. DOMAIN After = {"probing", "adding", "writing", "setting", "notifying"}
    BY DEF After
  <2>2. run \in {"none", "start", "select", "done"} \cup DOMAIN After
    BY <2>1 DEF ProofInv, ProcessInv, Runs, Busy
  <2>3. cancelled \in BOOLEAN /\ open \in BOOLEAN
    BY DEF ProofInv, FlagsInv
  <2>4. /\ main \in {"off", "serving", "stopping", "closing", "exiting"}
        /\ starts \in Nat /\ tickers \subseteq {"collect", "persist"}
    BY DEF ProofInv, ProcessInv, Mains
  <2>5. /\ clock \in Nat /\ {sample, added, latest} \subseteq Samples /\ lastNet \in Nat
        /\ history \in Seq(Samples) /\ redis \subseteq Samples
        /\ DOMAIN request = Clients /\ DOMAIN answer = Clients
    BY DEF ProofInv, SamplesInv, StoresInv, ClientsInv
  <2> QED
    BY <2>2, <2>3, <2>4, <2>5 DEF TypeOK
<1> QED
  BY <1>1, ProofInvariance, PTL

\* Until main closes the Redis client, only the sample in the collector's hands is
\* missing from Redis (History.Add, Persist and Load against Signal and crash).
THEOREM StopLosesOneSample == Spec => []StoredUntilClosed
<1>1. ProofInv => StoredUntilClosed
  BY DEF ProofInv
<1> QED
  BY <1>1, ProofInvariance, PTL

\* /api/health never claims an age above that of the sample it names (handleHealth
\* against Latest.Set).
THEOREM HealthIsHonest == Spec => []HealthNotOverstated
<1>1. ProofInv => HealthNotOverstated
  BY DEF ProofInv
<1> QED
  BY <1>1, ProofInvariance, PTL

\* A history asked for after a snapshot has the sample of that snapshot, or it has
\* left the window (collect adds to History before it sets Latest).
THEOREM ChartHasTheCard == Spec => ChartShowsCard
<1> DEFINE Shows(c) ==
      (answer[c].kind = "snapshot" /\ answer'[c].kind = "history") =>
        \/ answer[c].ts = 0
        \/ \E p \in answer'[c].points : p.ts = answer[c].ts
        \/ answer[c].ts < clock - Retention
<1>1. ASSUME ProofInv, [Next]_vars, NEW c \in Clients, answer[c].kind = "snapshot",
             answer'[c].kind = "history"
      PROVE  Shows(c)
  <2>1. AnswerHistory(c)
    <3>1. UNCHANGED answer \/ Gone \/ \E d \in Clients :
                 GetSnapshot(d) \/ AnswerHistory(d) \/ AnswerHealth(d)
      BY <1>1 DEF Next, Tick, MainStep, Start, Signal, ShutdownReturns, CloseRedis, Exit, Die,
        TickerFires, CollectorNext, BeginCollect, Probe, AddToMemory, AddToRedis, SetLatest,
        Notify, CollectorStep, SelectCollect, SelectPersist, SelectDone, HandlerNext,
        AskHistory, AskHealth, Ask, clientVars, vars
    <3>2. ~UNCHANGED answer
      BY <1>1
    <3>3. ~Gone
      BY <1>1 DEF Gone, NoAnswer
    <3>4. PICK d \in Clients : GetSnapshot(d) \/ AnswerHistory(d) \/ AnswerHealth(d)
      BY <3>1, <3>2, <3>3
    <3>5. PICK a : Answer(d, a) /\ (a.kind = "history" => AnswerHistory(d))
      BY <3>4 DEF GetSnapshot, AnswerHistory, AnswerHealth
    <3>6. answer' = [answer EXCEPT ![d] = a] /\ DOMAIN answer = Clients
      BY <1>1, <3>5 DEF Answer, ProofInv, ClientsInv
    <3>7. d = c
      BY <1>1, <3>6
    <3> QED
      BY <1>1, <3>5, <3>6, <3>7
  <2>2. answer'[c].points = ToSet(history)
    BY <1>1, <2>1 DEF AnswerHistory, Answer, ProofInv, ClientsInv
  <2>3. Charted(answer[c].ts)
    BY <1>1 DEF ProofInv, ClientsInv
  <2>4. \A i \in 1..Len(history) : history[i] \in ToSet(history)
    BY LenProperties DEF ProofInv, StoresInv, ToSet
  <2> QED
    BY <1>1, <2>2, <2>3, <2>4 DEF Charted
<1>2. ProofInv /\ [Next]_vars => [\A c \in Clients : Shows(c)]_vars
  BY <1>1
<1> QED
  BY <1>2, ProofInvariance, PTL DEF Spec, ChartShowsCard

-----------------------------------------------------------------------------
(* The process implements the feed of samples *)

PageState == IF main = "serving" THEN "up" ELSE IF main = "off" THEN "off" ELSE "stopping"
Chart == {history[i].ts : i \in DOMAIN history}
FeedState == <<clock, starts, PageState, Chart, added.ts, latest.ts>>

LEMMA ChartTimes ==
  ASSUME NEW s \in Seq(Samples)
  PROVE  {s[i].ts : i \in DOMAIN s} = {s[i].ts : i \in 1..Len(s)}
  BY LenProperties

LEMMA StartLaunches ==
  ASSUME ProofInv, ProofInv', Start
  PROVE  Feed!Launch
<1>1. /\ main = "off" /\ main' = "serving" /\ starts < MaxStarts /\ starts' = starts + 1
      /\ added' = Zero /\ latest' = Zero /\ clock' = clock
  BY DEF Start
<1>2. added = Zero /\ latest = Zero
  BY <1>1 DEF ProofInv, ProcessInv
<1>3. clock \in Nat /\ redis \subseteq Samples /\ IsFiniteSet(redis)
  BY DEF ProofInv, SamplesInv, StoresInv
<1>4. PICK s \in Loaded(redis) \cup {<<>>} : history' = Trim(s)
  BY DEF Start
<1>5. s \in Seq(Samples) /\ InOrder(s)
  <2>1. CASE s = <<>>
    BY <2>1, EmptySeq DEF InOrder
  <2>2. CASE s \in Loaded(redis)
    BY <1>3, <2>2, LoadedFacts
  <2> QED
    BY <1>4, <2>1, <2>2
<1>6. \A i \in 1..Len(history') : Fresh(history'[i])
  BY <1>3, <1>4, <1>5, TrimKeeps
<1>7. /\ history' \in Seq(Samples)
      /\ \A i \in 1..Len(history') : 1 <= history'[i].ts /\ history'[i].ts <= clock
  BY <1>1 DEF ProofInv, StoresInv
<1>8. \A i \in 1..Len(history') :
        history'[i].ts \in 1..clock /\ history'[i].ts >= clock - Retention
  BY <1>3, <1>6, <1>7, ElementOfSeq, SamplesHaveTimes DEF Fresh
<1>9. Chart' \in SUBSET {t \in 1..clock : t >= clock - Retention}
  BY <1>7, <1>8, ChartTimes DEF Chart
<1> QED
  BY <1>1, <1>2, <1>9 DEF Feed!Launch, Feed!Kept, Chart

LEMMA AddTakes ==
  ASSUME ProofInv, ProofInv', AddToMemory
  PROVE  \E t \in (added.ts + 1)..clock : Feed!TakeSample(t)
<1>1. /\ run = "adding"
      /\ UNCHANGED <<clock, starts, main, latest>>
  BY DEF AddToMemory, CollectorStep, processVars
<1>2. /\ clock \in Nat /\ sample.ts \in Nat /\ added.ts \in Nat /\ Retention \in Nat
      /\ sample.ts <= clock /\ added.ts < sample.ts /\ main # "off"
  BY <1>1, SamplesHaveTimes, MogotorAssumption DEF ProofInv, ProcessInv, SamplesInv, Busy
<1>3. /\ history \in Seq(Samples) /\ history' \in Seq(Samples)
      /\ \A i \in 1..Len(history) : history[i].ts <= sample.ts
  BY <1>1 DEF ProofInv, StoresInv, Busy
<1>4. /\ added'.ts = sample.ts
      /\ \A i \in 1..Len(history') :
           /\ Fresh(history'[i])
           /\ history'[i] = added' \/ \E j \in 1..Len(history) : history'[i] = history[j]
      /\ Fresh(added') => \E i \in 1..Len(history') : history'[i] = added'
      /\ \A j \in 1..Len(history) :
           Fresh(history[j]) => \E i \in 1..Len(history') : history'[i] = history[j]
  BY AddFacts
<1>5. \A p \in Chart : p <= sample.ts
  BY <1>3, ChartTimes DEF Chart
<1>6. Chart' = {p \in Chart \cup {sample.ts} : p >= clock - Retention}
  <2>1. /\ Chart = {history[i].ts : i \in 1..Len(history)}
        /\ Chart' = {history'[i].ts : i \in 1..Len(history')}
    BY <1>3, ChartTimes DEF Chart
  <2>2. ASSUME NEW p \in Chart'
        PROVE  p \in Chart \cup {sample.ts} /\ p >= clock - Retention
    BY <1>4, <2>1 DEF Fresh
  <2>3. ASSUME NEW p \in Chart, p >= clock - Retention PROVE p \in Chart'
    <3>1. PICK j \in 1..Len(history) : history[j].ts = p
      BY <2>1
    <3>2. PICK i \in 1..Len(history') : history'[i] = history[j]
      BY <1>4, <2>3, <3>1 DEF Fresh
    <3> QED
      BY <2>1, <3>1, <3>2
  <2>4. ASSUME sample.ts >= clock - Retention PROVE sample.ts \in Chart'
    <3>1. PICK i \in 1..Len(history') : history'[i] = added'
      BY <1>4, <2>4 DEF Fresh
    <3> QED
      BY <1>4, <2>1, <3>1
  <2> QED
    BY <2>2, <2>3, <2>4
<1>7. sample.ts \in (added.ts + 1)..clock
  BY <1>2
<1>8. added'.ts = sample.ts
  BY <1>4
<1> QED
  BY <1>1, <1>2, <1>5, <1>6, <1>7, <1>8, Zenon DEF Feed!TakeSample, Feed!Kept, Chart

\* Every step of the process is a step of the feed, or none of the page's business.
LEMMA StepFeeds ==
  ASSUME ProofInv, ProofInv', [Next]_vars
  PROVE  [Feed!FeedNext]_FeedState
<1> USE DEF FeedState
<1>1. CASE Tick
  <2>1. clock < MaxTime /\ clock' = clock + 1 /\ UNCHANGED <<starts, main, history, added, latest>>
    BY <1>1 DEF Tick, processVars, collectorVars
  <2>2. Feed!Pass
    BY <2>1 DEF Feed!Pass
  <2> QED
    BY <2>2 DEF Feed!FeedNext
<1>2. CASE Start
  BY <1>2, StartLaunches DEF Feed!FeedNext
<1>3. CASE Signal
  <2>1. main = "serving" /\ main' = "stopping" /\ UNCHANGED <<clock, starts, history, added, latest>>
    BY <1>3 DEF Signal, collectorVars
  <2>2. Feed!Stop
    BY <2>1 DEF Feed!Stop
  <2> QED
    BY <2>2 DEF Feed!FeedNext
<1>4. CASE ShutdownReturns \/ CloseRedis
  BY <1>4 DEF ShutdownReturns, CloseRedis, collectorVars, PageState, Chart
<1>5. CASE Exit \/ Die
  <2>1. /\ main # "off" /\ main' = "off" /\ history' = <<>> /\ added' = Zero /\ latest' = Zero
        /\ UNCHANGED <<clock, starts>>
    BY <1>5 DEF Exit, Die, Gone
  <2>2. Chart' = {}
    BY <2>1 DEF Chart
  <2>3. Feed!End
    BY <2>1, <2>2, ZeroIsSample DEF Feed!End, Chart
  <2> QED
    BY <2>3 DEF Feed!FeedNext
<1>6. CASE AddToMemory
  BY <1>6, AddTakes DEF Feed!FeedNext
<1>7. CASE SetLatest
  <2>1. /\ run = "setting" /\ latest' = sample
        /\ UNCHANGED <<clock, starts, main, history, added>>
    BY <1>7 DEF SetLatest, CollectorStep, processVars
  <2>2. sample.ts = added.ts /\ main # "off"
    BY <2>1 DEF ProofInv, ProcessInv, SamplesInv, Busy
  <2>3. Feed!ShowSample
    BY <2>1, <2>2 DEF Feed!ShowSample
  <2> QED
    BY <2>3 DEF Feed!FeedNext
<1>8. CASE TickerFires \/ BeginCollect \/ Probe \/ AddToRedis \/ Notify \/ SelectCollect
           \/ SelectPersist \/ SelectDone
  <2>1. UNCHANGED <<clock, starts, main, history, added, latest>>
    BY <1>8 DEF TickerFires, BeginCollect, Probe, AddToRedis, Notify, SelectCollect,
      SelectPersist, SelectDone, CollectorStep, processVars
  <2> QED
    BY <2>1 DEF PageState, Chart
<1>9. CASE HandlerNext
  <2>1. UNCHANGED <<clock, starts, main, history, added, latest>>
    BY <1>9 DEF HandlerNext, GetSnapshot, AskHistory, AnswerHistory, AskHealth, AnswerHealth,
      Ask, Answer, processVars, collectorVars
  <2> QED
    BY <2>1 DEF PageState, Chart
<1>10. CASE UNCHANGED vars
  BY <1>10 DEF vars, PageState, Chart
<1> QED
  BY <1>1, <1>2, <1>3, <1>4, <1>5, <1>6, <1>7, <1>8, <1>9, <1>10
  DEF Next, MainStep, CollectorNext

\* The goroutines, the stores, their locks and Redis implement SampleFeed: what the
\* page sees does not depend on how they interleave.
THEOREM ProcessIsFeed == Spec => FeedsPage
<1>1. Init => Feed!FeedInit
  <2> SUFFICES ASSUME Init PROVE Feed!FeedInit
    OBVIOUS
  <2>1. /\ clock = 1 /\ starts = 0 /\ main = "off" /\ history = <<>> /\ added.ts = 0
        /\ latest.ts = 0
    BY ZeroIsSample DEF Init
  <2>2. Chart = {}
    BY <2>1 DEF Chart
  <2> QED
    BY <2>1, <2>2 DEF Feed!FeedInit, Chart
<1>2. ProofInv /\ ProofInv' /\ [Next]_vars => [Feed!FeedNext]_FeedState
  BY StepFeeds
<1>3. FeedState = Feed!feedVars
  BY DEF FeedState, Feed!feedVars, PageState, Chart
<1> QED
  BY <1>1, <1>2, ProofInvariance, PTL
  DEF Spec, FeedsPage, Feed!FeedSpec, FeedState, Feed!feedVars, PageState, Chart
=============================================================================
