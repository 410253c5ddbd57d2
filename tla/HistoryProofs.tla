--------------------------- MODULE HistoryProofs ---------------------------
(***************************************************************************)
(* Theorems about History, for every retention, clock error, traffic and   *)
(* legacy file.                                                            *)
(***************************************************************************)
EXTENDS History, TLAPS, FiniteSetTheorems, SequenceTheorems

USE HistoryAssumption DEF HistoryAssumption

-----------------------------------------------------------------------------
(* Positions in a list *)

\* One that is before another of 1..(n + 1) is not the last.
LEMMA BeforeAnother ==
  ASSUME NEW n \in Nat, NEW i \in 1..(n + 1), NEW j \in 1..(n + 1), i < j
  PROVE  i \in 1..n /\ (j \in 1..n \/ j = n + 1)
  OBVIOUS

\* Where a position behind a dropped prefix goes.
LEMMA BehindPrefix ==
  ASSUME NEW n \in Nat, NEW k \in 0..n, NEW i \in 1..n, i \notin 1..k
  PROVE  i - k \in 1..(n - k) /\ k + (i - k) = i
  OBVIOUS
-----------------------------------------------------------------------------
(* Milliseconds *)

\* Time.UnixMilli rounds down, and never changes the order of two times, though
\* it may make them equal.
LEMMA MilliType ==
  ASSUME NEW a \in Int
  PROVE  UnixMilli(a) \in Int
  BY DEF UnixMilli

LEMMA MilliMonotone ==
  ASSUME NEW a \in Int, NEW b \in Int, a <= b
  PROVE  UnixMilli(a) <= UnixMilli(b)
  BY DEF UnixMilli

\* A time of a later millisecond is later.
LEMMA MilliLater ==
  ASSUME NEW a \in Int, NEW b \in Int, UnixMilli(a) < UnixMilli(b)
  PROVE  a < b
<1>1. UnixMilli(a) \in Int /\ UnixMilli(b) \in Int
  BY MilliType
<1>2. b <= a => UnixMilli(b) <= UnixMilli(a)
  BY MilliMonotone
<1> QED
  BY <1>1, <1>2

LEMMA ScoreType ==
  /\ \A p \in Sample : p.ts.wall \in Int /\ Score(p) = UnixMilli(p.ts.wall) /\ Score(p) \in Int
  /\ TypeOK => Wall \in Int /\ Wall - Retention \in Int /\ CutoffScore \in Int
<1>1. ASSUME NEW p \in Sample
      PROVE  p.ts.wall \in Int /\ Score(p) = UnixMilli(p.ts.wall) /\ Score(p) \in Int
  <2>1. p.ts.wall \in Int
    BY DEF Sample, StampSet
  <2> QED
    BY <2>1, MilliType DEF Score
<1>2. ASSUME TypeOK
      PROVE  Wall \in Int /\ Wall - Retention \in Int /\ CutoffScore \in Int
  <2>1. Wall \in Int /\ Wall - Retention \in Int
    BY <1>2 DEF TypeOK, HostOK, Wall
  <2> QED
    BY <2>1, MilliType DEF CutoffScore
<1> QED
  BY <1>1, <1>2
-----------------------------------------------------------------------------
(* What the helpers return *)

\* The migrated file is a finite set of samples without monotonic readings.
LEMMA LegacyType ==
  /\ Legacy \in SUBSET Sample
  /\ IsFiniteSet(Legacy)
  /\ \A p \in Legacy : ~p.ts.live
<1>1. Legacy \in SUBSET Sample /\ \A p \in Legacy : ~p.ts.live
  <2>1. ASSUME NEW w \in LegacyStamps
        PROVE  LegacyPoint(w) \in Sample /\ ~LegacyPoint(w).ts.live
    <3>1. w \in Int
      OBVIOUS
    <3> QED
      BY <3>1 DEF LegacyPoint, Sample, StampSet
  <2> QED
    BY <2>1 DEF Legacy
<1>2. IsFiniteSet(Legacy)
  <2> DEFINE f == [w \in LegacyStamps |-> LegacyPoint(w)]
  <2>1. f \in Surjection(LegacyStamps, Legacy)
    BY DEF Surjection, Legacy
  <2> QED
    BY <2>1, FS_Surjection
<1> QED
  BY <1>1, <1>2

\* A JSON round trip keeps a sample but for its monotonic reading.
LEMMA StoredType ==
  ASSUME NEW p \in Sample
  PROVE  /\ Stored(p) \in Sample
         /\ ~Stored(p).ts.live
         /\ Score(Stored(p)) = Score(p)
         /\ Stored(p).delta = p.delta /\ Stored(p).span = p.span
         /\ ~p.ts.live => Stored(p) = p
  BY DEF Stored, Sample, StampSet, Score

\* applyNetRates returns the same sample, with a natural rate.
LEMMA WithRateType ==
  ASSUME NEW s \in Sample, NEW b \in Counters \cup {None}
  PROVE  WithRate(s, b) \in Sample /\ WithRate(s, b).ts = s.ts
<1>1. CASE b = None
  BY <1>1 DEF WithRate
<1>2. CASE b # None
  <2>1. Elapsed(s.ts, b.ts) \in Int
    BY <1>2 DEF Elapsed, Sample, Counters, StampSet
  <2>2. s.recv - b.recv \in Int /\ s.moved - b.moved \in Int
    BY <1>2 DEF Sample, Counters
  <2>3. s.recv >= b.recv => s.recv - b.recv \in Nat
    BY <1>2 DEF Sample, Counters
  <2>4. CASE Elapsed(s.ts, b.ts) > 0 /\ s.recv >= b.recv
    <3>1. WithRate(s, b) = [s EXCEPT !.delta = s.recv - b.recv,
                                     !.over = Elapsed(s.ts, b.ts),
                                     !.span = s.moved - b.moved]
      BY <1>2, <2>4 DEF WithRate
    <3>2. Elapsed(s.ts, b.ts) \in Nat
      BY <2>1, <2>4
    <3> QED
      BY <3>1, <3>2, <2>2, <2>3, <2>4 DEF Sample
  <2>5. CASE ~(Elapsed(s.ts, b.ts) > 0 /\ s.recv >= b.recv)
    BY <1>2, <2>5 DEF WithRate
  <2> QED
    BY <2>4, <2>5
<1> QED
  BY <1>1, <1>2

\* The counters a sample leaves behind.
LEMMA BaselineType ==
  ASSUME NEW s \in Sample
  PROVE  Baseline(s) \in Counters
  BY DEF Baseline, Sample, Counters

\* What remains of a history after its first k points are dropped.
LEMMA DropType ==
  ASSUME NEW S, NEW s \in Seq(S), NEW k \in 0..Len(s)
  PROVE  /\ Drop(s, k) \in Seq(S)
         /\ Len(Drop(s, k)) = Len(s) - k
         /\ \A i \in 1..(Len(s) - k) : Drop(s, k)[i] = s[k + i]
<1>1. Len(s) \in Nat /\ \A i \in 1..Len(s) : s[i] \in S
  BY LenProperties, ElementOfSeq
<1>2. k + 1 \in Int /\ Len(s) \in Int /\ \A i \in (k + 1)..Len(s) : s[i] \in S
  BY <1>1
<1>3. /\ Drop(s, k) \in Seq(S)
      /\ Len(Drop(s, k)) = IF k + 1 <= Len(s) THEN Len(s) - (k + 1) + 1 ELSE 0
      /\ \A i \in 1..(Len(s) - (k + 1) + 1) : Drop(s, k)[i] = s[(k + 1) + i - 1]
  BY <1>2, SubSeqProperties DEF Drop
<1>4. Len(Drop(s, k)) = Len(s) - k
  BY <1>1, <1>3
<1>5. ASSUME NEW i \in 1..(Len(s) - k)
      PROVE  Drop(s, k)[i] = s[k + i]
  <2>1. i \in 1..(Len(s) - (k + 1) + 1) /\ (k + 1) + i - 1 = k + i
    BY <1>1
  <2> QED
    BY <2>1, <1>3
<1> QED
  BY <1>3, <1>4, <1>5

\* ZRANGEBYSCORE returns members of the set, all of them.
LEMMA OrderedType ==
  ASSUME NEW zset \in SUBSET Sample, IsFiniteSet(zset), NEW s \in Ordered(Window(zset))
  PROVE  /\ s \in Seq(zset)
         /\ \A p \in Window(zset) : \E i \in 1..Len(s) : s[i] = p
<1>1. Window(zset) \in SUBSET zset
  BY DEF Window
<1>2. Cardinality(Window(zset)) \in Nat
  BY <1>1, FS_Subset, FS_CardinalityType
<1>3. s \in [1..Cardinality(Window(zset)) -> Window(zset)]
  BY DEF Ordered
<1>4. s \in Seq(Window(zset)) /\ Len(s) = Cardinality(Window(zset))
  BY <1>2, <1>3
<1>5. s \in Seq(zset)
  BY <1>1, <1>4, SeqMonotonic
<1>6. DOMAIN s = 1..Len(s)
  BY <1>3, <1>4
<1> QED
  BY <1>5, <1>6 DEF Ordered
-----------------------------------------------------------------------------
(* Type correctness *)

\* The counter a sample reads is a natural number because the host cannot
\* have booted with more bytes moved than it has moved by now, and the sorted
\* set holds encoded samples only.
TypeInv ==
  /\ TypeOK
  /\ boot <= moved
  /\ \A p \in redis : ~p.ts.live

\* A successful Load leaves a well-typed history behind.
LEMMA AdoptType ==
  ASSUME NEW zset \in SUBSET Sample, IsFiniteSet(zset), Adopt(zset)
  PROVE  /\ points' \in Seq(zset)
         /\ points' \in Seq(Sample)
         /\ lastNet' = None \/ \E p \in zset : lastNet' = Baseline(p)
         /\ lastNet' \in Counters \cup {None}
         /\ unread' = {}
<1>1. PICK s \in Ordered(Window(zset)) : \E k \in TrimLengths(s) :
         /\ points' = Drop(s, k)
         /\ lastNet' = IF k < Len(s) THEN Baseline(s[Len(s)]) ELSE None
  BY DEF Adopt
<1>2. PICK k \in TrimLengths(s) :
         /\ points' = Drop(s, k)
         /\ lastNet' = IF k < Len(s) THEN Baseline(s[Len(s)]) ELSE None
  BY <1>1
<1>3. s \in Seq(zset)
  BY OrderedType
<1>4. k \in 0..Len(s) /\ Len(s) \in Nat
  BY <1>3, LenProperties DEF TrimLengths
<1>5. points' \in Seq(zset)
  BY <1>2, <1>3, <1>4, DropType
<1>6. points' \in Seq(Sample)
  BY <1>5, SeqMonotonic
<1>7. k < Len(s) => s[Len(s)] \in zset
  <2>1. k < Len(s) => Len(s) \in 1..Len(s)
    BY <1>4
  <2> QED
    BY <2>1, <1>3, ElementOfSeq
<1>8. lastNet' = None \/ \E p \in zset : lastNet' = Baseline(p)
  BY <1>2, <1>7
<1>9. lastNet' \in Counters \cup {None}
  BY <1>8, BaselineType
<1> QED
  BY <1>5, <1>6, <1>8, <1>9 DEF Adopt

\* What AddToMemory leaves behind.
LEMMA AddType ==
  ASSUME TypeOK, AddToMemory
  PROVE  /\ cur' \in Sample /\ cur' = WithRate(cur, lastNet) /\ cur'.ts = cur.ts
         /\ Append(points, cur') \in Seq(Sample)
         /\ points' \in Seq(Sample)
         /\ \E k \in TrimLengths(Append(points, cur')) :
               k \in 0..Len(Append(points, cur')) /\ points' = Drop(Append(points, cur'), k)
         /\ \A i \in 1..Len(points') :
               points'[i] = cur' \/ \E j \in 1..Len(points) : points'[i] = points[j]
<1> DEFINE all == Append(points, cur')
<1>1. cur \in Sample /\ lastNet \in Counters \cup {None} /\ points \in Seq(Sample)
  BY DEF TypeOK, CollectorOK, MemoryOK, AddToMemory
<1>2. cur' \in Sample /\ cur' = WithRate(cur, lastNet) /\ cur'.ts = cur.ts
  BY <1>1, WithRateType DEF AddToMemory
<1>3. /\ all \in Seq(Sample)
      /\ Len(all) = Len(points) + 1
      /\ Len(points) \in Nat
      /\ \A i \in 1..Len(points) : all[i] = points[i]
      /\ all[Len(points) + 1] = cur'
  BY <1>1, <1>2, AppendProperties, LenProperties
<1>4. PICK k \in TrimLengths(all) : points' = Drop(all, k)
  BY DEF AddToMemory
<1>5. k \in 0..Len(all)
  BY DEF TrimLengths
<1>6. /\ points' \in Seq(Sample)
      /\ Len(points') = Len(all) - k
      /\ \A i \in 1..(Len(all) - k) : points'[i] = all[k + i]
  BY <1>3, <1>4, <1>5, DropType
<1>7. ASSUME NEW i \in 1..Len(points')
      PROVE  points'[i] = cur' \/ \E j \in 1..Len(points) : points'[i] = points[j]
  <2>1. k + i \in 1..(Len(points) + 1)
    BY <1>3, <1>5, <1>6
  <2>2. points'[i] = all[k + i]
    BY <1>6
  <2>3. k + i \in 1..Len(points) \/ k + i = Len(points) + 1
    BY <2>1, <1>3
  <2> QED
    BY <2>2, <2>3, <1>3
<1> QED
  BY <1>2, <1>3, <1>4, <1>5, <1>6, <1>7

\* An empty history is one.
LEMMA NoPoints == <<>> \in Seq(Sample)
  BY EmptySeq

\* Init establishes the typing invariant.
LEMMA TypeInit == Init => TypeInv
<1> SUFFICES ASSUME Init PROVE TypeInv
  OBVIOUS
<1>1. HostOK /\ CollectorOK /\ boot <= moved
  BY DEF Init, HostOK, CollectorOK
<1>2. MemoryOK
  BY NoPoints DEF Init, MemoryOK
<1>3. StoreOK /\ \A p \in redis : ~p.ts.live
  <2>1. Wall - Retention \in Int
    BY DEF Init, Wall
  <2>2. CutoffScore \in Int
    BY <2>1, MilliType DEF CutoffScore
  <2> QED
    BY <2>2, FS_EmptySet DEF Init, StoreOK
<1> QED
  BY <1>1, <1>2, <1>3 DEF TypeInv, TypeOK

\* What Starting does to the host and the collector, and a failed Load to memory.
LEMMA StartingType ==
  ASSUME TypeInv, Starting
  PROVE  /\ HostOK' /\ CollectorOK' /\ boot' <= moved'
         /\ LoadFails /\ redis' \in SUBSET Sample => MemoryOK'
         /\ (/\ points' \in Seq(Sample) /\ lastNet' \in Counters \cup {None}
             /\ unread' = {}) => MemoryOK'
         /\ purged' \in Int
<1> USE DEF TypeInv, TypeOK, Starting
<1>1. HostOK' /\ boot' <= moved'
  BY DEF HostOK
<1>2. CollectorOK'
  BY DEF CollectorOK
<1>3. LoadFails /\ redis' \in SUBSET Sample => MemoryOK'
  BY NoPoints DEF MemoryOK, LoadFails
<1>4. (/\ points' \in Seq(Sample) /\ lastNet' \in Counters \cup {None}
       /\ unread' = {}) => MemoryOK'
  BY DEF MemoryOK
<1>5. purged' \in Int
  BY DEF StoreOK
<1> QED
  BY <1>1, <1>2, <1>3, <1>4, <1>5

\* The end of the process leaves an empty memory and Redis as it is.
LEMMA ForgetType ==
  ASSUME TypeInv, Forget
  PROVE  CollectorOK' /\ MemoryOK' /\ StoreOK' /\ \A p \in redis' : ~p.ts.live
<1> USE DEF TypeInv, TypeOK, Forget
<1>1. CollectorOK'
  BY DEF CollectorOK
<1>2. MemoryOK'
  BY NoPoints DEF MemoryOK
<1>3. StoreOK' /\ \A p \in redis' : ~p.ts.live
  BY DEF StoreOK
<1> QED
  BY <1>1, <1>2, <1>3

\* AddToRedis may add the encoded sample, and may delete old ones.
LEMMA AddToRedisType ==
  ASSUME TypeInv, AddToRedis
  PROVE  StoreOK' /\ \A p \in redis' : ~p.ts.live
<1> USE DEF TypeInv, TypeOK
<1>1. cur \in Sample
  BY DEF AddToRedis, CollectorOK
<1>2. PICK zadd \in BOOLEAN, zrem \in BOOLEAN :
        LET zset == IF zadd THEN redis \cup {Stored(cur)} ELSE redis IN
          /\ redis' = IF zrem THEN Purge(zset) ELSE zset
          /\ purged' = IF zrem THEN Latest(purged, CutoffScore) ELSE purged
  BY DEF AddToRedis
<1>3. redis' \subseteq redis \cup {Stored(cur)}
  BY <1>2 DEF Purge
<1>4. redis' \in SUBSET Sample /\ \A p \in redis' : ~p.ts.live
  BY <1>1, <1>3, StoredType DEF StoreOK
<1>5. IsFiniteSet(redis')
  <2>1. IsFiniteSet(redis \cup {Stored(cur)})
    BY FS_AddElement DEF StoreOK
  <2> QED
    BY <2>1, <1>3, FS_Subset
<1>6. purged' \in Int
  BY <1>2, ScoreType DEF Latest, StoreOK
<1> QED
  BY <1>4, <1>5, <1>6 DEF StoreOK

\* Every step preserves it.
LEMMA TypeStep == TypeInv /\ [Next]_vars => TypeInv'
<1> SUFFICES ASSUME TypeInv, [Next]_vars
             PROVE  TypeInv'
  OBVIOUS
<1> USE DEF TypeInv, TypeOK
<1>1. CASE Tick
  BY <1>1 DEF Tick, memVars, HostOK, CollectorOK, MemoryOK, StoreOK
<1>2. CASE SetClock
  BY <1>2 DEF SetClock, memVars, HostOK, CollectorOK, MemoryOK, StoreOK
<1>3. CASE Crash
  BY <1>3, ForgetType DEF Crash, hostVars, HostOK
<1>4. CASE Reboot
  BY <1>4, ForgetType DEF Reboot, HostOK
<1>5. CASE StartFromRedis
  <2>1. StoreOK' /\ \A p \in redis' : ~p.ts.live
    BY <1>5, StartingType DEF StartFromRedis, StoreOK
  <2>2. MemoryOK'
    BY <1>5, AdoptType, StartingType DEF StartFromRedis, StoreOK
  <2> QED
    BY <1>5, <2>1, <2>2, StartingType DEF StartFromRedis
<1>6. CASE StartMigrating
  <2>1. redis' \in SUBSET Sample /\ \A p \in redis' : ~p.ts.live
    BY <1>6, LegacyType DEF StartMigrating, StoreOK
  <2>2. IsFiniteSet(redis')
    BY <1>6, LegacyType, FS_Union DEF StartMigrating, StoreOK
  <2>3. MemoryOK'
    BY <1>6, <2>1, <2>2, AdoptType, StartingType DEF StartMigrating
  <2>4. StoreOK'
    BY <1>6, <2>1, <2>2, StartingType DEF StartMigrating, StoreOK
  <2> QED
    BY <1>6, <2>1, <2>3, <2>4, StartingType DEF StartMigrating
<1>7. CASE StartUnloaded
  <2>1. StoreOK' /\ \A p \in redis' : ~p.ts.live
    BY <1>7, StartingType DEF StartUnloaded, StoreOK
  <2>2. Starting /\ LoadFails /\ redis' \in SUBSET Sample
    BY <1>7, <2>1 DEF StartUnloaded, StoreOK
  <2> QED
    BY <2>1, <2>2, StartingType
<1>8. CASE StartHalfMigrated
  <2>1. PICK part \in SUBSET Legacy : redis' = redis \cup part
    BY <1>8 DEF StartHalfMigrated
  <2>2. redis' \in SUBSET Sample /\ \A p \in redis' : ~p.ts.live
    BY <2>1, LegacyType DEF StoreOK
  <2>3. IsFiniteSet(redis')
    BY <2>1, LegacyType, FS_Subset, FS_Union DEF StoreOK
  <2>4. StoreOK'
    BY <1>8, <2>2, <2>3, StartingType DEF StartHalfMigrated, StoreOK
  <2>5. Starting /\ LoadFails
    BY <1>8 DEF StartHalfMigrated
  <2> QED
    BY <2>2, <2>4, <2>5, StartingType
<1>9. CASE TakeSample
  <2>1. PICK r \in {moved - boot} \cup (IF ReadMayFail THEN {0} ELSE {}) :
          cur' = [ts |-> Stamp, recv |-> r, moved |-> moved, base |-> boot,
                  delta |-> 0, over |-> 0, span |-> 0]
    BY <1>9 DEF TakeSample
  <2>2. r \in Nat /\ moved \in Nat /\ boot \in Nat
    BY DEF HostOK
  <2>3. Stamp \in StampSet
    BY DEF Stamp, Wall, StampSet, HostOK
  <2>4. cur' \in Sample
    BY <2>1, <2>2, <2>3 DEF Sample
  <2>5. CollectorOK'
    BY <1>9, <2>4 DEF TakeSample, CollectorOK
  <2> QED
    BY <1>9, <2>5 DEF TakeSample, memVars, hostVars, HostOK, MemoryOK, StoreOK
<1>10. CASE AddToMemory
  <2>1. cur' \in Sample /\ points' \in Seq(Sample)
    BY <1>10, AddType
  <2>2. lastNet' \in Counters
    BY <1>10, BaselineType DEF AddToMemory, CollectorOK
  <2>3. CollectorOK'
    BY <1>10, <2>1 DEF AddToMemory, CollectorOK
  <2> QED
    BY <1>10, <2>1, <2>2, <2>3 DEF AddToMemory, hostVars, HostOK, MemoryOK, StoreOK
<1>11. CASE AddToRedis
  <2>1. StoreOK' /\ \A p \in redis' : ~p.ts.live
    BY <1>11, AddToRedisType
  <2>2. CollectorOK'
    BY <1>11 DEF AddToRedis, CollectorOK
  <2>3. unsaved' \in SUBSET Sample
    BY <1>11 DEF AddToRedis, CollectorOK, MemoryOK
  <2> QED
    BY <1>11, <2>1, <2>2, <2>3 DEF AddToRedis, hostVars, HostOK, MemoryOK
<1>12. CASE Persist
  <2>1. redis' \subseteq redis
    BY <1>12 DEF Persist, Purge
  <2>2. IsFiniteSet(redis')
    BY <2>1, FS_Subset DEF StoreOK
  <2>3. purged' \in Int
    BY <1>12, ScoreType DEF Persist, Latest, StoreOK
  <2>4. StoreOK' /\ \A p \in redis' : ~p.ts.live
    BY <2>1, <2>2, <2>3 DEF StoreOK
  <2> QED
    BY <1>12, <2>4 DEF Persist, memVars, hostVars, HostOK, CollectorOK, MemoryOK
<1>13. CASE UNCHANGED vars
  BY <1>13 DEF vars, HostOK, CollectorOK, MemoryOK, StoreOK
<1> QED
  BY <1>1, <1>2, <1>3, <1>4, <1>5, <1>6, <1>7, <1>8, <1>9, <1>10, <1>11, <1>12,
     <1>13 DEF Next

\* The typing invariant holds throughout.
LEMMA TypeInvariance == Spec => []TypeInv
  BY TypeInit, TypeStep, PTL DEF Spec

\* Every variable of the history keeps its type.
THEOREM TypeCorrect == Spec => []TypeOK
<1>1. TypeInv => TypeOK
  BY DEF TypeInv
<1> QED
  BY <1>1, TypeInvariance, PTL
-----------------------------------------------------------------------------
(* What the dashboard shows survives the process *)

\* A sample Redis holds is deleted only when its score is past the cutoff.
LEMMA PurgeKeeps ==
  ASSUME TypeInv, NEW p \in Sample, NEW zset, Stored(p) \in zset
  PROVE  Stored(p) \in Purge(zset) \/ Score(p) <= CutoffScore
<1>1. Score(Stored(p)) = Score(p)
  BY StoredType
<1>2. Score(p) \in Int /\ CutoffScore \in Int
  BY ScoreType DEF TypeInv
<1> QED
  BY <1>1, <1>2 DEF Purge

\* The cutoffs Redis was given only rise in `purged`.
LEMMA LatestBounds ==
  ASSUME NEW a \in Int, NEW b \in Int
  PROVE  a <= Latest(a, b) /\ b <= Latest(a, b)
  BY DEF Latest

\* Load reads back what Redis holds, so it is recoverable again.
LEMMA AdoptRecoverable ==
  ASSUME redis' \in SUBSET Sample, IsFiniteSet(redis'), \A p \in redis' : ~p.ts.live,
         Adopt(redis')
  PROVE  Recoverable'
<1>1. points' \in Seq(redis')
  BY AdoptType
<1>2. ASSUME NEW i \in 1..Len(points')
      PROVE  Stored(points'[i]) \in redis'
  <2>1. points'[i] \in redis'
    BY <1>1, ElementOfSeq
  <2> QED
    BY <2>1, StoredType
<1> QED
  BY <1>2 DEF Recoverable

\* An empty history has nothing to recover.
LEMMA EmptyRecoverable == points' = <<>> => Recoverable'
<1>1. points' = <<>> => Len(points') = 0
  BY EmptySeq
<1> QED
  BY <1>1 DEF Recoverable

\* Recoverable is inductive relative to the typing invariant.
LEMMA RecoverableStep == TypeInv /\ TypeInv' /\ Recoverable /\ [Next]_vars => Recoverable'
<1> SUFFICES ASSUME TypeInv, TypeInv', Recoverable, [Next]_vars
             PROVE  Recoverable'
  OBVIOUS
<1>t. /\ points \in Seq(Sample) /\ Len(points) \in Nat
      /\ \A i \in 1..Len(points) : points[i] \in Sample /\ Score(points[i]) \in Int
      /\ purged \in Int /\ CutoffScore \in Int
  <2>1. points \in Seq(Sample) /\ Len(points) \in Nat
    BY LenProperties DEF TypeInv, TypeOK, MemoryOK
  <2>2. \A i \in 1..Len(points) : points[i] \in Sample
    BY <2>1, ElementOfSeq
  <2>3. \A p \in Sample : Score(p) \in Int
    BY ScoreType
  <2>4. purged \in Int /\ CutoffScore \in Int
    BY ScoreType DEF TypeInv, TypeOK, StoreOK
  <2> QED
    BY <2>1, <2>2, <2>3, <2>4
<1>r. /\ redis' \in SUBSET Sample /\ IsFiniteSet(redis')
      /\ \A p \in redis' : ~p.ts.live
  BY DEF TypeInv, TypeOK, StoreOK
<1>1. CASE Tick
  BY <1>1 DEF Tick, memVars, Recoverable, InHand
<1>2. CASE SetClock
  BY <1>2 DEF SetClock, memVars, Recoverable, InHand
<1>3. CASE Crash \/ Reboot
  BY <1>3, EmptyRecoverable DEF Crash, Reboot, Forget
<1>4. CASE StartFromRedis \/ StartMigrating
  <2>1. Adopt(redis')
    BY <1>4 DEF StartFromRedis, StartMigrating
  <2> QED
    BY <2>1, <1>r, AdoptRecoverable
<1>5. CASE StartUnloaded \/ StartHalfMigrated
  BY <1>5, EmptyRecoverable DEF StartUnloaded, StartHalfMigrated, LoadFails
<1>6. CASE TakeSample
  BY <1>6 DEF TakeSample, memVars, hostVars, Recoverable, InHand
<1>7. CASE AddToMemory
  <2>1. pc = "sampled" /\ pc' = "added" /\ UNCHANGED <<redis, purged, unsaved>>
    BY <1>7 DEF AddToMemory
  <2>2. ASSUME NEW i \in 1..Len(points')
        PROVE  \/ Stored(points'[i]) \in redis'
               \/ InHand(points[i])'
               \/ points'[i] \in unsaved'
               \/ Score(points[i])' <= purged'
    <3>1. points'[i] = cur' \/ \E j \in 1..Len(points) : points'[i] = points[j]
      BY <1>7, AddType DEF TypeInv
    <3>2. CASE points'[i] = cur'
      BY <3>2, <2>1 DEF InHand
    <3>3. CASE \E j \in 1..Len(points) : points'[i] = points[j]
      BY <3>3, <2>1 DEF Recoverable, InHand, Score
    <3> QED
      BY <3>1, <3>2, <3>3
  <2> QED
    BY <2>2 DEF Recoverable
<1>8. CASE AddToRedis
  <2>1. PICK zadd \in BOOLEAN, zrem \in BOOLEAN :
          LET zset == IF zadd THEN redis \cup {Stored(cur)} ELSE redis IN
            /\ redis' = IF zrem THEN Purge(zset) ELSE zset
            /\ purged' = IF zrem THEN Latest(purged, CutoffScore) ELSE purged
            /\ unsaved' = IF zadd THEN unsaved ELSE unsaved \cup {cur}
    BY <1>8 DEF AddToRedis
  <2> DEFINE zset == IF zadd THEN redis \cup {Stored(cur)} ELSE redis
  <2>2. points' = points /\ pc = "added"
    BY <1>8 DEF AddToRedis
  <2>3. purged <= purged' /\ (zrem => CutoffScore <= purged') /\ purged' \in Int
    BY <2>1, <1>t, LatestBounds DEF Latest
  <2>4. ASSUME NEW i \in 1..Len(points)
        PROVE  \/ Stored(points[i]) \in redis'
               \/ points[i] \in unsaved'
               \/ Score(points[i]) <= purged'
    <3>1. \/ Stored(points[i]) \in zset
          \/ points[i] \in unsaved'
          \/ Score(points[i]) <= purged
      BY <2>1 DEF Recoverable, InHand
    <3>2. Stored(points[i]) \in zset /\ zrem =>
            Stored(points[i]) \in Purge(zset) \/ Score(points[i]) <= CutoffScore
      BY <1>t, PurgeKeeps
    <3>3. redis' = IF zrem THEN Purge(zset) ELSE zset
      BY <2>1
    <3> HIDE DEF zset
    <3> QED
      BY <3>1, <3>2, <3>3, <2>3, <1>t
  <2> QED
    BY <2>2, <2>4 DEF Recoverable, Score
<1>9. CASE Persist
  <2>1. /\ redis' = Purge(redis) /\ purged' = Latest(purged, CutoffScore)
        /\ UNCHANGED <<pc, cur, points, unsaved>>
    BY <1>9 DEF Persist, memVars
  <2>2. purged <= purged' /\ CutoffScore <= purged' /\ purged' \in Int
    BY <2>1, <1>t, LatestBounds DEF Latest
  <2>3. ASSUME NEW i \in 1..Len(points)
        PROVE  \/ Stored(points[i]) \in redis'
               \/ InHand(points[i])
               \/ points[i] \in unsaved
               \/ Score(points[i]) <= purged'
    <3>1. Stored(points[i]) \in redis =>
            Stored(points[i]) \in Purge(redis) \/ Score(points[i]) <= CutoffScore
      BY <1>t, PurgeKeeps
    <3> QED
      BY <3>1, <2>1, <2>2, <1>t DEF Recoverable
  <2> QED
    BY <2>1, <2>3 DEF Recoverable, Score, InHand
<1>10. CASE UNCHANGED vars
  BY <1>10 DEF vars, Recoverable, InHand, Score
<1> QED
  BY <1>1, <1>2, <1>3, <1>4, <1>5, <1>6, <1>7, <1>8, <1>9, <1>10 DEF Next

\* Whatever crashes, fails, migrates or is set back: a sample the history
\* serves is in Redis, on its way there, was refused there or is too old.
THEOREM HistoryRecoverable == Spec => []Recoverable
<1>1. Init => Recoverable
  <2>1. Init => Len(points) = 0
    BY EmptySeq DEF Init
  <2> QED
    BY <2>1 DEF Recoverable
<1>2. TypeInv /\ TypeInv' /\ Recoverable /\ [Next]_vars => Recoverable'
  BY RecoverableStep
<1> QED
  BY <1>1, <1>2, TypeInvariance, PTL DEF Spec
-----------------------------------------------------------------------------
(* Network rates *)

\* A counter was read without error, and in this life of the host or before.
Honest(c) ==
  c.recv = c.moved - c.base /\ c.base <= boot /\ c.moved <= moved

\* Rates stay within the traffic because baselines are honest, and because a
\* sample being stored was taken since the last boot.
RateInv ==
  /\ \A p \in redis : Honest(p) /\ p.delta <= p.span
  /\ \A i \in 1..Len(points) : points[i].delta <= points[i].span
  /\ lastNet # None => Honest(lastNet)
  /\ pc \in {"sampled", "added"} =>
       Honest(cur) /\ cur.base = boot /\ cur.delta <= cur.span

\* applyNetRates keeps what a sample read and gives it a rate within traffic:
\* a counter that restarted at the last boot can only be short of the baseline.
LEMMA WithRateWithin ==
  ASSUME NEW s \in Sample, NEW b \in Counters \cup {None}, boot \in Nat, moved \in Nat,
         Honest(s), s.base = boot, s.delta <= s.span,
         b # None => Honest(b)
  PROVE  LET t == WithRate(s, b) IN
           /\ t.recv = s.recv /\ t.moved = s.moved /\ t.base = s.base
           /\ t.delta <= t.span
<1>1. CASE b # None /\ Elapsed(s.ts, b.ts) > 0 /\ s.recv >= b.recv
  <2>1. WithRate(s, b) = [s EXCEPT !.delta = s.recv - b.recv,
                                   !.over = Elapsed(s.ts, b.ts),
                                   !.span = s.moved - b.moved]
    BY <1>1 DEF WithRate
  <2>2. s.recv - b.recv <= s.moved - b.moved
    BY <1>1 DEF Honest, Sample, Counters
  <2> QED
    BY <2>1, <2>2 DEF Sample
<1>2. CASE ~(b # None /\ Elapsed(s.ts, b.ts) > 0 /\ s.recv >= b.recv)
  BY <1>2 DEF WithRate
<1> QED
  BY <1>1, <1>2

\* Time, traffic and reboots leave honest counters honest.
LEMMA HonestStable ==
  ASSUME NEW c, c.base \in Nat, c.moved \in Nat, Honest(c),
         boot \in Nat, moved \in Nat, boot' \in Nat, moved' \in Nat,
         boot <= boot', moved <= moved'
  PROVE  /\ c.recv = c.moved - c.base
         /\ c.base <= boot' /\ c.moved <= moved'
  BY DEF Honest

\* The host never moves fewer bytes nor boots in the past.
LEMMA HostGrows ==
  ASSUME TypeInv, TypeInv', [Next]_vars
  PROVE  /\ boot <= boot' /\ moved <= moved'
         /\ (pc' # "down" => boot' = boot)
<1> USE DEF TypeInv, TypeOK, HostOK
<1>1. CASE Tick
  BY <1>1 DEF Tick
<1>2. CASE SetClock \/ Crash
  BY <1>2 DEF SetClock, Crash, hostVars
<1>3. CASE Reboot
  BY <1>3 DEF Reboot, Forget
<1>4. CASE StartFromRedis \/ StartMigrating \/ StartUnloaded \/ StartHalfMigrated
  BY <1>4 DEF StartFromRedis, StartMigrating, StartUnloaded, StartHalfMigrated, Starting
<1>5. CASE TakeSample \/ AddToMemory \/ AddToRedis \/ Persist
  BY <1>5 DEF TakeSample, AddToMemory, AddToRedis, Persist, hostVars
<1>6. CASE UNCHANGED vars
  BY <1>6 DEF vars
<1> QED
  BY <1>1, <1>2, <1>3, <1>4, <1>5, <1>6 DEF Next

\* RateInv is inductive when no counter read fails.
LEMMA RateStep ==
  ASSUME ~ReadMayFail, TypeInv, TypeInv', RateInv, [Next]_vars
  PROVE  RateInv'
<1>g. boot <= boot' /\ moved <= moved' /\ (pc' # "down" => boot' = boot)
  BY HostGrows
<1>n. boot \in Nat /\ moved \in Nat /\ boot' \in Nat /\ moved' \in Nat
  BY DEF TypeInv, TypeOK, HostOK
<1>t. /\ \A p \in redis \cup redis' : p \in Sample
      /\ lastNet \in Counters \cup {None}
      /\ points \in Seq(Sample)
      /\ pc \in {"sampled", "added"} => cur \in Sample
  BY DEF TypeInv, TypeOK, StoreOK, MemoryOK, CollectorOK
<1>s. ASSUME NEW p \in Sample \cup Counters, Honest(p)
      PROVE  p.recv = p.moved - p.base /\ p.base <= boot' /\ p.moved <= moved'
  BY <1>s, <1>g, <1>n, HonestStable DEF Sample, Counters
<1>e. ASSUME points' = <<>>
      PROVE  \A i \in 1..Len(points') : points'[i].delta <= points'[i].span
  BY <1>e, EmptySeq
<1>a. ASSUME Adopt(redis'), \A p \in redis' : Honest(p) /\ p.delta <= p.span
      PROVE  /\ \A i \in 1..Len(points') : points'[i].delta <= points'[i].span
             /\ lastNet' # None => lastNet' \in Counters /\ Honest(lastNet)'
  <2>1. redis' \in SUBSET Sample /\ IsFiniteSet(redis')
    BY DEF TypeInv, TypeOK, StoreOK
  <2>2. points' \in Seq(redis')
    BY <2>1, <1>a, AdoptType
  <2>3. \A i \in 1..Len(points') : points'[i] \in redis'
    BY <2>2, ElementOfSeq
  <2>4. ASSUME lastNet' # None
        PROVE  lastNet' \in Counters /\ Honest(lastNet)'
    <3>1. PICK p \in redis' : lastNet' = Baseline(p)
      BY <2>1, <2>4, <1>a, AdoptType
    <3>2. p \in Sample /\ Honest(p)
      BY <2>1, <3>1, <1>a
    <3>3. p.recv = p.moved - p.base /\ p.base <= boot' /\ p.moved <= moved'
      BY <3>2, <1>s
    <3> QED
      BY <3>1, <3>2, <3>3, BaselineType DEF Baseline, Honest
  <2> QED
    BY <2>3, <2>4, <1>a
<1>1. CASE Tick \/ SetClock \/ UNCHANGED vars
  <2>1. UNCHANGED <<pc, cur, points, lastNet, redis>>
    BY <1>1 DEF Tick, SetClock, memVars, vars
  <2>2. pc \in {"sampled", "added"} => boot' = boot
    BY <2>1, <1>g
  <2>3. lastNet # None => lastNet \in Counters
    BY <1>t
  <2> QED
    BY <2>1, <2>2, <2>3, <1>s, <1>t DEF RateInv, Honest
<1>2. CASE Crash \/ Reboot
  <2>1. points' = <<>> /\ lastNet' = None /\ pc' = "down" /\ redis' = redis
    BY <1>2 DEF Crash, Reboot, Forget
  <2> QED
    BY <2>1, <1>e, <1>s, <1>t DEF RateInv, Honest
<1>3. CASE StartFromRedis \/ StartMigrating
  <2>1. Adopt(redis') /\ pc' = "idle" /\ redis' \subseteq redis \cup Legacy
    BY <1>3 DEF StartFromRedis, StartMigrating, Starting
  <2>2. \A p \in Legacy : Honest(p) /\ p.delta <= p.span
    BY <1>n DEF Legacy, LegacyPoint, Honest
  <2>3. \A p \in redis' : Honest(p) /\ p.delta <= p.span
    BY <2>1, <2>2 DEF RateInv
  <2> QED
    BY <2>1, <2>3, <1>a, <1>s, <1>t DEF RateInv, Honest
<1>4. CASE StartUnloaded \/ StartHalfMigrated
  <2>1. points' = <<>> /\ lastNet' = None /\ pc' = "idle" /\ redis' \subseteq redis \cup Legacy
    BY <1>4 DEF StartUnloaded, StartHalfMigrated, Starting, LoadFails
  <2>2. \A p \in Legacy : Honest(p) /\ p.delta <= p.span
    BY <1>n DEF Legacy, LegacyPoint, Honest
  <2>3. \A p \in redis' : Honest(p) /\ p.delta <= p.span
    BY <2>1, <2>2 DEF RateInv
  <2> QED
    BY <2>1, <2>3, <1>e, <1>s, <1>t DEF RateInv, Honest
<1>5. CASE TakeSample
  <2>1. UNCHANGED <<redis, points, lastNet, boot, moved>>
    BY <1>5 DEF TakeSample, memVars, hostVars
  <2>2. /\ cur'.recv = moved - boot /\ cur'.moved = moved /\ cur'.base = boot
        /\ cur'.delta = 0 /\ cur'.span = 0
    BY <1>5 DEF TakeSample
  <2> QED
    BY <2>1, <2>2, <1>n DEF RateInv, Honest
<1>6. CASE AddToMemory
  <2>1. UNCHANGED <<redis, boot, moved>> /\ pc = "sampled" /\ lastNet' = Baseline(cur)
    BY <1>6 DEF AddToMemory, hostVars
  <2>2. cur \in Sample /\ Honest(cur) /\ cur.base = boot /\ cur.delta <= cur.span
    BY <2>1, <1>t DEF RateInv
  <2>3. /\ cur' = WithRate(cur, lastNet)
        /\ \A i \in 1..Len(points') :
             points'[i] = cur' \/ \E j \in 1..Len(points) : points'[i] = points[j]
    BY <1>6, AddType DEF TypeInv
  <2>4. /\ cur'.recv = cur.recv /\ cur'.moved = cur.moved /\ cur'.base = cur.base
        /\ cur'.delta <= cur'.span
    BY <2>2, <2>3, <1>n, <1>t, WithRateWithin DEF RateInv
  <2>5. \A i \in 1..Len(points') : points'[i].delta <= points'[i].span
    BY <2>3, <2>4 DEF RateInv
  <2>6. Honest(lastNet)'
    BY <2>1, <2>2 DEF Baseline, Honest
  <2> QED
    BY <2>1, <2>2, <2>4, <2>5, <2>6 DEF RateInv, Honest
<1>7. CASE AddToRedis
  <2>1. UNCHANGED <<points, lastNet, boot, moved>> /\ pc = "added" /\ pc' = "idle"
    BY <1>7 DEF AddToRedis, hostVars
  <2>2. redis' \subseteq redis \cup {Stored(cur)}
    BY <1>7 DEF AddToRedis, Purge
  <2>3. /\ Stored(cur).recv = cur.recv /\ Stored(cur).moved = cur.moved
        /\ Stored(cur).base = cur.base
        /\ Stored(cur).delta = cur.delta /\ Stored(cur).span = cur.span
    BY <2>1, <1>t DEF Stored, Sample
  <2>4. \A p \in redis' : Honest(p) /\ p.delta <= p.span
    BY <2>1, <2>2, <2>3 DEF RateInv, Honest
  <2> QED
    BY <2>1, <2>4 DEF RateInv, Honest
<1>8. CASE Persist
  <2>1. UNCHANGED <<points, lastNet, boot, moved, pc, cur>> /\ redis' \subseteq redis
    BY <1>8 DEF Persist, Purge, memVars, hostVars
  <2> QED
    BY <2>1 DEF RateInv, Honest
<1> QED
  BY <1>1, <1>2, <1>3, <1>4, <1>5, <1>6, <1>7, <1>8 DEF Next

\* No rate the history shows or stores counts bytes the host did not move, as
\* long as reading the counters never fails.
THEOREM RatesWithinTraffic ==
  ASSUME ~ReadMayFail
  PROVE  Spec => []RateWithinTraffic
<1>1. Init => RateInv
  <2>1. Init => Len(points) = 0
    BY EmptySeq DEF Init
  <2> QED
    BY <2>1 DEF Init, RateInv
<1>2. TypeInv /\ TypeInv' /\ RateInv /\ [Next]_vars => RateInv'
  BY RateStep
<1>3. RateInv => RateWithinTraffic
  BY DEF RateInv, RateWithinTraffic
<1> QED
  BY <1>1, <1>2, <1>3, TypeInvariance, PTL DEF Spec
-----------------------------------------------------------------------------
(* The order of the points *)

\* What Add leaves of the points and the new one: all but an expired prefix.
LEMMA AddShape ==
  ASSUME TypeOK, AddToMemory
  PROVE  LET n == Len(points)  all == Append(points, cur') IN
           /\ n \in Nat /\ all \in Seq(Sample) /\ Len(all) = n + 1 /\ all[n + 1] = cur'
           /\ \A i \in 1..n : all[i] = points[i]
           /\ \A i \in 1..(n + 1) : all[i] \in Sample
           /\ \E k \in 0..(n + 1) :
                /\ points' \in Seq(Sample) /\ Len(points') = n + 1 - k
                /\ \A i \in 1..(n + 1 - k) : points'[i] = all[k + i]
                /\ \A i \in 1..k : Expired(all[i])
                /\ k < n + 1 => ~Expired(all[k + 1])
<1> DEFINE n == Len(points)
           all == Append(points, cur')
<1>1. points \in Seq(Sample) /\ cur' \in Sample /\ all \in Seq(Sample)
  BY AddType DEF TypeOK, MemoryOK
<1>2. /\ n \in Nat /\ Len(all) = n + 1 /\ all[n + 1] = cur'
      /\ \A i \in 1..n : all[i] = points[i]
  BY <1>1, AppendProperties, LenProperties
<1>3. PICK k \in TrimLengths(all) : k \in 0..Len(all) /\ points' = Drop(all, k)
  BY AddType
<1> HIDE DEF n, all
<1>4. /\ points' \in Seq(Sample) /\ Len(points') = Len(all) - k
      /\ \A i \in 1..(Len(all) - k) : points'[i] = all[k + i]
  BY <1>1, <1>3, DropType
<1>5. \A i \in 1..(n + 1) : all[i] \in Sample
  BY <1>1, <1>2, ElementOfSeq
<1>6. (\A i \in 1..k : Expired(all[i])) /\ (k < n + 1 => ~Expired(all[k + 1]))
  BY <1>2, <1>3 DEF TrimLengths
<1>7. \E j \in 0..(n + 1) :
        /\ points' \in Seq(Sample) /\ Len(points') = n + 1 - j
        /\ \A i \in 1..(n + 1 - j) : points'[i] = all[j + i]
        /\ \A i \in 1..j : Expired(all[i])
        /\ j < n + 1 => ~Expired(all[j + 1])
  BY <1>2, <1>3, <1>4, <1>6
<1> QED
  BY <1>1, <1>2, <1>5, <1>7 DEF n, all

\* What Load leaves in memory: the window of Redis in the order of scores, but for
\* an expired prefix.
LEMMA AdoptShape ==
  ASSUME NEW zset \in SUBSET Sample, IsFiniteSet(zset), Adopt(zset)
  PROVE  \E s \in Seq(zset) : \E k \in 0..Len(s) :
           /\ \A p \in Window(zset) : \E i \in 1..Len(s) : s[i] = p
           /\ \A i, j \in 1..Len(s) : i < j => Score(s[i]) <= Score(s[j])
           /\ points' \in Seq(zset) /\ Len(points') = Len(s) - k
           /\ \A i \in 1..(Len(s) - k) : points'[i] = s[k + i]
           /\ \A i \in 1..k : Expired(s[i])
           /\ lastNet' = IF k < Len(s) THEN Baseline(s[Len(s)]) ELSE None
<1>0. PICK s \in Ordered(Window(zset)) : \E k \in TrimLengths(s) :
         /\ points' = Drop(s, k)
         /\ lastNet' = IF k < Len(s) THEN Baseline(s[Len(s)]) ELSE None
  BY DEF Adopt
<1>1. PICK k \in TrimLengths(s) :
         /\ points' = Drop(s, k)
         /\ lastNet' = IF k < Len(s) THEN Baseline(s[Len(s)]) ELSE None
  BY <1>0
<1>2. s \in Seq(zset) /\ \A p \in Window(zset) : \E i \in 1..Len(s) : s[i] = p
  BY OrderedType
<1>3. DOMAIN s = 1..Len(s) /\ Len(s) \in Nat
  BY <1>2, LenProperties
<1>4. \A i, j \in 1..Len(s) : i < j => Score(s[i]) <= Score(s[j])
  BY <1>3 DEF Ordered
<1>5. k \in 0..Len(s) /\ \A i \in 1..k : Expired(s[i])
  BY DEF TrimLengths
<1>6. /\ points' \in Seq(zset) /\ Len(points') = Len(s) - k
      /\ \A i \in 1..(Len(s) - k) : points'[i] = s[k + i]
  <2>1. s \in Seq(zset) /\ k \in 0..Len(s)
    BY <1>2, <1>5
  <2>2. /\ Drop(s, k) \in Seq(zset) /\ Len(Drop(s, k)) = Len(s) - k
        /\ \A i \in 1..(Len(s) - k) : Drop(s, k)[i] = s[k + i]
    BY <2>1, DropType
  <2> QED
    BY <1>1, <2>2, Zenon
<1>7. \E j \in 0..Len(s) :
        /\ \A p \in Window(zset) : \E i \in 1..Len(s) : s[i] = p
        /\ \A i, l \in 1..Len(s) : i < l => Score(s[i]) <= Score(s[l])
        /\ points' \in Seq(zset) /\ Len(points') = Len(s) - j
        /\ \A i \in 1..(Len(s) - j) : points'[i] = s[j + i]
        /\ \A i \in 1..j : Expired(s[i])
        /\ lastNet' = IF j < Len(s) THEN Baseline(s[Len(s)]) ELSE None
  BY <1>1, <1>2, <1>4, <1>5, <1>6, Zenon
<1> QED
  BY <1>2, <1>7, Zenon

\* The points of this process follow those loaded, in the order of real time, and
\* the baseline of the rates is the last of them.
OrderInv ==
  /\ Chronological /\ SteadyRate
  /\ \A i \in 1..Len(points) : points[i].ts.live => points[i].ts.mono <= now
  /\ Len(points) > 0 => lastNet # None /\ lastNet.ts = points[Len(points)].ts
  /\ pc \in {"sampled", "added"} => cur.ts.live /\ cur.ts.mono <= now
  /\ pc = "sampled" =>
       /\ cur.over = 0
       /\ \A i \in 1..Len(points) : points[i].ts.live => points[i].ts.mono <= cur.ts.mono

LEMMA StampsType ==
  ASSUME NEW p \in Sample
  PROVE  p.ts.mono \in Int /\ p.ts.wall \in Int /\ p.over \in Nat
  BY DEF Sample, StampSet

LEMMA PointsType ==
  ASSUME TypeInv
  PROVE  /\ now \in Nat /\ points \in Seq(Sample) /\ Len(points) \in Nat
         /\ \A i \in 1..Len(points) :
              points[i] \in Sample /\ points[i].ts.mono \in Int /\ points[i].ts.wall \in Int
<1>1. now \in Nat /\ points \in Seq(Sample)
  BY DEF TypeInv, TypeOK, HostOK, MemoryOK
<1>2. \A i \in 1..Len(points) : points[i] \in Sample
  BY <1>1, ElementOfSeq
<1> QED
  BY <1>1, <1>2, StampsType, LenProperties

\* Real time passes, and the points stay.
LEMMA OrderStays ==
  ASSUME TypeInv, OrderInv, now' \in {now, now + 1}, points' = points, lastNet' = lastNet,
         \/ pc' = pc /\ cur' = cur
         \/ pc' \in {"down", "idle"}
  PROVE  OrderInv'
<1>1. now \in Nat /\ \A i \in 1..Len(points) : points[i].ts.mono \in Int
  BY PointsType
<1>3. pc \in {"sampled", "added"} => cur.ts.mono \in Int
  BY StampsType DEF TypeInv, TypeOK, CollectorOK
<1>4. Chronological' /\ SteadyRate'
  BY DEF OrderInv, Chronological, SteadyRate
<1> QED
  BY <1>1, <1>3, <1>4 DEF OrderInv

LEMMA OrderOfNothing ==
  ASSUME points' = <<>>, pc' \in {"down", "idle"}
  PROVE  OrderInv'
<1>1. Len(points') = 0
  BY EmptySeq
<1> QED
  BY <1>1 DEF OrderInv, Chronological, SteadyRate

\* What Load reads back is in the order of the scores, and the last of it is the
\* baseline.
LEMMA AdoptSorted ==
  ASSUME TypeInv', Adopt(redis')
  PROVE  /\ \A i \in 1..Len(points') : points'[i] \in redis' /\ ~points'[i].ts.live
         /\ \A i, j \in 1..Len(points') : i < j => Score(points'[i]) <= Score(points'[j])
         /\ Len(points') > 0 => lastNet' # None /\ lastNet'.ts = points'[Len(points')].ts
<1>1. redis' \in SUBSET Sample /\ IsFiniteSet(redis') /\ \A p \in redis' : ~p.ts.live
  BY DEF TypeInv, TypeOK, StoreOK
<1>2. PICK s \in Seq(redis') : \E k \in 0..Len(s) :
        /\ \A p \in Window(redis') : \E i \in 1..Len(s) : s[i] = p
        /\ \A i, j \in 1..Len(s) : i < j => Score(s[i]) <= Score(s[j])
        /\ points' \in Seq(redis') /\ Len(points') = Len(s) - k
        /\ \A i \in 1..(Len(s) - k) : points'[i] = s[k + i]
        /\ \A i \in 1..k : Expired(s[i])
        /\ lastNet' = IF k < Len(s) THEN Baseline(s[Len(s)]) ELSE None
  BY <1>1, AdoptShape
<1>3. PICK k \in 0..Len(s) :
        /\ \A i, j \in 1..Len(s) : i < j => Score(s[i]) <= Score(s[j])
        /\ points' \in Seq(redis') /\ Len(points') = Len(s) - k
        /\ \A i \in 1..(Len(s) - k) : points'[i] = s[k + i]
        /\ lastNet' = IF k < Len(s) THEN Baseline(s[Len(s)]) ELSE None
  BY <1>2
<1>4. Len(s) \in Nat /\ \A i \in 1..(Len(s) - k) : k + i \in 1..Len(s)
  BY LenProperties
<1>5. \A i \in 1..Len(points') : points'[i] \in redis' /\ ~points'[i].ts.live
  BY <1>1, <1>3, ElementOfSeq
<1>6. \A i, j \in 1..Len(points') : i < j => Score(points'[i]) <= Score(points'[j])
  <2> SUFFICES ASSUME NEW i \in 1..Len(points'), NEW j \in 1..Len(points'), i < j
               PROVE  Score(points'[i]) <= Score(points'[j])
    OBVIOUS
  <2>1. k + i \in 1..Len(s) /\ k + j \in 1..Len(s) /\ k + i < k + j
    BY <1>3, <1>4
  <2>2. Score(s[k + i]) <= Score(s[k + j])
    BY <1>3, <2>1
  <2> QED
    BY <1>3, <2>2
<1>7. Len(points') > 0 => lastNet' # None /\ lastNet'.ts = points'[Len(points')].ts
  <2> SUFFICES ASSUME Len(points') > 0
               PROVE  lastNet' # None /\ lastNet'.ts = points'[Len(points')].ts
    OBVIOUS
  <2>1. k < Len(s) /\ Len(s) - k \in 1..(Len(s) - k) /\ k + (Len(s) - k) = Len(s)
    BY <1>3, <1>4
  <2>2. points'[Len(points')] = s[Len(s)] /\ lastNet' = Baseline(s[Len(s)])
    BY <1>3, <2>1
  <2>3. Baseline(s[Len(s)]) # None /\ Baseline(s[Len(s)]).ts = s[Len(s)].ts
    BY DEF Baseline, None
  <2> QED
    BY <2>2, <2>3
<1> QED
  BY <1>5, <1>6, <1>7

LEMMA AdoptInOrder ==
  ASSUME TypeInv', Adopt(redis'), pc' = "idle"
  PROVE  OrderInv'
<1>1. /\ \A i \in 1..Len(points') : ~points'[i].ts.live
      /\ \A i, j \in 1..Len(points') : i < j => Score(points'[i]) <= Score(points'[j])
      /\ Len(points') > 0 => lastNet' # None /\ lastNet'.ts = points'[Len(points')].ts
  BY AdoptSorted
<1>2. Len(points') \in Nat
  BY LenProperties DEF TypeInv, TypeOK, MemoryOK
<1>3. Chronological' /\ SteadyRate'
  <2>1. \A i \in 1..(Len(points') - 1) : i \in 1..Len(points')
    BY <1>2
  <2> QED
    BY <1>1, <2>1 DEF Chronological, SteadyRate, Score
<1> QED
  BY <1>1, <1>3 DEF OrderInv

\* The rate of a sample of this process over a baseline of this process is per real time.
LEMMA RateIsSteady ==
  ASSUME NEW s \in Sample, NEW b \in Counters \cup {None}, s.ts.live, s.over = 0,
         b # None, b.ts.live
  PROVE  WithRate(s, b).over \in {0, s.ts.mono - b.ts.mono}
<1>1. Elapsed(s.ts, b.ts) = s.ts.mono - b.ts.mono
  BY DEF Elapsed
<1>2. CASE Elapsed(s.ts, b.ts) > 0 /\ s.recv >= b.recv
  <2>1. WithRate(s, b) = [s EXCEPT !.delta = s.recv - b.recv,
                                   !.over = Elapsed(s.ts, b.ts),
                                   !.span = s.moved - b.moved]
    BY <1>2 DEF WithRate
  <2> QED
    BY <1>1, <2>1 DEF Sample
<1>3. CASE ~(Elapsed(s.ts, b.ts) > 0 /\ s.recv >= b.recv)
  BY <1>3 DEF WithRate
<1> QED
  BY <1>2, <1>3

\* The new point is the last in time, and has its rate over the one before it.
LEMMA AddInOrder ==
  ASSUME TypeInv, OrderInv, AddToMemory
  PROVE  OrderInv'
<1> DEFINE n == Len(points)
           all == Append(points, cur')
<1>1. /\ pc = "sampled" /\ pc' = "added" /\ lastNet' = Baseline(cur) /\ now' = now
  BY DEF AddToMemory, hostVars
<1>2. /\ cur \in Sample /\ cur' = WithRate(cur, lastNet) /\ cur'.ts = cur.ts
      /\ lastNet \in Counters \cup {None}
  BY <1>1, AddType DEF TypeInv, TypeOK, CollectorOK, MemoryOK
<1>3. /\ cur.ts.live /\ cur.ts.mono <= now /\ cur.over = 0
      /\ \A i \in 1..n : points[i].ts.live => points[i].ts.mono <= cur.ts.mono
      /\ n > 0 => lastNet # None /\ lastNet.ts = points[n].ts
      /\ \A i \in 1..n : points[i].ts.live => points[i].ts.mono <= now
  BY <1>1 DEF OrderInv
<1>4. /\ n \in Nat /\ all[n + 1] = cur' /\ \A i \in 1..n : all[i] = points[i]
      /\ \E k \in 0..(n + 1) :
           /\ points' \in Seq(Sample) /\ Len(points') = n + 1 - k
           /\ \A i \in 1..(n + 1 - k) : points'[i] = all[k + i]
  BY AddShape DEF TypeInv
<1>5. PICK k \in 0..(n + 1) :
        /\ Len(points') = n + 1 - k
        /\ \A i \in 1..(n + 1 - k) : points'[i] = all[k + i]
  BY <1>4
<1> DEFINE Follows(a, b) ==
      /\ b.ts.live => (a.ts.live => a.ts.mono <= b.ts.mono)
      /\ ~b.ts.live => (~a.ts.live /\ UnixMilli(a.ts.wall) <= UnixMilli(b.ts.wall))
<1>6. \A i, j \in 1..(n + 1) : i < j => Follows(all[i], all[j])
  <2> SUFFICES ASSUME NEW i \in 1..(n + 1), NEW j \in 1..(n + 1), i < j
               PROVE  Follows(all[i], all[j])
    OBVIOUS
  <2>1. i \in 1..n /\ (j \in 1..n \/ j = n + 1)
    BY <1>4, BeforeAnother
  <2>2. CASE j \in 1..n
    <3>1. Follows(points[i], points[j])
      BY <2>1, <2>2 DEF OrderInv, Chronological
    <3> QED
      BY <1>4, <2>1, <2>2, <3>1
  <2>3. CASE j = n + 1
    <3>1. Follows(points[i], cur')
      BY <1>2, <1>3, <2>1
    <3> QED
      BY <1>4, <2>1, <2>3, <3>1
  <2> QED
    BY <2>1, <2>2, <2>3
<1>7. \A i \in 1..n : (all[i].ts.live /\ all[i + 1].ts.live) =>
        all[i + 1].over \in {0, all[i + 1].ts.mono - all[i].ts.mono}
  <2> SUFFICES ASSUME NEW i \in 1..n, all[i].ts.live, all[i + 1].ts.live
               PROVE  all[i + 1].over \in {0, all[i + 1].ts.mono - all[i].ts.mono}
    OBVIOUS
  <2>1. CASE i < n
    <3>1. i \in 1..(n - 1) /\ i + 1 \in 1..n
      BY <1>4, <2>1
    <3>2. (points[i].ts.live /\ points[i + 1].ts.live) =>
             points[i + 1].over \in {0, points[i + 1].ts.mono - points[i].ts.mono}
      BY <3>1 DEF OrderInv, SteadyRate
    <3> QED
      BY <1>4, <3>1, <3>2
  <2>2. CASE i = n
    <3>1. all[i] = points[n] /\ all[i + 1] = cur' /\ n > 0
      BY <1>4, <2>2
    <3>2. WithRate(cur, lastNet).over \in {0, cur.ts.mono - lastNet.ts.mono}
      BY <1>2, <1>3, <3>1, RateIsSteady
    <3> QED
      BY <1>2, <1>3, <3>1, <3>2
  <2> QED
    BY <1>4, <2>1, <2>2
<1>8. \A i \in 1..(n + 1) :
        all[i].ts.live => all[i].ts.mono <= now
  BY <1>2, <1>3, <1>4
<1> HIDE DEF all, n, Follows
<1>9. \A i \in 1..Len(points') : k + i \in 1..(n + 1)
  BY <1>4, <1>5
<1>10. Chronological'
  <2>1. ASSUME NEW i \in 1..Len(points'), NEW j \in 1..Len(points'), i < j
        PROVE  Follows(points'[i], points'[j])
    <3>1. k + i < k + j
      BY <1>4, <1>5, <2>1
    <3> QED
      BY <1>5, <1>6, <1>9, <3>1
  <2> QED
    BY <2>1 DEF Chronological, Follows
<1>11. SteadyRate'
  <2> SUFFICES ASSUME NEW i \in 1..(Len(points') - 1)
               PROVE  (points'[i].ts.live /\ points'[i + 1].ts.live) =>
                         points'[i + 1].over \in {0, points'[i + 1].ts.mono - points'[i].ts.mono}
    BY DEF SteadyRate
  <2>1. k + i \in 1..n /\ k + (i + 1) = (k + i) + 1
    BY <1>4, <1>5
  <2>2. points'[i] = all[k + i] /\ points'[i + 1] = all[(k + i) + 1]
    BY <1>4, <1>5, <2>1
  <2> QED
    BY <1>7, <2>1, <2>2
<1>12. \A i \in 1..Len(points') : points'[i].ts.live => points'[i].ts.mono <= now
  BY <1>5, <1>8, <1>9
<1>13. Len(points') > 0 => lastNet' # None /\ lastNet'.ts = points'[Len(points')].ts
  <2>1. Baseline(cur) # None /\ Baseline(cur).ts = cur.ts
    BY DEF Baseline, None
  <2>2. Len(points') > 0 => points'[Len(points')] = cur'
    <3>1. Len(points') > 0 =>
            n + 1 - k \in 1..(n + 1 - k) /\ k + (n + 1 - k) = n + 1
      BY <1>4, <1>5
    <3> QED
      BY <1>4, <1>5, <3>1
  <2> QED
    BY <1>1, <1>2, <2>1, <2>2
<1> QED
  BY <1>1, <1>2, <1>3, <1>10, <1>11, <1>12, <1>13 DEF OrderInv

LEMMA OrderStep == TypeInv /\ TypeInv' /\ OrderInv /\ [Next]_vars => OrderInv'
<1> SUFFICES ASSUME TypeInv, TypeInv', OrderInv, [Next]_vars
             PROVE  OrderInv'
  OBVIOUS
<1>1. CASE Tick \/ SetClock \/ UNCHANGED vars
  BY <1>1, OrderStays DEF Tick, SetClock, memVars, vars
<1>2. CASE Crash \/ Reboot
  BY <1>2, OrderOfNothing DEF Crash, Reboot, Forget
<1>3. CASE StartFromRedis \/ StartMigrating
  BY <1>3, AdoptInOrder DEF StartFromRedis, StartMigrating, Starting
<1>4. CASE StartUnloaded \/ StartHalfMigrated
  BY <1>4, OrderOfNothing DEF StartUnloaded, StartHalfMigrated, LoadFails, Starting
<1>5. CASE TakeSample
  <2>1. /\ pc' = "sampled" /\ cur'.ts = Stamp /\ cur'.over = 0
        /\ UNCHANGED <<now, points, lastNet>>
    BY <1>5 DEF TakeSample, memVars, hostVars
  <2>2. Stamp.live /\ Stamp.mono = now /\ now \in Nat
    BY PointsType DEF Stamp
  <2>3. Chronological' /\ SteadyRate'
    BY <2>1 DEF OrderInv, Chronological, SteadyRate
  <2> QED
    BY <2>1, <2>2, <2>3 DEF OrderInv
<1>6. CASE AddToMemory
  BY <1>6, AddInOrder
<1>7. CASE AddToRedis \/ Persist
  <2>1. now' = now /\ points' = points /\ lastNet' = lastNet /\ pc' \in {"down", "idle"}
    BY <1>7 DEF AddToRedis, Persist, memVars, hostVars
  <2> QED
    BY <2>1, OrderStays
<1> QED
  BY <1>1, <1>2, <1>3, <1>4, <1>5, <1>6, <1>7 DEF Next

LEMMA OrderInvariance == Spec => []OrderInv
<1>1. Init => OrderInv
  <2>1. Init => Len(points) = 0 /\ pc = "down"
    BY EmptySeq DEF Init
  <2> QED
    BY <2>1 DEF OrderInv, Chronological, SteadyRate
<1>2. TypeInv /\ TypeInv' /\ OrderInv /\ [Next]_vars => OrderInv'
  BY OrderStep
<1> QED
  BY <1>1, <1>2, TypeInvariance, PTL DEF Spec

\* The points of the chart are in time order whatever the wall clock did: those Load
\* read by their scores, then those of this process by real time.
THEOREM ChartIsChronological == Spec => []Chronological
<1>1. OrderInv => Chronological
  BY DEF OrderInv
<1> QED
  BY <1>1, OrderInvariance, PTL

\* The rate of a sample over one of the same process is per real time, even when the
\* wall clock was set in between (applyNetRates, Time.Sub).
THEOREM RatesAreSteady == Spec => []SteadyRate
<1>1. OrderInv => SteadyRate
  BY DEF OrderInv
<1> QED
  BY <1>1, OrderInvariance, PTL
-----------------------------------------------------------------------------
(* Clock changes *)

\* Only Add goes from a sample to a point.
LEMMA AddIsNext ==
  ASSUME [Next]_vars, pc = "sampled", pc' = "added"
  PROVE  AddToMemory
  BY DEF Next, vars, Tick, SetClock, Crash, Reboot, Forget, StartFromRedis,
     StartMigrating, StartUnloaded, StartHalfMigrated, Starting, TakeSample, AddToRedis,
     Persist

\* Whatever the wall clock does, Add keeps each point of this process for the retention
\* in real time: trim compares the monotonic readings (History.Add, trim).
THEOREM AddKeepsOwn == Spec => OwnKept
<1> DEFINE Kept == (pc = "sampled" /\ pc' = "added") =>
             \A i \in 1..Len(points) :
               (points[i].ts.live /\ points[i].ts.mono >= now - Retention) =>
                 \E j \in 1..Len(points') : points'[j] = points[i]
<1>1. ASSUME TypeInv, [Next]_vars, pc = "sampled", pc' = "added",
             NEW i \in 1..Len(points), points[i].ts.live,
             points[i].ts.mono >= now - Retention
      PROVE  \E j \in 1..Len(points') : points'[j] = points[i]
  <2>1. AddToMemory
    BY <1>1, AddIsNext
  <2> DEFINE n == Len(points)
             all == Append(points, cur')
  <2>2. /\ n \in Nat /\ \A l \in 1..n : all[l] = points[l]
        /\ \E k \in 0..(n + 1) :
             /\ points' \in Seq(Sample) /\ Len(points') = n + 1 - k
             /\ \A l \in 1..(n + 1 - k) : points'[l] = all[k + l]
             /\ \A l \in 1..k : Expired(all[l])
    BY <1>1, <2>1, AddShape DEF TypeInv
  <2>3. PICK k \in 0..(n + 1) :
          /\ Len(points') = n + 1 - k
          /\ \A l \in 1..(n + 1 - k) : points'[l] = all[k + l]
          /\ \A l \in 1..k : Expired(all[l])
    BY <2>2
  <2>4. ~Expired(points[i])
    <3>1. now \in Nat /\ points[i].ts.mono \in Int
      BY <1>1, PointsType
    <3>2. Elapsed(points[i].ts, Cutoff) = points[i].ts.mono - (now - Retention)
      BY <1>1 DEF Elapsed, Cutoff
    <3> QED
      BY <1>1, <3>1, <3>2 DEF Expired
  <2> HIDE DEF all
  <2>5. i - k \in 1..(n + 1 - k) /\ k + (i - k) = i
    <3>1. n + 1 \in Nat /\ i \in 1..(n + 1) /\ i \notin 1..k
      BY <2>2, <2>3, <2>4
    <3> QED
      BY <3>1, BehindPrefix
  <2> QED
    BY <2>2, <2>3, <2>5
<1>2. TypeInv /\ [Next]_vars => [Kept]_vars
  BY <1>1
<1> QED
  BY <1>2, TypeInvariance, PTL DEF Spec, OwnKept
-----------------------------------------------------------------------------
(* The right clock *)

\* With a right clock both readings of a time agree, so that trim cuts by the wall
\* clock too, within the millisecond at which Redis is cut, and a sample leaves
\* memory only when it is past the retention.
RightInv ==
  /\ skew = 0
  /\ \A i \in 1..Len(points) : points[i].ts.mono = points[i].ts.wall
  /\ \A p \in redis : p.ts.mono = p.ts.wall
  /\ pc \in {"sampled", "added"} =>
       cur.ts.mono = cur.ts.wall /\ cur.ts.wall <= now
  /\ pc = "added" =>
       (\E i \in 1..Len(points) : points[i] = cur) \/ cur.ts.wall < now - Retention
  /\ pc = "down" => Len(points) = 0
  /\ ServesStored

LEMMA RightCutoff ==
  ASSUME TypeInv, skew = 0
  PROVE  /\ now \in Nat /\ Wall = now /\ CutoffScore = UnixMilli(now - Retention)
         /\ \A p \in Sample : p.ts.mono = p.ts.wall =>
              (Expired(p) <=> p.ts.wall < now - Retention)
<1>1. now \in Nat
  BY PointsType
<1>2. /\ Wall = now /\ CutoffScore = UnixMilli(now - Retention)
      /\ Cutoff.wall = now - Retention /\ Cutoff.mono = now - Retention
  BY <1>1 DEF CutoffScore, Cutoff, Wall
<1>3. ASSUME NEW p \in Sample, p.ts.mono = p.ts.wall
      PROVE  Expired(p) <=> p.ts.wall < now - Retention
  <2>1. Elapsed(p.ts, Cutoff) = p.ts.wall - (now - Retention)
    BY <1>2, <1>3 DEF Elapsed
  <2> QED
    BY <1>1, <1>3, <2>1, StampsType DEF Expired
<1> QED
  BY <1>1, <1>2, <1>3

\* What Redis has of the window is served, when Load succeeded.
LEMMA AdoptServes ==
  ASSUME TypeInv, TypeInv', skew = 0, Adopt(redis'), UNCHANGED <<now, skew>>,
         \A p \in redis' : p.ts.mono = p.ts.wall
  PROVE  /\ ServesStored'
         /\ \A i \in 1..Len(points') : points'[i] \in redis'
         /\ \A q \in redis' : q.ts.wall >= now - Retention => Score(q) >= CutoffScore
<1>1. redis' \in SUBSET Sample /\ IsFiniteSet(redis') /\ \A p \in redis' : ~p.ts.live
  BY DEF TypeInv, TypeOK, StoreOK
<1>2. PICK s \in Seq(redis') : \E k \in 0..Len(s) :
        /\ \A p \in Window(redis') : \E i \in 1..Len(s) : s[i] = p
        /\ \A i, j \in 1..Len(s) : i < j => Score(s[i]) <= Score(s[j])
        /\ points' \in Seq(redis') /\ Len(points') = Len(s) - k
        /\ \A i \in 1..(Len(s) - k) : points'[i] = s[k + i]
        /\ \A i \in 1..k : Expired(s[i])
        /\ lastNet' = IF k < Len(s) THEN Baseline(s[Len(s)]) ELSE None
  BY <1>1, AdoptShape
<1>3. PICK k \in 0..Len(s) :
        /\ \A p \in Window(redis') : \E i \in 1..Len(s) : s[i] = p
        /\ points' \in Seq(redis') /\ Len(points') = Len(s) - k
        /\ \A i \in 1..(Len(s) - k) : points'[i] = s[k + i]
        /\ \A i \in 1..k : Expired(s[i])
  BY <1>2
<1>4. Len(s) \in Nat
  BY LenProperties
<1>5. /\ now \in Nat /\ now - Retention \in Int /\ Wall' = now
      /\ CutoffScore = UnixMilli(now - Retention)
      /\ Window(redis') = {p \in redis' : Score(p) >= CutoffScore}
  BY RightCutoff DEF Wall, Window
<1>w. ASSUME NEW q \in redis', q.ts.wall >= now - Retention
      PROVE  Score(q) >= CutoffScore
  <2>1. q.ts.wall \in Int /\ Score(q) = UnixMilli(q.ts.wall) /\ Score(q) \in Int
    BY <1>1, ScoreType
  <2>2. UnixMilli(now - Retention) <= UnixMilli(q.ts.wall)
    BY <1>5, <1>w, <2>1, MilliMonotone
  <2>3. CutoffScore \in Int
    BY <1>5, MilliType
  <2> QED
    BY <1>5, <2>1, <2>2, <2>3
<1>6. ASSUME NEW q \in redis', q.ts.wall >= now - Retention
      PROVE  \E i \in 1..Len(points') : Stored(points'[i]) = q
  <2>1. q \in Sample /\ ~q.ts.live /\ q.ts.mono = q.ts.wall /\ q.ts.wall \in Int
    BY <1>1, StampsType
  <2>2. PICK l \in 1..Len(s) : s[l] = q
    BY <1>3, <1>5, <1>6, <1>w
  <2>3. ~Expired(q)
    BY <1>5, <1>6, <2>1, RightCutoff
  <2>4. l - k \in 1..(Len(s) - k) /\ k + (l - k) = l
    <3>1. l \notin 1..k
      BY <1>3, <2>2, <2>3
    <3> QED
      BY <1>4, <3>1, BehindPrefix
  <2>5. points'[l - k] = q
    BY <1>3, <2>2, <2>4
  <2>6. Stored(q) = q
    BY <2>1, StoredType
  <2> QED
    BY <1>3, <2>4, <2>5, <2>6
<1>7. ServesStored'
  BY <1>5, <1>6 DEF ServesStored, Fresh
<1> QED
  BY <1>3, <1>w, <1>7, ElementOfSeq

\* Only expired points leave memory.
LEMMA AddKeepsWindow ==
  ASSUME TypeInv, RightInv, AddToMemory
  PROVE  /\ cur' \in Sample /\ cur'.ts = cur.ts
         /\ \A i \in 1..Len(points') :
              points'[i] = cur' \/ \E j \in 1..Len(points) : points'[i] = points[j]
         /\ \A j \in 1..Len(points) : points[j].ts.wall >= now - Retention =>
              \E i \in 1..Len(points') : points'[i] = points[j]
         /\ cur.ts.wall >= now - Retention => \E i \in 1..Len(points') : points'[i] = cur'
<1> DEFINE n == Len(points)
           all == Append(points, cur')
<1>1. /\ cur' \in Sample /\ cur'.ts = cur.ts
      /\ \A i \in 1..Len(points') :
           points'[i] = cur' \/ \E j \in 1..n : points'[i] = points[j]
  BY AddType DEF TypeInv
<1>2. /\ n \in Nat /\ all[n + 1] = cur' /\ \A i \in 1..n : all[i] = points[i]
      /\ \E k \in 0..(n + 1) :
           /\ points' \in Seq(Sample) /\ Len(points') = n + 1 - k
           /\ \A i \in 1..(n + 1 - k) : points'[i] = all[k + i]
           /\ \A i \in 1..k : Expired(all[i])
  BY AddShape DEF TypeInv
<1>3. PICK k \in 0..(n + 1) :
        /\ Len(points') = n + 1 - k
        /\ \A i \in 1..(n + 1 - k) : points'[i] = all[k + i]
        /\ \A i \in 1..k : Expired(all[i])
  BY <1>2
<1> HIDE DEF all, n
<1>4. ASSUME NEW j \in 1..(n + 1), ~Expired(all[j])
      PROVE  \E i \in 1..Len(points') : points'[i] = all[j]
  <2>1. j - k \in 1..(n + 1 - k) /\ k + (j - k) = j
    BY <1>2, <1>3, <1>4
  <2> QED
    BY <1>3, <2>1
<1>5. skew = 0 /\ now \in Nat /\ cur.ts.mono = cur.ts.wall
  BY PointsType DEF RightInv, AddToMemory
<1>6. ASSUME NEW j \in 1..n, points[j].ts.wall >= now - Retention
      PROVE  \E i \in 1..Len(points') : points'[i] = points[j]
  <2>1. points[j] \in Sample /\ points[j].ts.wall \in Int
        /\ points[j].ts.mono = points[j].ts.wall
    BY PointsType DEF RightInv, n
  <2>2. ~Expired(points[j])
    BY <1>5, <1>6, <2>1, RightCutoff
  <2>3. j \in 1..(n + 1) /\ all[j] = points[j]
    BY <1>2
  <2> QED
    BY <1>4, <2>2, <2>3
<1>7. ASSUME cur.ts.wall >= now - Retention
      PROVE  \E i \in 1..Len(points') : points'[i] = cur'
  <2>1. cur'.ts.wall \in Int /\ cur'.ts.mono = cur'.ts.wall
    BY <1>1, <1>5, StampsType
  <2>2. ~Expired(cur')
    BY <1>1, <1>5, <1>7, <2>1, RightCutoff
  <2>3. n + 1 \in 1..(n + 1)
    BY <1>2
  <2> QED
    BY <1>2, <1>4, <2>2, <2>3
<1> QED
  BY <1>1, <1>6, <1>7 DEF n

\* What the collector has in hand, and what was loaded, when the process is gone or
\* starts with nothing.
LEMMA RightWithout ==
  ASSUME skew' = 0, points' = <<>>,
         pc' = "down" \/ (pc' = "idle" /\ unread' = redis'),
         \A p \in redis' : p.ts.mono = p.ts.wall
  PROVE  RightInv'
<1>1. Len(points') = 0
  BY EmptySeq
<1> QED
  BY <1>1 DEF RightInv, ServesStored

LEMMA LegacyRight == \A p \in Legacy : p.ts.mono = p.ts.wall
  BY DEF Legacy, LegacyPoint

LEMMA RightTick ==
  ASSUME TypeInv, RightInv, Tick
  PROVE  RightInv'
<1>1. /\ now' = now + 1 /\ now \in Nat /\ skew = 0
      /\ UNCHANGED <<skew, pc, cur, redis, points, unread>>
  BY PointsType DEF Tick, memVars, RightInv
<1>2. pc \in {"sampled", "added"} => cur.ts.wall \in Int
  BY StampsType DEF TypeInv, TypeOK, CollectorOK
<1>3. /\ pc \in {"sampled", "added"} => cur.ts.wall <= now'
      /\ pc = "added" => (\E i \in 1..Len(points) : points[i] = cur)
                            \/ cur.ts.wall < now' - Retention
  BY <1>1, <1>2 DEF RightInv
<1>4. ServesStored'
  <2>1. ASSUME NEW q \in redis, Fresh(q)' PROVE Fresh(q)
    <3>1. q.ts.wall \in Int
      BY ScoreType DEF TypeInv, TypeOK, StoreOK
    <3> QED
      BY <1>1, <2>1, <3>1 DEF Fresh, Wall
  <2> QED
    BY <1>1, <2>1 DEF RightInv, ServesStored, Fresh
<1> QED
  BY <1>1, <1>3, <1>4 DEF RightInv

LEMMA RightAdd ==
  ASSUME TypeInv, RightInv, AddToMemory
  PROVE  RightInv'
<1>1. /\ pc = "sampled" /\ pc' = "added" /\ UNCHANGED <<now, skew, redis, unread>>
      /\ skew = 0 /\ cur.ts.mono = cur.ts.wall /\ cur.ts.wall <= now /\ now \in Nat
  BY PointsType DEF AddToMemory, hostVars, RightInv
<1>2. /\ cur' \in Sample /\ cur'.ts = cur.ts
      /\ \A i \in 1..Len(points') :
           points'[i] = cur' \/ \E j \in 1..Len(points) : points'[i] = points[j]
      /\ \A j \in 1..Len(points) : points[j].ts.wall >= now - Retention =>
           \E i \in 1..Len(points') : points'[i] = points[j]
      /\ cur.ts.wall >= now - Retention => \E i \in 1..Len(points') : points'[i] = cur'
  BY AddKeepsWindow
<1>3. \A i \in 1..Len(points') : points'[i].ts.mono = points'[i].ts.wall
  BY <1>1, <1>2 DEF RightInv
<1>4. cur.ts.wall \in Int
  BY <1>2, StampsType
<1>5. (\E i \in 1..Len(points') : points'[i] = cur') \/ cur'.ts.wall < now - Retention
  BY <1>1, <1>2, <1>4
<1>6. ServesStored'
  <2> SUFFICES ASSUME NEW q \in redis \ unread, Fresh(q)
               PROVE  \E i \in 1..Len(points') : Stored(points'[i]) = q
    BY <1>1 DEF ServesStored, Fresh, Wall
  <2>1. PICK j \in 1..Len(points) : Stored(points[j]) = q
    BY <1>1 DEF RightInv, ServesStored
  <2>2. points[j] \in Sample /\ q.ts.wall = points[j].ts.wall
    BY <2>1, PointsType DEF Stored, Sample, StampSet
  <2>3. points[j].ts.wall >= now - Retention
    BY <1>1, <2>2 DEF Fresh, Wall
  <2>4. PICK i \in 1..Len(points') : points'[i] = points[j]
    BY <1>2, <2>3
  <2> QED
    BY <2>1, <2>4
<1> QED
  BY <1>1, <1>2, <1>3, <1>5, <1>6 DEF RightInv

LEMMA RightWrite ==
  ASSUME TypeInv, RightInv, AddToRedis
  PROVE  RightInv'
<1>1. /\ pc = "added" /\ pc' = "idle" /\ redis' \subseteq redis \cup {Stored(cur)}
      /\ UNCHANGED <<now, skew, points, unread>>
  BY DEF AddToRedis, hostVars, Purge
<1>2. /\ cur \in Sample /\ cur.ts.mono = cur.ts.wall /\ cur.ts.wall \in Int /\ now \in Nat
      /\ skew = 0
      /\ (\E i \in 1..Len(points) : points[i] = cur) \/ cur.ts.wall < now - Retention
  BY <1>1, StampsType, PointsType DEF RightInv, TypeInv, TypeOK, CollectorOK
<1>3. Stored(cur).ts.mono = Stored(cur).ts.wall /\ Stored(cur).ts.wall = cur.ts.wall
  BY <1>2 DEF Stored, Sample, StampSet
<1>4. ServesStored'
  <2> SUFFICES ASSUME NEW q \in redis' \ unread, Fresh(q)
               PROVE  \E i \in 1..Len(points) : Stored(points[i]) = q
    BY <1>1 DEF ServesStored, Fresh, Wall
  <2>1. CASE q \in redis
    BY <1>1, <2>1 DEF RightInv, ServesStored
  <2>2. CASE q = Stored(cur)
    <3>1. cur.ts.wall >= now - Retention
      BY <1>2, <1>3, <2>2 DEF Fresh, Wall
    <3> QED
      BY <1>2, <2>2, <3>1
  <2> QED
    BY <1>1, <2>1, <2>2
<1> QED
  BY <1>1, <1>2, <1>3, <1>4 DEF RightInv

LEMMA RightStep ==
  ASSUME Skews = {0}
  PROVE  TypeInv /\ TypeInv' /\ RightInv /\ [Next]_vars => RightInv'
<1> SUFFICES ASSUME TypeInv, TypeInv', RightInv, [Next]_vars
             PROVE  RightInv'
  OBVIOUS
<1>0. skew = 0 /\ skew' = 0 /\ now \in Nat /\ \A p \in redis : p.ts.mono = p.ts.wall
  BY PointsType DEF TypeInv, TypeOK, HostOK, RightInv
<1>1. CASE Tick
  BY <1>1, RightTick
<1>2. CASE SetClock
  BY <1>0, <1>2 DEF SetClock
<1>3. CASE Crash \/ Reboot
  BY <1>0, <1>3, RightWithout DEF Crash, Reboot, Forget
<1>4. CASE StartFromRedis \/ StartMigrating
  <2>1. /\ Adopt(redis') /\ pc' = "idle" /\ UNCHANGED <<now, skew>>
        /\ redis' \subseteq redis \cup Legacy
    BY <1>4 DEF StartFromRedis, StartMigrating, Starting
  <2>2. \A p \in redis' : p.ts.mono = p.ts.wall
    BY <1>0, <2>1, LegacyRight
  <2>3. ServesStored' /\ \A i \in 1..Len(points') : points'[i] \in redis'
    BY <1>0, <2>1, <2>2, AdoptServes
  <2> QED
    BY <1>0, <2>1, <2>2, <2>3 DEF RightInv
<1>5. CASE StartUnloaded \/ StartHalfMigrated
  <2>1. /\ points' = <<>> /\ unread' = redis' /\ pc' = "idle"
        /\ redis' \subseteq redis \cup Legacy
    BY <1>5 DEF StartUnloaded, StartHalfMigrated, LoadFails, Starting
  <2> QED
    BY <1>0, <2>1, LegacyRight, RightWithout
<1>6. CASE TakeSample
  <2>1. /\ pc' = "sampled" /\ cur'.ts = Stamp
        /\ UNCHANGED <<now, skew, redis, points, unread>>
    BY <1>6 DEF TakeSample, memVars, hostVars
  <2>2. Stamp.mono = now /\ Stamp.wall = now
    BY <1>0 DEF Stamp, Wall
  <2>3. ServesStored'
    BY <1>6, <2>1 DEF TakeSample, RightInv, ServesStored, Fresh, Wall
  <2> QED
    BY <1>0, <2>1, <2>2, <2>3 DEF RightInv
<1>7. CASE AddToMemory
  BY <1>7, RightAdd
<1>8. CASE AddToRedis
  BY <1>8, RightWrite
<1>9. CASE Persist
  <2>1. redis' \subseteq redis /\ UNCHANGED <<now, skew, pc, cur, points, unread>>
    BY <1>9 DEF Persist, Purge, memVars, hostVars
  <2>2. ServesStored'
    BY <2>1 DEF RightInv, ServesStored, Fresh, Wall
  <2> QED
    BY <2>1, <2>2 DEF RightInv
<1>10. CASE UNCHANGED vars
  BY <1>10 DEF vars, RightInv, ServesStored, Fresh, Wall
<1> QED
  BY <1>1, <1>2, <1>3, <1>4, <1>5, <1>6, <1>7, <1>8, <1>9, <1>10 DEF Next

LEMMA RightInvariance ==
  ASSUME Skews = {0}
  PROVE  Spec => []RightInv
<1>1. Init => RightInv
  <2>1. Init => Len(points) = 0
    BY EmptySeq DEF Init
  <2> QED
    BY <2>1 DEF Init, RightInv, ServesStored
<1>2. TypeInv /\ TypeInv' /\ RightInv /\ [Next]_vars => RightInv'
  BY RightStep
<1> QED
  BY <1>1, <1>2, TypeInvariance, PTL DEF Spec

\* With a right clock, a process serves every sample within the retention that Redis
\* holds, but for those a failed Load left unread: trim never runs ahead of the sorted
\* set, although it is cut at the millisecond (Load, Add, Persist).
THEOREM StoredIsServed ==
  ASSUME Skews = {0}
  PROVE  Spec => []ServesStored
<1>1. RightInv => ServesStored
  BY DEF RightInv
<1> QED
  BY <1>1, RightInvariance, PTL

\* With a right clock, and a legacy file that was written before, the points are in
\* the order of their scores: no expired one hides behind one of a later millisecond.
SortedInv ==
  /\ \A p \in redis : p.ts.wall <= now
  /\ \A i \in 1..Len(points) : points[i].ts.wall <= now
  /\ \A i, j \in 1..Len(points) : i < j => Score(points[i]) <= Score(points[j])
  /\ pc = "sampled" => \A i \in 1..Len(points) : points[i].ts.wall <= cur.ts.wall

\* Add keeps an expired prefix from nobody else: what stays is in the window, in order.
LEMMA AddSorted ==
  ASSUME TypeInv, RightInv, SortedInv, AddToMemory
  PROVE  /\ \A i, j \in 1..Len(points') : i < j => Score(points'[i]) <= Score(points'[j])
         /\ \A i \in 1..Len(points') : Score(points'[i]) >= CutoffScore
<1> DEFINE n == Len(points)
           all == Append(points, cur')
<1>1. pc = "sampled" /\ skew = 0 /\ now \in Nat /\ cur.ts.mono = cur.ts.wall
  BY PointsType DEF AddToMemory, RightInv
<1>2. /\ n \in Nat /\ all[n + 1] = cur' /\ \A i \in 1..n : all[i] = points[i]
      /\ \A i \in 1..(n + 1) : all[i] \in Sample
      /\ \E k \in 0..(n + 1) :
           /\ points' \in Seq(Sample) /\ Len(points') = n + 1 - k
           /\ \A i \in 1..(n + 1 - k) : points'[i] = all[k + i]
           /\ \A i \in 1..k : Expired(all[i])
           /\ k < n + 1 => ~Expired(all[k + 1])
  BY AddShape DEF TypeInv
<1>3. PICK k \in 0..(n + 1) :
        /\ Len(points') = n + 1 - k
        /\ \A i \in 1..(n + 1 - k) : points'[i] = all[k + i]
        /\ k < n + 1 => ~Expired(all[k + 1])
  BY <1>2
<1>4. cur'.ts = cur.ts /\ \A i \in 1..n : points[i].ts.mono = points[i].ts.wall
  BY AddType DEF TypeInv, RightInv
<1>5. \A i, j \in 1..(n + 1) : i < j => Score(all[i]) <= Score(all[j])
  <2> SUFFICES ASSUME NEW i \in 1..(n + 1), NEW j \in 1..(n + 1), i < j
               PROVE  Score(all[i]) <= Score(all[j])
    OBVIOUS
  <2>1. i \in 1..n /\ (j \in 1..n \/ j = n + 1)
    BY <1>2, BeforeAnother
  <2>2. CASE j \in 1..n
    <3>1. Score(points[i]) <= Score(points[j])
      BY <2>1, <2>2 DEF SortedInv, Score
    <3> QED
      BY <1>2, <2>1, <2>2, <3>1
  <2>3. CASE j = n + 1
    <3>1. all[i] = points[i] /\ all[j] = cur'
      BY <1>2, <2>1, <2>3
    <3>2. points[i].ts.wall <= cur'.ts.wall
      BY <1>1, <1>4, <2>1 DEF SortedInv
    <3>3. all[i] \in Sample /\ all[j] \in Sample
      BY <1>2
    <3>4. all[i].ts.wall \in Int /\ all[j].ts.wall \in Int
          /\ Score(all[i]) = UnixMilli(all[i].ts.wall)
          /\ Score(all[j]) = UnixMilli(all[j].ts.wall)
      BY <3>3, ScoreType
    <3>5. UnixMilli(all[i].ts.wall) <= UnixMilli(all[j].ts.wall)
      BY <3>1, <3>2, <3>4, MilliMonotone
    <3> QED
      BY <3>4, <3>5
  <2> QED
    BY <2>1, <2>2, <2>3
<1>6. \A i \in 1..(n + 1) : all[i].ts.mono = all[i].ts.wall /\ all[i].ts.wall \in Int
  <2>1. \A i \in 1..(n + 1) : i \in 1..n \/ i = n + 1
    BY <1>2
  <2> QED
    BY <1>1, <1>2, <1>4, <2>1, StampsType
<1> HIDE DEF n, all
<1>7. \A i \in 1..Len(points') : k + i \in 1..(n + 1) /\ k + 1 \in 1..(n + 1) /\ k < n + 1
  BY <1>2, <1>3
<1>8. \A i \in 1..Len(points') : Score(points'[i]) >= CutoffScore
  <2> SUFFICES ASSUME NEW i \in 1..Len(points')
               PROVE  Score(points'[i]) >= CutoffScore
    OBVIOUS
  <2>0. /\ all[k + 1] \in Sample /\ all[k + 1].ts.wall \in Int
        /\ all[k + i] \in Sample /\ points'[i] = all[k + i]
        /\ all[k + 1].ts.mono = all[k + 1].ts.wall /\ ~Expired(all[k + 1])
    BY <1>2, <1>3, <1>6, <1>7
  <2>1. all[k + 1].ts.wall >= now - Retention /\ CutoffScore = UnixMilli(now - Retention)
    BY <1>1, <2>0, RightCutoff
  <2>2. /\ Score(all[k + 1]) = UnixMilli(all[k + 1].ts.wall)
        /\ Score(all[k + 1]) \in Int /\ Score(all[k + i]) \in Int
    BY <2>0, ScoreType
  <2>3. Score(all[k + 1]) <= Score(all[k + i])
    <3>1. i = 1 \/ k + 1 < k + i
      BY <1>3, <1>2
    <3> QED
      BY <1>5, <1>7, <2>2, <3>1
  <2>4. UnixMilli(now - Retention) <= UnixMilli(all[k + 1].ts.wall)
    <3>1. now - Retention \in Int
      BY <1>1
    <3> QED
      BY <2>0, <2>1, <3>1, MilliMonotone
  <2>5. CutoffScore \in Int
    BY ScoreType DEF TypeInv
  <2> QED
    BY <2>0, <2>1, <2>2, <2>3, <2>4, <2>5
<1>9. \A i, j \in 1..Len(points') : i < j => Score(points'[i]) <= Score(points'[j])
  <2> SUFFICES ASSUME NEW i \in 1..Len(points'), NEW j \in 1..Len(points'), i < j
               PROVE  Score(points'[i]) <= Score(points'[j])
    OBVIOUS
  <2>1. k + i < k + j
    BY <1>2, <1>3
  <2> QED
    BY <1>3, <1>5, <1>7, <2>1
<1> QED
  BY <1>8, <1>9

\* The legacy file was written before this history began.
LEMMA SortedStep ==
  ASSUME Skews = {0}, \A w \in LegacyStamps : w <= 0
  PROVE  TypeInv /\ TypeInv' /\ RightInv /\ SortedInv /\ [Next]_vars => SortedInv'
<1> SUFFICES ASSUME TypeInv, TypeInv', RightInv, SortedInv, [Next]_vars
             PROVE  SortedInv'
  OBVIOUS
<1>0. skew = 0 /\ now \in Nat /\ now' \in Nat
  BY PointsType DEF RightInv, TypeInv, TypeOK, HostOK
<1>w. /\ \A p \in redis : p.ts.wall \in Int
      /\ \A i \in 1..Len(points) : points[i].ts.wall \in Int
  BY StampsType, PointsType DEF TypeInv, TypeOK, StoreOK
<1>l. \A p \in Legacy : p.ts.wall <= now
  <2>1. ASSUME NEW w \in LegacyStamps
        PROVE  LegacyPoint(w).ts.wall <= now
    <3>1. w \in Int /\ w <= 0
      OBVIOUS
    <3> QED
      BY <1>0, <3>1 DEF LegacyPoint
  <2> QED
    BY <2>1 DEF Legacy
<1>n. ASSUME points' = <<>>, pc' \in {"down", "idle"}, now' = now,
             redis' \subseteq redis \cup Legacy
      PROVE  SortedInv'
  <2>1. Len(points') = 0
    BY <1>n, EmptySeq
  <2> QED
    BY <1>l, <1>n, <2>1 DEF SortedInv
<1>1. CASE Tick
  <2>1. now' = now + 1 /\ UNCHANGED <<pc, cur, points, redis>>
    BY <1>1 DEF Tick, memVars
  <2> QED
    BY <1>0, <1>w, <2>1 DEF SortedInv, Score
<1>2. CASE SetClock
  BY <1>0, <1>2 DEF SetClock
<1>3. CASE Crash \/ Reboot
  BY <1>3, <1>n DEF Crash, Reboot, Forget, hostVars
<1>4. CASE StartFromRedis \/ StartMigrating
  <2>1. /\ Adopt(redis') /\ pc' = "idle" /\ now' = now
        /\ redis' \subseteq redis \cup Legacy
    BY <1>4 DEF StartFromRedis, StartMigrating, Starting
  <2>2. \A p \in redis' : p.ts.wall <= now
    BY <1>l, <2>1 DEF SortedInv
  <2>3. /\ \A i \in 1..Len(points') : points'[i] \in redis'
        /\ \A i, j \in 1..Len(points') : i < j => Score(points'[i]) <= Score(points'[j])
    BY <2>1, AdoptSorted
  <2> QED
    BY <2>1, <2>2, <2>3 DEF SortedInv, Score
<1>5. CASE StartUnloaded \/ StartHalfMigrated
  BY <1>5, <1>n DEF StartUnloaded, StartHalfMigrated, LoadFails, Starting
<1>6. CASE TakeSample
  <2>1. cur'.ts = Stamp /\ UNCHANGED <<now, redis, points>>
    BY <1>6 DEF TakeSample, memVars, hostVars
  <2>2. Stamp.wall = now
    BY <1>0 DEF Stamp, Wall
  <2> QED
    BY <2>1, <2>2 DEF SortedInv, Score
<1>7. CASE AddToMemory
  <2>1. /\ pc = "sampled" /\ pc' = "added" /\ UNCHANGED <<now, redis>>
    BY <1>7 DEF AddToMemory, hostVars
  <2>2. \A i, j \in 1..Len(points') : i < j => Score(points'[i]) <= Score(points'[j])
    BY <1>7, AddSorted
  <2>3. /\ cur'.ts = cur.ts
        /\ \A i \in 1..Len(points') :
             points'[i] = cur' \/ \E j \in 1..Len(points) : points'[i] = points[j]
    BY <1>7, AddKeepsWindow
  <2>4. cur'.ts.wall <= now
    BY <2>1, <2>3 DEF RightInv
  <2>5. \A i \in 1..Len(points') : points'[i].ts.wall <= now
    BY <2>3, <2>4 DEF SortedInv
  <2> QED
    BY <2>1, <2>2, <2>5 DEF SortedInv, Score
<1>8. CASE AddToRedis
  <2>1. /\ pc = "added" /\ pc' = "idle" /\ redis' \subseteq redis \cup {Stored(cur)}
        /\ UNCHANGED <<now, points>>
    BY <1>8 DEF AddToRedis, hostVars, Purge
  <2>2. cur \in Sample /\ cur.ts.wall <= now
    BY <2>1 DEF RightInv, TypeInv, TypeOK, CollectorOK
  <2>3. Stored(cur).ts.wall <= now
    BY <2>2 DEF Stored, Sample, StampSet
  <2> QED
    BY <2>1, <2>3 DEF SortedInv, Score
<1>9. CASE Persist
  <2>1. redis' \subseteq redis /\ UNCHANGED <<now, pc, cur, points>>
    BY <1>9 DEF Persist, Purge, memVars, hostVars
  <2> QED
    BY <2>1 DEF SortedInv, Score
<1>10. CASE UNCHANGED vars
  BY <1>10 DEF vars, SortedInv, Score
<1> QED
  BY <1>1, <1>2, <1>3, <1>4, <1>5, <1>6, <1>7, <1>8, <1>9, <1>10 DEF Next

\* With a right clock, and a legacy file that was written before, Add keeps every point
\* of the retention, and of the older ones at most those of the cutoff's millisecond
\* (History.Add, trim).
THEOREM AddTrimsExactly ==
  ASSUME Skews = {0}, \A w \in LegacyStamps : w <= 0
  PROVE  Spec => TrimExact
<1> DEFINE Among(s) == {s[i] : i \in 1..Len(s)}
           all == Among(Append(points, cur'))
           kept == Among(points')
           Exact == (pc = "sampled" /\ pc' = "added") =>
                      /\ {p \in all : Fresh(p)} \subseteq kept
                      /\ kept \subseteq {p \in all : Score(p) >= CutoffScore}
<1>1. Init => SortedInv
  <2>1. Init => Len(points) = 0
    BY EmptySeq DEF Init
  <2> QED
    BY <2>1 DEF Init, SortedInv
<1>2. TypeInv /\ TypeInv' /\ RightInv /\ SortedInv /\ [Next]_vars => SortedInv'
  BY SortedStep
<1>3. ASSUME TypeInv, RightInv, SortedInv, [Next]_vars, pc = "sampled", pc' = "added"
      PROVE  /\ {p \in all : Fresh(p)} \subseteq kept
             /\ kept \subseteq {p \in all : Score(p) >= CutoffScore}
  <2>1. AddToMemory
    BY <1>3, AddIsNext
  <2>2. /\ Len(points) \in Nat /\ Len(Append(points, cur')) = Len(points) + 1
        /\ Append(points, cur')[Len(points) + 1] = cur'
        /\ \A i \in 1..Len(points) : Append(points, cur')[i] = points[i]
    BY <1>3, <2>1, AddShape DEF TypeInv
  <2>3. all = {points[i] : i \in 1..Len(points)} \cup {cur'}
    <3>1. \A i : i \in 1..(Len(points) + 1) <=> i \in 1..Len(points) \/ i = Len(points) + 1
      BY <2>2
    <3> QED
      BY <2>2, <3>1
  <2>4. /\ \A i \in 1..Len(points') :
             points'[i] = cur' \/ \E j \in 1..Len(points) : points'[i] = points[j]
        /\ \A j \in 1..Len(points) : points[j].ts.wall >= now - Retention =>
             \E i \in 1..Len(points') : points'[i] = points[j]
        /\ cur.ts.wall >= now - Retention => \E i \in 1..Len(points') : points'[i] = cur'
        /\ cur'.ts = cur.ts
    BY <1>3, <2>1, AddKeepsWindow
  <2>5. \A i \in 1..Len(points') : Score(points'[i]) >= CutoffScore
    BY <1>3, <2>1, AddSorted
  <2>6. Wall = now
    BY <1>3, RightCutoff DEF RightInv
  <2>7. ASSUME NEW p \in all, Fresh(p)
        PROVE  p \in kept
    <3>1. p.ts.wall >= now - Retention
      BY <2>6, <2>7 DEF Fresh
    <3>2. CASE \E j \in 1..Len(points) : p = points[j]
      <4>1. \E i \in 1..Len(points') : points'[i] = p
        BY <2>4, <3>1, <3>2
      <4> QED
        BY <4>1
    <3>3. CASE p = cur'
      <4>1. p.ts = cur.ts
        BY <2>4, <3>3
      <4>2. \E i \in 1..Len(points') : points'[i] = p
        BY <2>4, <3>1, <3>3, <4>1
      <4> QED
        BY <4>2
    <3> QED
      BY <2>3, <2>7, <3>2, <3>3
  <2>8. \A p \in kept : p \in all /\ Score(p) >= CutoffScore
    BY <2>3, <2>4, <2>5
  <2> QED
    BY <2>7, <2>8
<1>4. TypeInv /\ RightInv /\ SortedInv /\ [Next]_vars => [Exact]_vars
  BY <1>3
<1> QED
  BY <1>1, <1>2, <1>4, TypeInvariance, RightInvariance, PTL DEF Spec, TrimExact
-----------------------------------------------------------------------------
(* Memory and Redis as one log *)

\* The samples in memory as Redis would hold them, those within the window that only
\* memory has, and those within the window that Redis has.
InMemory == {Stored(points[i]) : i \in DOMAIN points}
Fragile == InWindow(InMemory \ redis)
Safe == InWindow(redis)
LogState == <<Wall, Fragile, Safe>>

\* The window is open after the cutoff's millisecond.
LEMMA LogFacts ==
  ASSUME TypeInv, skew = 0
  PROVE  /\ now \in Nat /\ Wall = now /\ CutoffScore \in Int
         /\ InMemory = {Stored(points[i]) : i \in 1..Len(points)}
         /\ \A p \in redis \cup InMemory : p \in Sample /\ Score(p) \in Int
         /\ Safe = {p \in redis : Score(p) > CutoffScore}
         /\ Fragile = {p \in InMemory : p \notin redis /\ Score(p) > CutoffScore}
<1>1. now \in Nat /\ Wall = now /\ CutoffScore \in Int
  BY PointsType, ScoreType DEF Wall, TypeInv
<1>2. InMemory = {Stored(points[i]) : i \in 1..Len(points)}
  <2>1. DOMAIN points = 1..Len(points)
    BY PointsType, LenProperties
  <2> QED
    BY <2>1 DEF InMemory
<1>3. \A p \in redis \cup InMemory : p \in Sample /\ Score(p) \in Int
  <2>1. \A i \in 1..Len(points) : Stored(points[i]) \in Sample
    BY PointsType, StoredType
  <2>2. \A p \in redis \cup InMemory : p \in Sample
    BY <1>2, <2>1 DEF TypeInv, TypeOK, StoreOK
  <2> QED
    BY <2>2, ScoreType
<1> QED
  BY <1>1, <1>2, <1>3 DEF Safe, Fragile, InWindow

\* A score past the cutoff is that of a sample within the retention.
LEMMA PastTheCutoff ==
  ASSUME TypeInv, skew = 0, NEW p \in Sample, Score(p) > CutoffScore
  PROVE  p.ts.wall >= now - Retention
<1>1. /\ now - Retention \in Int /\ CutoffScore = UnixMilli(now - Retention)
      /\ p.ts.wall \in Int /\ Score(p) = UnixMilli(p.ts.wall)
  BY RightCutoff, ScoreType
<1>2. UnixMilli(now - Retention) < UnixMilli(p.ts.wall)
  <2>1. UnixMilli(now - Retention) \in Int /\ UnixMilli(p.ts.wall) \in Int
    BY <1>1, MilliType
  <2> QED
    BY <1>1, <2>1
<1>3. now - Retention < p.ts.wall
  BY <1>1, <1>2, MilliLater
<1> QED
  BY <1>1, <1>3

\* Time takes samples from the window, and nothing else.
LEMMA TickPasses ==
  ASSUME TypeInv, TypeInv', skew = 0, skew' = 0, Tick
  PROVE  Log!Pass
<1>1. /\ now \in Nat /\ Wall = now /\ CutoffScore \in Int
      /\ \A p \in redis \cup InMemory : p \in Sample /\ Score(p) \in Int
      /\ Safe = {p \in redis : Score(p) > CutoffScore}
      /\ Fragile = {p \in InMemory : p \notin redis /\ Score(p) > CutoffScore}
  BY LogFacts
<1>2. now' = now + 1 /\ redis' = redis /\ points' = points /\ skew' = skew
  BY DEF Tick, memVars
<1>3. Wall' = now + 1 /\ CutoffScore' = UnixMilli(Wall' - Retention) /\ InMemory' = InMemory
  BY <1>1, <1>2 DEF Wall, CutoffScore, InMemory
<1>4. /\ Safe' = {p \in redis : Score(p) > CutoffScore'}
      /\ Fragile' = {p \in InMemory : p \notin redis /\ Score(p) > CutoffScore'}
  BY <1>2, <1>3 DEF Safe, Fragile, InWindow, Score
<1>5. CutoffScore <= CutoffScore' /\ CutoffScore' \in Int
  <2>1. /\ Wall - Retention \in Int /\ Wall' - Retention \in Int
        /\ Wall - Retention <= Wall' - Retention
    BY <1>1, <1>3
  <2>2. UnixMilli(Wall - Retention) <= UnixMilli(Wall' - Retention)
    BY <2>1, MilliMonotone
  <2>3. UnixMilli(Wall' - Retention) \in Int
    BY <2>1, MilliType
  <2> QED
    BY <1>3, <2>2, <2>3 DEF CutoffScore
<1>6. /\ Safe' = {p \in Safe : Score(p) > CutoffScore'}
      /\ Fragile' = {p \in Fragile : Score(p) > CutoffScore'}
  BY <1>1, <1>4, <1>5
<1>7. \A p : Log!Alive(p, Wall') <=> Score(p) > CutoffScore'
  BY <1>3 DEF Log!Alive, Score, UnixMilli
<1>8. /\ Safe' = {p \in Safe : Log!Alive(p, Wall')}
      /\ Fragile' = {p \in Fragile : Log!Alive(p, Wall')}
  BY <1>6, <1>7
<1>9. Wall' > Wall
  BY <1>1, <1>3
<1> QED
  BY <1>8, <1>9 DEF Log!Pass, Safe, Fragile, InMemory

\* Add makes one sample more fragile, unless it is too old by now or in Redis already.
LEMMA AddWrites ==
  ASSUME TypeInv, TypeInv', RightInv, AddToMemory
  PROVE  Log!Write \/ UNCHANGED LogState
<1>1. UNCHANGED <<now, skew, redis>> /\ skew = 0 /\ cur.ts.wall <= now
  BY DEF AddToMemory, hostVars, RightInv
<1>2. /\ now \in Nat /\ Wall = now
      /\ InMemory = {Stored(points[i]) : i \in 1..Len(points)}
      /\ Safe = {p \in redis : Score(p) > CutoffScore}
      /\ Fragile = {p \in InMemory : p \notin redis /\ Score(p) > CutoffScore}
  BY <1>1, LogFacts
<1>3. DOMAIN points' = 1..Len(points')
  BY LenProperties DEF TypeInv, TypeOK, MemoryOK
<1>4. Wall' = Wall /\ CutoffScore' = CutoffScore /\ Safe' = Safe
  BY <1>1 DEF Wall, CutoffScore, Safe, InWindow, Score
<1>5. Fragile' = {p \in InMemory' : p \notin redis /\ Score(p) > CutoffScore}
  BY <1>1, <1>4 DEF Fragile, InWindow, Score
<1>6. InMemory' = {Stored(points'[i]) : i \in 1..Len(points')}
  BY <1>3 DEF InMemory
<1>7. /\ cur' \in Sample /\ cur'.ts = cur.ts
      /\ \A i \in 1..Len(points') :
           points'[i] = cur' \/ \E j \in 1..Len(points) : points'[i] = points[j]
      /\ \A j \in 1..Len(points) : points[j].ts.wall >= now - Retention =>
           \E i \in 1..Len(points') : points'[i] = points[j]
      /\ cur.ts.wall >= now - Retention => \E i \in 1..Len(points') : points'[i] = cur'
  BY AddKeepsWindow
<1>8. /\ Score(Stored(cur')) = Score(cur') /\ Stored(cur').ts.wall = cur.ts.wall
      /\ \A i \in 1..Len(points) :
           points[i] \in Sample /\ Score(Stored(points[i])) = Score(points[i])
  BY <1>7, StoredType, PointsType DEF Stored, Sample, StampSet
<1>9. Fragile' = Fragile \cup {p \in {Stored(cur')} :
                                 p \notin redis /\ Score(p) > CutoffScore}
  <2>1. ASSUME NEW p \in InMemory' PROVE p \in InMemory \cup {Stored(cur')}
    BY <1>2, <1>6, <1>7
  <2>2. ASSUME NEW p \in Fragile PROVE p \in InMemory'
    <3>1. PICK j \in 1..Len(points) : p = Stored(points[j])
      BY <1>2
    <3>2. Score(points[j]) > CutoffScore
      BY <1>2, <1>8, <3>1
    <3>3. points[j].ts.wall >= now - Retention
      BY <1>1, <1>8, <3>2, PastTheCutoff
    <3> QED
      BY <1>6, <1>7, <3>1, <3>3
  <2>3. ASSUME Score(Stored(cur')) > CutoffScore PROVE Stored(cur') \in InMemory'
    <3>1. cur.ts.wall >= now - Retention
      BY <1>1, <1>7, <1>8, <2>3, PastTheCutoff
    <3> QED
      BY <1>6, <1>7, <3>1
  <2> QED
    BY <1>2, <1>5, <2>1, <2>2, <2>3
<1>10. CASE Stored(cur') \notin redis /\ Score(Stored(cur')) > CutoffScore
  <2>1. Fragile' = Fragile \cup {Stored(cur')}
    BY <1>9, <1>10
  <2>2. Stored(cur').ts.wall <= Wall
    BY <1>1, <1>2, <1>8
  <2>3. \E p \in Fragile' : Fragile' = Fragile \cup {p} /\ p.ts.wall <= Wall
    BY <2>1, <2>2
  <2> QED
    BY <1>4, <2>3 DEF Log!Write, Safe, Fragile, InMemory
<1>11. CASE ~(Stored(cur') \notin redis /\ Score(Stored(cur')) > CutoffScore)
  <2>1. Fragile' = Fragile
    BY <1>9, <1>11
  <2> QED
    BY <1>4, <2>1 DEF LogState
<1> QED
  BY <1>10, <1>11

\* What Redis deletes at the cutoff was out of the window: the log does not notice.
LEMMA PurgeUnseen ==
  ASSUME TypeInv, RightInv, UNCHANGED <<now, skew, points>>,
         NEW zset \in SUBSET Sample, redis' \in {zset, Purge(zset)}
  PROVE  /\ Wall' = Wall
         /\ Safe' = {p \in zset : Score(p) > CutoffScore}
         /\ Fragile' = {p \in InMemory : p \notin zset /\ Score(p) > CutoffScore}
<1>1. Wall' = Wall /\ InMemory' = InMemory /\ CutoffScore' = CutoffScore
  BY DEF Wall, CutoffScore, InMemory
<1>2. \A p : Score(p) > CutoffScore => (p \in redis' <=> p \in zset)
  BY DEF Purge
<1>3. redis' \subseteq zset
  BY DEF Purge
<1> QED
  BY <1>1, <1>2, <1>3 DEF Safe, Fragile, InWindow, Score

\* Add's second half saves the sample in hand, or leaves it fragile.
LEMMA WriteSaves ==
  ASSUME TypeInv, RightInv, AddToRedis
  PROVE  Log!Save \/ UNCHANGED LogState
<1>1. /\ pc = "added" /\ UNCHANGED <<now, skew, points>> /\ skew = 0
      /\ (\E i \in 1..Len(points) : points[i] = cur) \/ cur.ts.wall < now - Retention
  BY DEF AddToRedis, hostVars, RightInv
<1>2. cur \in Sample /\ redis \in SUBSET Sample
  BY <1>1 DEF TypeInv, TypeOK, CollectorOK, StoreOK
<1>3. /\ now \in Nat /\ Wall = now
      /\ InMemory = {Stored(points[i]) : i \in 1..Len(points)}
      /\ Safe = {p \in redis : Score(p) > CutoffScore}
      /\ Fragile = {p \in InMemory : p \notin redis /\ Score(p) > CutoffScore}
  BY <1>1, LogFacts
<1>4. Stored(cur) \in Sample /\ Score(Stored(cur)) = Score(cur) /\ cur.ts.wall \in Int
  BY <1>2, StoredType, StampsType
<1>5. redis' \in {redis, Purge(redis)} \/
      redis' \in {redis \cup {Stored(cur)}, Purge(redis \cup {Stored(cur)})}
  BY DEF AddToRedis
<1>6. CASE redis' \in {redis, Purge(redis)}
  <2>1. Wall' = Wall /\ Safe' = Safe /\ Fragile' = Fragile
    BY <1>1, <1>2, <1>3, <1>6, PurgeUnseen
  <2> QED
    BY <2>1 DEF LogState
<1>7. CASE redis' \in {redis \cup {Stored(cur)}, Purge(redis \cup {Stored(cur)})}
  <2>1. redis \cup {Stored(cur)} \in SUBSET Sample
    BY <1>2, <1>4
  <2>2. /\ Wall' = Wall
        /\ Safe' = {p \in redis \cup {Stored(cur)} : Score(p) > CutoffScore}
        /\ Fragile' = {p \in InMemory : p \notin redis \cup {Stored(cur)}
                                        /\ Score(p) > CutoffScore}
    BY <1>1, <1>7, <2>1, PurgeUnseen
  <2>3. CASE Stored(cur) \notin redis /\ Score(Stored(cur)) > CutoffScore
    <3>0. cur.ts.wall >= now - Retention
      BY <1>1, <1>2, <1>4, <2>3, PastTheCutoff
    <3>1. \E i \in 1..Len(points) : points[i] = cur
      BY <1>1, <1>3, <1>4, <3>0
    <3>2. Stored(cur) \in Fragile
      BY <1>3, <2>3, <3>1
    <3>3. Fragile' = Fragile \ {Stored(cur)} /\ Safe' = Safe \cup {Stored(cur)}
      BY <1>3, <2>2, <2>3
    <3>4. \E p \in Fragile : Fragile' = Fragile \ {p} /\ Safe' = Safe \cup {p}
      BY <3>2, <3>3
    <3> QED
      BY <2>2, <3>4 DEF Log!Save, Safe, Fragile, InMemory
  <2>4. CASE ~(Stored(cur) \notin redis /\ Score(Stored(cur)) > CutoffScore)
    <3>1. Safe' = Safe /\ Fragile' = Fragile
      BY <1>3, <2>2, <2>4
    <3> QED
      BY <2>2, <3>1 DEF LogState
  <2> QED
    BY <2>3, <2>4
<1> QED
  BY <1>5, <1>6, <1>7

\* A process that is gone, or starts, has nothing in memory that Redis has not.
LEMMA StartTakesOver ==
  ASSUME TypeInv, TypeInv', RightInv, Starting, redis \subseteq redis',
         \A i \in 1..Len(points') : points'[i] \in redis'
  PROVE  Log!TakeOver
<1>1. pc = "down" /\ UNCHANGED <<now, skew>> /\ Len(points) = 0 /\ skew = 0
  BY DEF Starting, RightInv
<1>2. InMemory = {}
  BY <1>1, LogFacts
<1>3. InMemory' = {Stored(points'[i]) : i \in 1..Len(points')}
  <2>1. DOMAIN points' = 1..Len(points')
    BY LenProperties DEF TypeInv, TypeOK, MemoryOK
  <2> QED
    BY <2>1 DEF InMemory
<1>4. \A p \in redis' : Stored(p) = p
  BY StoredType DEF TypeInv, TypeOK, StoreOK
<1>5. InMemory' \subseteq redis'
  BY <1>3, <1>4
<1>6. Fragile = {} /\ Fragile' = {}
  BY <1>2, <1>5 DEF Fragile, InWindow
<1>7. Safe \subseteq Safe' /\ Wall' = Wall
  BY <1>1 DEF Safe, InWindow, Wall, CutoffScore, Score
<1> QED
  BY <1>6, <1>7 DEF Log!TakeOver, Safe, Fragile, InMemory

\* Every step of the history is one of the log, or leaves it alone.
LEMMA StepIsLogged ==
  ASSUME Skews = {0}
  PROVE  TypeInv /\ TypeInv' /\ RightInv /\ [Next]_vars =>
           [Log!Pass \/ Log!Write \/ Log!Save \/ Log!Lose \/ Log!TakeOver]_LogState
<1> SUFFICES ASSUME TypeInv, TypeInv', RightInv, [Next]_vars
             PROVE  \/ Log!Pass \/ Log!Write \/ Log!Save \/ Log!Lose \/ Log!TakeOver
                    \/ UNCHANGED LogState
  BY Zenon
<1>0. skew = 0 /\ skew' = 0 /\ redis \in SUBSET Sample
  BY DEF TypeInv, TypeOK, HostOK, StoreOK
<1>1. CASE Tick
  BY <1>0, <1>1, TickPasses
<1>2. CASE SetClock
  BY <1>0, <1>2 DEF SetClock
<1>3. CASE Crash \/ Reboot
  <2>1. points' = <<>> /\ UNCHANGED <<now, skew, redis>>
    BY <1>3 DEF Crash, Reboot, Forget, hostVars
  <2>2. Fragile' = {} /\ Safe' = Safe /\ Wall' = Wall
    <3>1. InMemory' = {}
      BY <2>1 DEF InMemory
    <3> QED
      BY <2>1, <3>1 DEF Fragile, Safe, InWindow, Wall, CutoffScore, Score
  <2>3. Log!Lose
    BY <2>2 DEF Log!Lose, Fragile, Safe, InMemory
  <2> QED
    BY <2>3
<1>4. CASE StartFromRedis \/ StartMigrating
  <2>1. /\ Starting /\ Adopt(redis') /\ redis \subseteq redis'
    BY <1>4 DEF StartFromRedis, StartMigrating
  <2>2. \A i \in 1..Len(points') : points'[i] \in redis'
    BY <2>1, AdoptSorted
  <2> QED
    BY <2>1, <2>2, StartTakesOver
<1>5. CASE StartUnloaded \/ StartHalfMigrated
  <2>1. /\ Starting /\ points' = <<>> /\ redis \subseteq redis'
    BY <1>5 DEF StartUnloaded, StartHalfMigrated, LoadFails
  <2>2. Len(points') = 0
    BY <2>1, EmptySeq
  <2> QED
    BY <2>1, <2>2, StartTakesOver
<1>6. CASE AddToMemory
  BY <1>6, AddWrites
<1>7. CASE AddToRedis
  BY <1>7, WriteSaves
<1>8. CASE Persist
  <2>1. redis' = Purge(redis) /\ UNCHANGED <<now, skew, points>>
    BY <1>8 DEF Persist, memVars, hostVars
  <2>2. Wall' = Wall /\ Safe' = Safe /\ Fragile' = Fragile
    BY <1>0, <2>1, PurgeUnseen, LogFacts
  <2> QED
    BY <2>2 DEF LogState
<1>9. CASE TakeSample \/ UNCHANGED vars
  <2>1. UNCHANGED <<now, skew, points, redis>>
    BY <1>9 DEF TakeSample, vars, memVars, hostVars
  <2> QED
    BY <2>1 DEF LogState, Wall, Fragile, Safe, InMemory, InWindow, CutoffScore, Score
<1> QED
  BY <1>1, <1>2, <1>3, <1>4, <1>5, <1>6, <1>7, <1>8, <1>9 DEF Next

\* With a right clock, memory and Redis together are a retained log: no saved sample
\* within the window is lost, and a crash takes only samples whose write was under way
\* or had failed (Add, Persist, Load and the migration).
THEOREM HistoryIsLog ==
  ASSUME Skews = {0}
  PROVE  Spec => LogRetained
<1>1. Init => Log!LogInit
  <2> SUFFICES ASSUME Init PROVE Log!LogInit
    OBVIOUS
  <2>1. now = 0 /\ skew = 0 /\ points = <<>> /\ redis = {}
    BY DEF Init
  <2>2. Wall \in Int /\ Fragile = {} /\ Safe = {}
    BY <2>1 DEF Wall, Fragile, Safe, InMemory, InWindow
  <2> QED
    BY <2>2 DEF Log!LogInit, Fragile, Safe, InMemory
<1>2. TypeInv /\ TypeInv' /\ RightInv /\ [Next]_vars =>
        [Log!Pass \/ Log!Write \/ Log!Save \/ Log!Lose \/ Log!TakeOver]_LogState
  BY StepIsLogged
<1> QED
  BY <1>1, <1>2, TypeInvariance, RightInvariance, PTL
  DEF Spec, LogRetained, Log!LogSpec, LogState, Log!logVars, Fragile, Safe, InMemory
=============================================================================
