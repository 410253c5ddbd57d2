---------------------------- MODULE StoresProofs ----------------------------
(***************************************************************************)
(* Proofs about the panels of the data stores (MongoPanel, RedisPanel,     *)
(* RabbitPanel), as they run in Probes.  Each panel has an invariant of    *)
(* its own, kept by its own steps; the steps of the other probes leave its *)
(* variables alone.                                                        *)
(***************************************************************************)
EXTENDS Probes, FiniteFacts

-----------------------------------------------------------------------------
\* A step of Probes is a step of the panel, or leaves its variables alone.
LEMMA StoreSteps ==
  ASSUME [Next]_vars
  PROVE  [MongoNext]_mongoVars /\ [RedisNext]_redisVars /\ [RabbitNext]_rabbitVars
  BY DEF Next, StoresNext, HostNext, AccessNext, vars, storeVars

-----------------------------------------------------------------------------
(***************************************************************************)
(* Mongo.  Where the ladder stands: the commands before the next one were  *)
(* refused, the deadline has passed if one of them hung, and one that      *)
(* would have answered was refused only after that.                        *)
(***************************************************************************)
Hung(n) == \E i \in 1..n : commands[i] = "hangs"

LadderInv ==
  /\ mpc \in {"start", "try", "process", "done"}
  /\ shells \in 0..2 /\ address \in 1..3
  /\ commands \in Seq(Outcomes) /\ Len(commands) <= 4
  /\ next \in 1..(Len(commands) + 1)
  /\ late => Hung(next - 1)
  /\ \A k \in 1..(next - 1) : commands[k] = "answers" => Hung(k - 1)
  /\ mpc = "start" => next = 1

\* Beside it, the reason: an address that was tried in vain left one, and the
\* generic one is only given without a configured address.
ReasonInv ==
  /\ source \in {"none", "serverStatus", "process"}
  /\ mpc = "try" /\ next > 1 => reason \notin {"none", "unavailable"}
  /\ mpc = "process" => reason # "none" /\ (configured => reason # "unavailable")
  /\ MongoExplained

MongoInv == LadderInv /\ ReasonInv

\* A new ladder is a sequence of at most four outcomes.
LEMMA NewLadder ==
  ASSUME NEW n \in 0..2, NEW b \in BOOLEAN,
         NEW c \in Ladder(n + IF b THEN 2 ELSE 0)
  PROVE  c \in Seq(Outcomes) /\ Len(c) <= 4 /\ Len(c) \in Nat
<1>1. PICK m \in 0..4 : c \in [1..m -> Outcomes]
  BY DEF Ladder
<1>2. c \in Seq(Outcomes)
  BY <1>1, SeqDef
<1>3. Len(c) = m
  BY <1>1, <1>2, LenProperties
<1> QED
  BY <1>2, <1>3

LEMMA MongoStarts == MongoInit => MongoInv
<1> SUFFICES ASSUME MongoInit PROVE MongoInv
  OBVIOUS
<1>0. commands = <<>>
  BY DEF MongoInit
<1>1. commands \in Seq(Outcomes) /\ Len(commands) = 0
  BY <1>0, EmptySeq
<1>2. LadderInv
  BY <1>1 DEF MongoInit, LadderInv, Hung
<1>3. ReasonInv
  BY DEF MongoInit, ReasonInv, MongoExplained
<1> QED
  BY <1>2, <1>3 DEF MongoInv

LEMMA LadderStep ==
  ASSUME LadderInv, [MongoNext]_mongoVars
  PROVE  LadderInv'
<1> USE DEF LadderInv, Hung
<1>1. CASE Begin
  <2>1. next' = 1 /\ ~late' /\ mpc' = "try" /\ address' = address
    BY <1>1 DEF Begin
  <2>2. shells' \in 0..2
    BY <1>1 DEF Begin
  <2>3. commands' \in Seq(Outcomes) /\ Len(commands') <= 4 /\ Len(commands') \in Nat
    <3>1. (configured' /\ container') \in BOOLEAN
      OBVIOUS
    <3> QED
      BY <1>1, <2>2, <3>1, NewLadder DEF Begin
  <2> QED
    BY <2>1, <2>2, <2>3
<1>2. CASE Answer
  BY <1>2 DEF Answer, setup
<1>3. CASE Refuse
  <2>1. /\ next \in 1..Len(commands) /\ next' = next + 1 /\ mpc = "try" /\ mpc' = mpc
        /\ commands' = commands /\ late' = (late \/ commands[next] = "hangs")
        /\ commands[next] = "answers" => late
    BY <1>3 DEF Refuse, After, Works
  <2>2. late' => Hung(next)
    <3>1. CASE late
      BY <2>1, <3>1
    <3>2. CASE commands[next] = "hangs"
      BY <2>1, <3>2
    <3> QED
      BY <2>1, <3>1, <3>2
  <2>3. \A k \in 1..next : commands[k] = "answers" => Hung(k - 1)
    <3>1. \A k \in 1..next : k = next \/ k \in 1..(next - 1)
      OBVIOUS
    <3> QED
      BY <2>1, <3>1
  <2>4. UNCHANGED <<shells, address>>
    BY <1>3 DEF Refuse, setup
  <2> QED
    BY <2>1, <2>2, <2>3, <2>4
<1>4. CASE NextAddress
  <2>1. next' = 1 /\ ~late' /\ mpc' = "try" /\ address' \in 1..3 /\ shells' = shells
    BY <1>4 DEF NextAddress, setup
  <2>2. commands' \in Seq(Outcomes) /\ Len(commands') <= 4 /\ Len(commands') \in Nat
    BY <1>4, NewLadder DEF NextAddress
  <2> QED
    BY <2>1, <2>2
<1>5. CASE GiveUp
  BY <1>5 DEF GiveUp, setup
<1>6. CASE Fallback
  BY <1>6 DEF Fallback, setup
<1>7. CASE UNCHANGED mongoVars
  BY <1>7 DEF mongoVars, setup
<1> QED
  BY <1>1, <1>2, <1>3, <1>4, <1>5, <1>6, <1>7 DEF MongoNext

LEMMA ReasonStep ==
  ASSUME MongoInv, [MongoNext]_mongoVars
  PROVE  ReasonInv'
<1> USE DEF ReasonInv, MongoExplained
<1>0. ReasonInv /\ next \in Nat
  BY DEF MongoInv, LadderInv
<1>1. CASE Begin
  <2>1. next = 1
    BY <1>1 DEF Begin, MongoInv, LadderInv
  <2> QED
    BY <1>0, <1>1, <2>1 DEF Begin
<1>2. CASE Answer
  BY <1>0, <1>2 DEF Answer, setup
<1>3. CASE Refuse
  <2>1. commands[next] \in Outcomes
    BY <1>3 DEF MongoInv, LadderInv, Refuse
  <2>2. reason' \notin {"none", "unavailable"}
    BY <1>3, <2>1 DEF Refuse, Outcomes
  <2> QED
    BY <1>0, <1>3, <2>2 DEF Refuse, setup
<1>4. CASE NextAddress
  BY <1>0, <1>4 DEF NextAddress, setup
<1>5. CASE GiveUp
  <2>1. commands # <<>> => next > 1
    <3>1. commands \in Seq(Outcomes) /\ next > Len(commands)
      BY <1>5 DEF MongoInv, LadderInv, GiveUp
    <3>2. commands # <<>> => Len(commands) > 0
      BY <3>1, EmptySeq, LenProperties
    <3> QED
      BY <1>0, <3>1, <3>2
  <2>2. configured => reason' \notin {"none", "unavailable"}
    BY <1>0, <1>5, <2>1 DEF GiveUp, Reason
  <2>3. ~configured => reason' = "unavailable"
    BY <1>5 DEF GiveUp
  <2> QED
    BY <1>0, <1>5, <2>2, <2>3 DEF GiveUp, setup
<1>6. CASE Fallback
  BY <1>0, <1>6 DEF Fallback, Process, setup
<1>7. CASE UNCHANGED mongoVars
  BY <1>0, <1>7 DEF mongoVars, setup
<1> QED
  BY <1>1, <1>2, <1>3, <1>4, <1>5, <1>6, <1>7 DEF MongoNext

\* The ladder and the reason, in every reachable state.
LEMMA MongoInvariance == Spec => []MongoInv
<1>1. Init => MongoInv
  BY MongoStarts DEF Init
<1>2. MongoInv /\ [Next]_vars => MongoInv'
  BY LadderStep, ReasonStep, StoreSteps DEF MongoInv
<1> QED
  BY <1>1, <1>2, PTL DEF Spec

\* A command that would have answered is passed over only for one before it that
\* used up the deadline (collectMongoServerStatus).
THEOREM AnswerIsFound == Spec => []AnswerFound
<1>1. MongoInv => AnswerFound
  <2> SUFFICES ASSUME MongoInv, next > Len(commands) PROVE AnswerFound
    BY DEF AnswerFound
  <2>1. next = Len(commands) + 1 /\ Len(commands) \in Nat
    BY DEF MongoInv, LadderInv
  <2> QED
    BY <2>1 DEF MongoInv, LadderInv, Hung, AnswerFound
<1> QED
  BY <1>1, MongoInvariance, PTL

\* A Mongo panel without data says why (CollectMongo, collectMongoProcessFallback).
THEOREM MongoSaysWhy == Spec => []MongoExplained
<1>1. MongoInv => MongoExplained
  BY DEF MongoInv, ReasonInv
<1> QED
  BY <1>1, MongoInvariance, PTL

-----------------------------------------------------------------------------
(***************************************************************************)
(* Redis.  What INFO named stays counted, with keys, as long as it has     *)
(* them, whatever the other commands do; and a database that is counted or *)
(* watched is on the panel as soon as the loop has passed it.              *)
(***************************************************************************)
Merging == rpc \in {"look", "apod"} \/ (rpc = "done" /\ up)
Passed(d) == d < at \/ (d = at /\ rpc = "apod") \/ rpc = "done"

RedisShape ==
  /\ setting \in Settings \cup {<<>>} /\ keys \in [DBs -> Nat] /\ full \subseteq DBs
  /\ rpc \in {"load", "info", "size", "look", "apod", "done"} /\ at \in Nat
  /\ DOMAIN counts \subseteq DBs /\ \A d \in DOMAIN counts : counts[d] \in Nat
  /\ DOMAIN dbs \subseteq DOMAIN counts /\ (rpc \in {"load", "info"} => DOMAIN dbs = {})
  /\ \A d \in DOMAIN dbs : dbs[d] = [keys |-> dbs[d].keys, cached |-> dbs[d].cached]

FullInv ==
  /\ rpc \in {"load", "info"} => ~up
  /\ rpc = "size" \/ Merging => \A d \in full : d \in DOMAIN counts /\ counts[d] > 0

PassedInv ==
  /\ Merging => Watched \subseteq DOMAIN counts
  /\ rpc = "apod" => at \in DOMAIN dbs
  /\ Merging =>
       \A d \in DOMAIN counts :
         Passed(d) /\ (counts[d] > 0 \/ d \in Watched) =>
           d \in DOMAIN dbs /\ dbs[d].keys = counts[d]

RedisInv == RedisShape /\ FullInv /\ PassedInv

\* What is watched are databases, and each of them is looked into.
LEMMA WatchedAreDBs ==
  ASSUME setting \in Settings \cup {<<>>}
  PROVE  Watched \subseteq DBs /\ Watched \subseteq WatchedSet
<1>1. Watched \subseteq WatchedSet
  BY DEF WatchedSet
<1>2. ASSUME NEW s \in Seq(DBs \cup {Junk})
      PROVE  Good(s) \subseteq DBs
  BY DEF Good, ToSet
<1>3. Settings \subseteq Seq(DBs \cup {Junk}) /\ FallbackWatch \subseteq DBs
  BY Databases
<1>4. DefaultWatch \in Seq(DBs \cup {Junk})
  BY Databases, SeqMonotonic
<1>5. Good(DefaultWatch) \subseteq DBs
  BY <1>2, <1>4
<1>6. setting # <<>> => Good(setting) \subseteq DBs
  BY <1>2, <1>3
<1> QED
  BY <1>1, <1>3, <1>5, <1>6 DEF Watched

LEMMA RedisStarts == RedisInit => RedisInv
  BY DEF RedisInit, RedisInv, RedisShape, FullInv, PassedInv, Merging, Nothing

LEMMA RedisShapeStep ==
  ASSUME RedisShape, [RedisNext]_redisVars
  PROVE  RedisShape'
<1> USE DEF RedisShape
<1>1. CASE LoadSetting
  BY <1>1 DEF LoadSetting
<1>2. CASE Change
  BY <1>2 DEF Change, panelVars
<1>3. CASE Info
  BY <1>3 DEF Info
<1>4. CASE InfoFails
  BY <1>4 DEF InfoFails
<1>5. CASE Size
  BY <1>5 DEF Size, Merged, With
<1>6. CASE Merge
  BY <1>6, WatchedAreDBs DEF Merge, WithWatched
<1>7. CASE Skip
  BY <1>7 DEF Skip
<1>8. CASE Look
  <2>1. /\ rpc = "look" /\ at \in DOMAIN counts
        /\ UNCHANGED <<setting, keys, apod, counts, up, full>>
    BY <1>8 DEF Look
  <2>2. (rpc' = "apod" /\ at' = at) \/ (rpc' = "look" /\ at' = at + 1)
    BY <1>8 DEF Look
  <2>3. dbs' = With(dbs, at, [keys |-> counts[at], cached |-> FALSE])
    BY <1>8 DEF Look
  <2>4. DOMAIN dbs' = DOMAIN dbs \cup {at}
    BY <2>3 DEF With
  <2>5. \A d \in DOMAIN dbs' : dbs'[d] = [keys |-> dbs'[d].keys, cached |-> dbs'[d].cached]
    BY <2>3 DEF With
  <2> QED
    BY <2>1, <2>2, <2>4, <2>5
<1>9. CASE LookAPOD
  BY <1>9 DEF LookAPOD
<1>10. CASE Looked
  BY <1>10 DEF Looked
<1>11. CASE UNCHANGED redisVars
  BY <1>11 DEF redisVars
<1> QED
  BY <1>1, <1>2, <1>3, <1>4, <1>5, <1>6, <1>7, <1>8, <1>9, <1>10, <1>11 DEF RedisNext

LEMMA FullStep ==
  ASSUME RedisShape, FullInv, [RedisNext]_redisVars
  PROVE  FullInv'
<1> USE DEF FullInv, Merging
<1>0. /\ DOMAIN counts \subseteq DBs /\ \A d \in DOMAIN counts : counts[d] \in Nat
      /\ keys \in [DBs -> Nat] /\ at \in Nat
  BY DEF RedisShape
<1>1. CASE LoadSetting
  BY <1>1 DEF LoadSetting
<1>2. CASE Change
  BY <1>2 DEF Change, panelVars
<1>3. CASE Info
  BY <1>0, <1>3 DEF Info
<1>4. CASE InfoFails
  BY <1>4 DEF InfoFails
<1>5. CASE Size
  BY <1>0, <1>5 DEF Size, Merged, With
<1>6. CASE Merge
  BY <1>0, <1>6 DEF Merge, WithWatched
<1>7. CASE Skip
  BY <1>7 DEF Skip
<1>8. CASE Look
  BY <1>8 DEF Look
<1>9. CASE LookAPOD
  BY <1>9 DEF LookAPOD
<1>10. CASE Looked
  BY <1>10 DEF Looked
<1>11. CASE UNCHANGED redisVars
  BY <1>11 DEF redisVars
<1> QED
  BY <1>1, <1>2, <1>3, <1>4, <1>5, <1>6, <1>7, <1>8, <1>9, <1>10, <1>11 DEF RedisNext

\* Behind the loop is everything once the loop is past the last database.
LEMMA AllPassed ==
  ASSUME NEW n \in Nat, n > Max(DBs), NEW d \in DBs
  PROVE  d < n
<1>1. Max(DBs) \in DBs /\ d <= Max(DBs) /\ DBs \subseteq Nat
  BY MaxIsGreatest, Databases
<1>2. Max(DBs) \in Nat /\ d \in Nat
  BY <1>1
<1> QED
  BY <1>1, <1>2

\* Of the databases before the next turn only the current one is new.
LEMMA NextDB ==
  ASSUME RedisShape, NEW d \in DOMAIN counts
  PROVE  d \in Nat /\ (d < at + 1 => d = at \/ d < at)
<1>1. d \in Nat /\ at \in Nat
  BY Databases DEF RedisShape
<1> QED
  BY <1>1

LEMMA PassedStep ==
  ASSUME RedisInv, [RedisNext]_redisVars
  PROVE  PassedInv'
<1> USE DEF PassedInv, Merging, Passed
<1>0. RedisShape /\ FullInv /\ PassedInv
  BY DEF RedisInv
<1>1. CASE LoadSetting
  BY <1>1 DEF LoadSetting
<1>2. CASE Change
  BY <1>0, <1>2 DEF Change, panelVars, Watched
<1>3. CASE Info
  BY <1>3 DEF Info
<1>4. CASE InfoFails
  BY <1>0, <1>4 DEF InfoFails, FullInv
<1>5. CASE Size
  BY <1>5 DEF Size
<1>6. CASE Merge
  <2>1. Watched' = Watched /\ rpc' = "look" /\ at' = 0
    BY <1>6 DEF Merge, Watched
  <2>2. Watched \subseteq DOMAIN counts'
    BY <1>6 DEF Merge, WithWatched
  <2>3. \A d \in DOMAIN counts' : d \in Nat
    BY <1>0, RedisShapeStep, Databases DEF RedisShape
  <2> QED
    BY <2>1, <2>2, <2>3
<1>7. CASE Skip
  <2>1. /\ rpc = "look" /\ at' = at + 1 /\ at \in Nat
        /\ UNCHANGED <<setting, rpc, counts, dbs, up>>
    BY <1>0, <1>7 DEF Skip, RedisShape
  <2>2. at \in DOMAIN counts => counts[at] = 0 /\ at \notin Watched
    BY <1>0, <1>7, WatchedAreDBs DEF Skip, RedisShape
  <2>3. \A d \in DOMAIN counts : d \in Nat /\ (d < at + 1 => d = at \/ d < at)
    BY <1>0, NextDB
  <2>4. Watched' = Watched
    BY <2>1 DEF Watched
  <2> QED
    BY <1>0, <2>1, <2>2, <2>3, <2>4
<1>8. CASE Look
  <2>1. rpc = "look" /\ at \in DOMAIN counts /\ UNCHANGED <<setting, counts, up>>
    BY <1>8 DEF Look
  <2>2. \/ rpc' = "apod" /\ at' = at
        \/ rpc' = "look" /\ at' = at + 1
    BY <1>8 DEF Look
  <2>3. /\ DOMAIN dbs' = DOMAIN dbs \cup {at} /\ dbs'[at].keys = counts[at]
        /\ \A d \in DOMAIN dbs : d # at => dbs'[d] = dbs[d]
    BY <1>8 DEF Look, With
  <2>4. at \in Nat /\ \A d \in DOMAIN counts : d \in Nat /\ (d < at + 1 => d = at \/ d < at)
    BY <1>0, NextDB DEF RedisShape
  <2>5. Watched' = Watched
    BY <2>1 DEF Watched
  <2>6. ASSUME NEW d \in DOMAIN counts, Passed(d)', counts[d] > 0 \/ d \in Watched
        PROVE  d \in DOMAIN dbs' /\ dbs'[d].keys = counts[d]
    BY <1>0, <2>1, <2>2, <2>3, <2>4, <2>6
  <2> QED
    BY <1>0, <2>1, <2>2, <2>3, <2>5, <2>6
<1>9. CASE LookAPOD
  <2>1. /\ rpc = "apod" /\ rpc' = "look" /\ at' = at + 1 /\ at \in Nat
        /\ UNCHANGED <<setting, counts, up>>
    BY <1>0, <1>9 DEF LookAPOD, RedisShape
  <2>2. PICK b \in {(at \in apod), FALSE} : dbs' = [dbs EXCEPT ![at].cached = b]
    BY <1>9 DEF LookAPOD
  <2>3. /\ DOMAIN dbs' = DOMAIN dbs
        /\ \A d \in DOMAIN dbs : dbs'[d].keys = dbs[d].keys
    BY <1>0, <2>2 DEF RedisShape
  <2>4. \A d \in DOMAIN counts : d \in Nat /\ (d < at + 1 => d = at \/ d < at)
    BY <1>0, NextDB
  <2>5. Watched' = Watched
    BY <2>1 DEF Watched
  <2> QED
    BY <1>0, <2>1, <2>3, <2>4, <2>5
<1>10. CASE Looked
  <2>1. /\ rpc = "look" /\ at > Max(DBs) /\ rpc' = "done" /\ at \in Nat
        /\ UNCHANGED <<setting, counts, dbs, up>>
    BY <1>0, <1>10 DEF Looked, RedisShape
  <2>2. \A d \in DOMAIN counts : d < at
    BY <1>0, <2>1, AllPassed DEF RedisShape
  <2>3. Watched' = Watched
    BY <2>1 DEF Watched
  <2> QED
    BY <1>0, <2>1, <2>2, <2>3
<1>11. CASE UNCHANGED redisVars
  BY <1>0, <1>11 DEF redisVars, Watched
<1> QED
  BY <1>1, <1>2, <1>3, <1>4, <1>5, <1>6, <1>7, <1>8, <1>9, <1>10, <1>11 DEF RedisNext

\* What is counted and what the loop has passed, in every reachable state.
LEMMA RedisInvariance == Spec => []RedisInv
<1>1. Init => RedisInv
  BY RedisStarts DEF Init
<1>2. RedisInv /\ [Next]_vars => RedisInv'
  BY RedisShapeStep, FullStep, PassedStep, StoreSteps DEF RedisInv
<1> QED
  BY <1>1, <1>2, PTL DEF Spec

\* A database that had keys all along is on the panel, with keys (CollectRedis:
\* mergeRedisDBs never forgets what INFO said).
THEOREM FullDatabasesShown == Spec => []NoDatabaseMissed
<1>1. RedisInv => NoDatabaseMissed
  <2> SUFFICES ASSUME RedisInv, rpc = "done", up, NEW d \in full
               PROVE  d \in DOMAIN dbs /\ dbs[d].keys > 0
    BY DEF NoDatabaseMissed
  <2>1. d \in DOMAIN counts /\ counts[d] > 0
    BY DEF RedisInv, FullInv, Merging
  <2> QED
    BY <2>1 DEF RedisInv, PassedInv, Merging, Passed
<1> QED
  BY <1>1, RedisInvariance, PTL

\* Every database the setting names, or the default one, is on the panel, empty or
\* not (resolveRedisWatchDBs).
THEOREM WatchedShown == Spec => []WatchedListed
<1>1. RedisInv => WatchedListed
  <2> SUFFICES ASSUME RedisInv, rpc = "done", up, NEW d \in DBs,
                      d \in ToSet(setting) \/ (setting = <<>> /\ d \in ToSet(DefaultWatch))
               PROVE  d \in DOMAIN dbs
    BY DEF WatchedListed
  <2>1. d # Junk
    BY Databases DEF Junk
  <2>2. d \in Watched
    <3>1. CASE setting = <<>>
      <4>1. d \notin ToSet(<<>>)
        BY DEF ToSet
      <4>2. d \in Good(DefaultWatch)
        BY <2>1, <3>1, <4>1 DEF Good
      <4> QED
        BY <3>1, <4>2 DEF Watched
    <3>2. CASE setting # <<>>
      <4>1. d \in Good(setting)
        BY <2>1, <3>2 DEF Good
      <4> QED
        BY <3>2, <4>1 DEF Watched
    <3> QED
      BY <3>1, <3>2
  <2> QED
    BY <2>2 DEF RedisInv, PassedInv, Merging, Passed
<1> QED
  BY <1>1, RedisInvariance, PTL

-----------------------------------------------------------------------------
(***************************************************************************)
(* RabbitMQ.  What stayed since the first answer is still there, whichever *)
(* request comes next; and once the nodes are listed, the state shown is   *)
(* that of the node the first answer named, if that node stayed.           *)
(***************************************************************************)
RabbitShape ==
  /\ DOMAIN queues \subseteq QueueNames /\ members \subseteq Nodes
  /\ step \in {"overview", "nodes", "queues", "done"}
  /\ rabbit = [available |-> rabbit.available, node |-> rabbit.node, info |-> rabbit.info,
               queueCount |-> rabbit.queueCount, queues |-> rabbit.queues,
               error |-> rabbit.error]
  /\ stayed = [queues |-> stayed.queues, nodes |-> stayed.nodes]
  /\ rabbit.info \in Nodes \cup {NoInfo} /\ DOMAIN rabbit.queues \subseteq QueueNames

StayedInv ==
  /\ stayed.queues \subseteq QueueNames
  /\ step # "done" => stayed.queues \subseteq DOMAIN queues /\ stayed.nodes \subseteq members
  /\ QueuesListed
  /\ step = "queues" \/ Probed =>
       (rabbit.node \in stayed.nodes => rabbit.info \in {rabbit.node, NoInfo})

RabbitInv == RabbitShape /\ StayedInv

LEMMA RabbitStarts == RabbitInit => RabbitInv
  BY DEF RabbitInit, RabbitInv, RabbitShape, StayedInv, QueuesListed, Probed, NoQueues, Down

\* The node whose state is shown is one of the cluster, and the one of the first
\* answer if that is still there and the nodes were listed.
LEMMA ListedNode ==
  ASSUME RabbitShape, NEW list \in SetToSeqs(members) \cup {<<>>}
  PROVE  /\ NodeInfo(list) \in Nodes \cup {NoInfo}
         /\ rabbit.node \in members => NodeInfo(list) \in {rabbit.node, NoInfo}
<1>1. IsFiniteSet(members) /\ members \subseteq Nodes
  BY Brokers, FS_Subset DEF RabbitShape
<1>2. CASE list = <<>>
  <2>1. ToSet(list) = {}
    BY <1>2 DEF ToSet
  <2> QED
    BY <1>2, <2>1 DEF NodeInfo
<1>3. CASE list \in SetToSeqs(members) /\ list # <<>>
  <2>1. list \in Seq(members) /\ ToSet(list) = members
    BY <1>1, <1>3, ListOfAll
  <2>2. list[1] \in members
    BY <1>3, <2>1, EmptySeq, LenProperties, ElementOfSeq
  <2> QED
    BY <1>1, <1>3, <2>1, <2>2 DEF NodeInfo
<1> QED
  BY <1>2, <1>3

LEMMA RabbitShapeStep ==
  ASSUME RabbitShape, [RabbitNext]_rabbitVars
  PROVE  RabbitShape'
<1> USE DEF RabbitShape
<1>1. CASE BrokerChanges
  BY <1>1 DEF BrokerChanges
<1>2. CASE Overview
  <2>1. step' = "nodes" /\ UNCHANGED <<queues, members>>
    BY <1>2 DEF Overview
  <2>2. stayed' = [queues |-> DOMAIN queues, nodes |-> members]
    BY <1>2 DEF Overview
  <2>3. PICK n \in members \cup {NoInfo} :
          rabbit' = [available |-> TRUE, node |-> n, info |-> NoInfo,
                     queueCount |-> Cardinality(DOMAIN queues), queues |-> NoQueues,
                     error |-> "none"]
    BY <1>2 DEF Overview, Down
  <2>4. DOMAIN NoQueues = {}
    BY DEF NoQueues
  <2> QED
    BY <2>1, <2>2, <2>3, <2>4
<1>3. CASE OverviewFails
  BY <1>3 DEF OverviewFails, Down, NoQueues
<1>4. CASE ListNodes
  <2>1. step' = "queues" /\ UNCHANGED <<queues, members, stayed>>
    BY <1>4 DEF ListNodes
  <2>2. PICK list \in SetToSeqs(members) \cup {<<>>} :
          rabbit' = [rabbit EXCEPT !.info = NodeInfo(list)]
    BY <1>4 DEF ListNodes
  <2>3. NodeInfo(list) \in Nodes \cup {NoInfo}
    BY <2>2, ListedNode
  <2> HIDE <2>2
  <2>4. rabbit' = [rabbit EXCEPT !.info = NodeInfo(list)]
    BY <2>2
  <2> QED
    BY <2>1, <2>3, <2>4
<1>5. CASE ListQueues
  BY <1>5 DEF ListQueues
<1>6. CASE QueuesFail
  BY <1>6 DEF QueuesFail
<1>7. CASE UNCHANGED rabbitVars
  BY <1>7 DEF rabbitVars
<1> QED
  BY <1>1, <1>2, <1>3, <1>4, <1>5, <1>6, <1>7 DEF RabbitNext

LEMMA StayedStep ==
  ASSUME RabbitInv, [RabbitNext]_rabbitVars
  PROVE  StayedInv'
<1> USE DEF StayedInv, QueuesListed, Probed
<1>0. StayedInv /\ RabbitShape
  BY DEF RabbitInv
<1>1. CASE BrokerChanges
  <2>1. step # "done" /\ UNCHANGED <<step, rabbit>>
    BY <1>1 DEF BrokerChanges
  <2>2. /\ stayed'.queues = stayed.queues \cap DOMAIN queues'
        /\ stayed'.nodes = stayed.nodes \cap members'
    BY <1>1 DEF BrokerChanges
  <2> QED
    BY <1>0, <2>1, <2>2
<1>2. CASE Overview
  <2>1. step' = "nodes" /\ UNCHANGED <<queues, members>>
    BY <1>2 DEF Overview
  <2>2. stayed'.queues = DOMAIN queues /\ stayed'.nodes = members
    BY <1>2 DEF Overview
  <2>3. DOMAIN queues \subseteq QueueNames
    BY <1>0 DEF RabbitShape
  <2> QED
    BY <2>1, <2>2, <2>3
<1>3. CASE OverviewFails
  <2>1. step = "overview" /\ step' = "done" /\ stayed' = stayed
    BY <1>3 DEF OverviewFails
  <2>2. ~rabbit'.available
    BY <1>3 DEF OverviewFails, Down
  <2> QED
    BY <1>0, <2>1, <2>2
<1>4. CASE ListNodes
  <2>1. step = "nodes" /\ step' = "queues" /\ UNCHANGED <<queues, members, stayed>>
    BY <1>4 DEF ListNodes
  <2>2. PICK list \in SetToSeqs(members) \cup {<<>>} :
          rabbit' = [rabbit EXCEPT !.info = NodeInfo(list)]
    BY <1>4 DEF ListNodes
  <2>3. rabbit.node \in members => NodeInfo(list) \in {rabbit.node, NoInfo}
    BY <1>0, ListedNode
  <2>4. rabbit'.node = rabbit.node /\ rabbit'.info = NodeInfo(list)
    BY <1>0, <2>2 DEF RabbitShape
  <2> HIDE <2>2
  <2> QED
    BY <1>0, <2>1, <2>3, <2>4
<1>5. CASE ListQueues
  <2>1. step = "queues" /\ step' = "done" /\ UNCHANGED stayed
    BY <1>5 DEF ListQueues
  <2>2. /\ rabbit'.queues = queues /\ rabbit'.node = rabbit.node
        /\ rabbit'.info = rabbit.info
    BY <1>0, <1>5 DEF ListQueues, RabbitShape
  <2> QED
    BY <1>0, <2>1, <2>2
<1>6. CASE QueuesFail
  <2>1. step = "queues" /\ step' = "done" /\ UNCHANGED stayed
    BY <1>6 DEF QueuesFail
  <2>2. rabbit'.error = "queues" /\ rabbit'.node = rabbit.node /\ rabbit'.info = rabbit.info
    BY <1>0, <1>6 DEF QueuesFail, RabbitShape
  <2> QED
    BY <1>0, <2>1, <2>2
<1>7. CASE UNCHANGED rabbitVars
  BY <1>0, <1>7 DEF rabbitVars
<1> QED
  BY <1>1, <1>2, <1>3, <1>4, <1>5, <1>6, <1>7 DEF RabbitNext

\* What stayed and what the panel shows of it, in every reachable state.
LEMMA RabbitInvariance == Spec => []RabbitInv
<1>1. Init => RabbitInv
  BY RabbitStarts DEF Init
<1>2. RabbitInv /\ [Next]_vars => RabbitInv'
  BY RabbitShapeStep, StayedStep, StoreSteps DEF RabbitInv
<1> QED
  BY <1>1, <1>2, PTL DEF Spec

\* Without an error every queue that was there from the first answer on is listed
\* (CollectRabbit asks for the list two requests later).
THEOREM QueuesAreListed == Spec => []QueuesListed
<1>1. RabbitInv => QueuesListed
  BY DEF RabbitInv, StayedInv
<1> QED
  BY <1>1, RabbitInvariance, PTL

\* The state shown is that of the node the panel names, if that node stayed and the
\* nodes were listed, in whatever order (CollectRabbit).
THEOREM NodeIsThatOfOverview == Spec => []NodeOfOverview
<1>1. RabbitInv => NodeOfOverview
  BY DEF RabbitInv, StayedInv, NodeOfOverview
<1> QED
  BY <1>1, RabbitInvariance, PTL

-----------------------------------------------------------------------------
(***************************************************************************)
(* The types of the three panels: what the invariants above leave open are *)
(* three flags and the databases with the key nasa-apod.                   *)
(***************************************************************************)
StoreFlags ==
  /\ configured \in BOOLEAN /\ container \in BOOLEAN /\ late \in BOOLEAN
  /\ apod \subseteq DBs

LEMMA StoreFlagsStep ==
  ASSUME StoreFlags, [Next]_vars
  PROVE  StoreFlags'
<1>1. (/\ configured \in BOOLEAN /\ container \in BOOLEAN /\ late \in BOOLEAN)'
  <2> USE DEF StoreFlags
  <2>1. CASE Begin
    BY <2>1 DEF Begin
  <2>2. CASE Refuse
    BY <2>2 DEF Refuse, setup
  <2>3. CASE NextAddress
    BY <2>3 DEF NextAddress, setup
  <2>4. CASE Answer \/ GiveUp \/ Fallback \/ UNCHANGED mongoVars
    BY <2>4 DEF Answer, GiveUp, Fallback, mongoVars, setup
  <2> QED
    BY <2>1, <2>2, <2>3, <2>4, StoreSteps DEF MongoNext
<1>2. (apod \subseteq DBs)'
  <2>1. CASE Change
    BY <2>1 DEF Change, StoreFlags
  <2>2. CASE UNCHANGED apod
    BY <2>2 DEF StoreFlags
  <2>3. Change \/ UNCHANGED apod
    BY StoreSteps DEF RedisNext, redisVars, LoadSetting, Info, InfoFails, Size, Merge, Skip,
      Look, LookAPOD, Looked
  <2> QED
    BY <2>1, <2>2, <2>3
<1> QED
  BY <1>1, <1>2 DEF StoreFlags

\* The panels of the data stores keep their types (CollectMongo, CollectRedis,
\* CollectRabbit): no database is looked into that was not listed, and no more queues
\* idle than there are.
LEMMA StoresTyped == Spec => [](MongoTypeOK /\ RedisTypeOK /\ RabbitTypeOK)
<1>1. Init => StoreFlags
  BY DEF Init, MongoInit, RedisInit, StoreFlags
<1>2. StoreFlags /\ [Next]_vars => StoreFlags'
  BY StoreFlagsStep
<1>3. MongoInv /\ StoreFlags => MongoTypeOK
  <2> SUFFICES ASSUME MongoInv, StoreFlags PROVE MongoTypeOK
    OBVIOUS
  <2>1. commands \in Seq(Outcomes) /\ Len(commands) <= 4 /\ next \in 1..(Len(commands) + 1)
    BY DEF MongoInv, LadderInv
  <2>2. commands \in [1..Len(commands) -> Outcomes] /\ Len(commands) \in Nat
    BY <2>1, LenProperties
  <2> QED
    BY <2>1, <2>2 DEF MongoInv, LadderInv, ReasonInv, StoreFlags, MongoTypeOK, Ladder
<1>4. RedisInv /\ StoreFlags => RedisTypeOK
  BY DEF RedisInv, RedisShape, StoreFlags, RedisTypeOK
<1>5. RabbitInv => RabbitTypeOK
  <2> SUFFICES ASSUME RabbitInv PROVE RabbitTypeOK
    OBVIOUS
  <2> DEFINE all == DOMAIN rabbit.queues
             unused == {q \in all : ~rabbit.queues[q]}
  <2>1. IsFiniteSet(all)
    BY Brokers, FS_Subset DEF RabbitInv, RabbitShape
  <2>2. unused \in SUBSET all
    OBVIOUS
  <2>3. Cardinality(unused) <= Cardinality(all)
    BY <2>1, <2>2, FS_Subset
  <2>4. RabbitLine.queues = Cardinality(all) /\ RabbitLine.idle = Cardinality(unused)
    BY DEF RabbitLine
  <2> QED
    BY <2>3, <2>4 DEF RabbitInv, RabbitShape, RabbitTypeOK
<1> QED
  BY <1>1, <1>2, <1>3, <1>4, <1>5, MongoInvariance, RedisInvariance, RabbitInvariance, PTL
    DEF Spec
=============================================================================
