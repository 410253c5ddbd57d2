----------------------------- MODULE RedisPanel -----------------------------
(***************************************************************************)
(* The Redis panel (CollectRedis, internal/collector/redis.go): INFO names *)
(* the databases that have keys, DBSIZE is asked of each database, the two *)
(* lists and the watched databases are merged, and each database that is   *)
(* left is looked into.  All commands share a deadline, so any of them may *)
(* fail; other clients write and delete all the while.                     *)
(*                                                                         *)
(* A database is its number of keys, and whether one is nasa-apod.  Times  *)
(* to live, memory, labels and highlights are left out: they decide        *)
(* nothing.                                                                *)
(***************************************************************************)
EXTENDS Integers, FiniteSetsExt, SequencesExt

CONSTANTS
  DBs,           \* the databases of the server, from 0 on
  MaxDB,         \* the first of them are asked for their size (16)
  Settings,      \* values of MOGOTOR_REDIS_WATCH_DBS: sequences of numbers, with
                 \* Junk for what is none; <<>> is not set
  DefaultWatch,  \* DefaultRedisWatchDBs
  FallbackWatch, \* watched if no number of the setting is good
  MaxKeys        \* bound: keys in a database

VARIABLES
  setting, \* MOGOTOR_REDIS_WATCH_DBS
  keys,    \* Redis: how many keys each database has
  apod,    \* Redis: the databases with the key nasa-apod
  rpc,     \* CollectRedis
  at,      \* the loop variable
  counts,  \* keyspace: a function on the databases listed
  dbs,     \* snapshot.Databases: a function on the databases looked into
  up,      \* snapshot.Available
  full     \* ghost: the databases that had keys ever since INFO

redisVars == <<setting, keys, apod, rpc, at, counts, dbs, up, full>>
panelVars == <<rpc, at, counts, dbs, up>>

Junk == -1

ASSUME Databases ==
  /\ MaxDB \in Nat /\ DBs \subseteq Nat /\ 0 \in DBs /\ IsFiniteSet(DBs)
  /\ Settings \subseteq Seq(DBs \cup {Junk}) /\ DefaultWatch \in Seq(DBs)
  /\ FallbackWatch \subseteq DBs

-----------------------------------------------------------------------------
\* resolveRedisWatchDBs: what is no database number is skipped.
Good_UntilJunk(s) == {s[i] : i \in {j \in DOMAIN s : \A k \in 1..j : s[k] # Junk}}
Good(s) == ToSet(s) \ {Junk}

Watched ==
  LET s == IF setting = <<>> THEN DefaultWatch ELSE setting IN
    IF Good(s) = {} THEN FallbackWatch ELSE Good(s)

\* watchedDBSet
WatchedSet == IF Watched = {} THEN {0, 4} ELSE Watched

Nothing == [d \in {} |-> 0]

With(f, d, v) == [e \in DOMAIN f \cup {d} |-> IF e = d THEN v ELSE f[e]]

-----------------------------------------------------------------------------
RedisInit ==
  /\ setting = <<>>
  /\ keys = [d \in DBs |-> 0] /\ apod = {}
  /\ rpc = "load" /\ at = 0 /\ counts = Nothing /\ dbs = Nothing
  /\ up = FALSE /\ full = {}

\* config.Load
LoadSetting ==
  /\ rpc = "load" /\ rpc' = "info"
  /\ setting' \in Settings
  /\ UNCHANGED <<keys, apod, at, counts, dbs, up, full>>

\* Another client writes or deletes, until the last answer is in.
Change ==
  rpc \notin {"load", "done"} /\ \E d \in DBs, n \in 0..MaxKeys, has \in BOOLEAN :
    /\ has => n > 0
    /\ keys' = [keys EXCEPT ![d] = n]
    /\ apod' = IF has THEN apod \cup {d} ELSE apod \ {d}
    /\ full' = IF n = 0 THEN full \ {d} ELSE full
    /\ UNCHANGED <<setting, panelVars>>

\* INFO lists the databases that have keys.
Info ==
  /\ rpc = "info"
  /\ rpc' = "size" /\ up' = TRUE
  /\ LET listed == {d \in DBs : keys[d] > 0} IN
       counts' = [d \in listed |-> keys[d]] /\ full' = listed
  /\ UNCHANGED <<setting, keys, apod, at, dbs>>

InfoFails ==
  /\ rpc = "info" /\ rpc' = "done"
  /\ UNCHANGED <<setting, keys, apod, at, counts, dbs, up, full>>

\* mergeRedisDBs for one probed database: the larger count stays.
Merged_Probed(f, d, n) == With(f, d, n)
Merged(f, d, n) ==
  IF n > 0 /\ (d \in DOMAIN f => n > f[d]) THEN With(f, d, n) ELSE f

\* probeRedisDBs: an error is skipped, as is an empty database; one that the
\* server does not have is an error.
Size ==
  /\ rpc = "size" /\ at < MaxDB
  /\ at' = at + 1
  /\ \E n \in {keys[d] : d \in DBs \cap {at}} \cup {0} : counts' = Merged(counts, at, n)
  /\ UNCHANGED <<setting, keys, apod, rpc, dbs, up, full>>

\* mergeRedisDBs for the watched databases.
WithWatched_Default(f) ==
  [d \in DOMAIN f \cup {0, 4} |-> IF d \in DOMAIN f THEN f[d] ELSE 0]
WithWatched(f) ==
  [d \in DOMAIN f \cup Watched |-> IF d \in DOMAIN f THEN f[d] ELSE 0]

Merge ==
  /\ rpc = "size" /\ at = MaxDB
  /\ rpc' = "look" /\ at' = 0
  /\ counts' = WithWatched(counts)
  /\ UNCHANGED <<setting, keys, apod, dbs, up, full>>

Skip ==
  /\ rpc = "look" /\ at <= Max(DBs)
  /\ at \in DOMAIN counts => (counts[at] = 0 /\ at \notin WatchedSet)
  /\ at' = at + 1
  /\ UNCHANGED <<setting, keys, apod, rpc, counts, dbs, up, full>>

\* collectRedisDB: nasa-apod makes a database that of the news bot, as 0 always is.
Look ==
  /\ rpc = "look" /\ at <= Max(DBs)
  /\ at \in DOMAIN counts
  /\ counts[at] > 0 \/ at \in WatchedSet
  /\ \E found \in {(at \in apod), FALSE} :
       LET bot == at = 0 \/ found IN
         /\ dbs' = With(dbs, at, [keys |-> counts[at], cached |-> FALSE])
         /\ rpc' = IF bot THEN "apod" ELSE "look"
         /\ at' = IF bot THEN at ELSE at + 1
  /\ UNCHANGED <<setting, keys, apod, counts, up, full>>

\* collectMadNewsAPOD asks for the key again.
LookAPOD ==
  /\ rpc = "apod" /\ rpc' = "look" /\ at' = at + 1
  /\ \E found \in {(at \in apod), FALSE} : dbs' = [dbs EXCEPT ![at].cached = found]
  /\ UNCHANGED <<setting, keys, apod, counts, up, full>>

Looked ==
  /\ rpc = "look" /\ at > Max(DBs) /\ rpc' = "done"
  /\ UNCHANGED <<setting, keys, apod, at, counts, dbs, up, full>>

RedisNext ==
  LoadSetting \/ Change \/ Info \/ InfoFails \/ Size \/ Merge \/ Skip \/ Look \/ LookAPOD \/ Looked
-----------------------------------------------------------------------------
RedisTypeOK ==
  /\ setting \in Settings \cup {<<>>} /\ keys \in [DBs -> Nat] /\ apod \subseteq DBs /\ full \subseteq DBs
  /\ rpc \in {"load", "info", "size", "look", "apod", "done"} /\ at \in Nat
  /\ DOMAIN counts \subseteq DBs /\ DOMAIN dbs \subseteq DOMAIN counts

\* A database that had keys all along is on the panel, with keys, although every
\* command but INFO may fail (mergeRedisDBs keeps what INFO said).
NoDatabaseMissed ==
  (rpc = "done" /\ up) => \A d \in full : d \in DOMAIN dbs /\ dbs[d].keys > 0

\* Every database that the setting names, or the default one, is on the panel,
\* empty or not, whatever else is in the setting (resolveRedisWatchDBs).
WatchedListed ==
  (rpc = "done" /\ up) =>
    \A d \in DBs :
      d \in ToSet(setting) \/ (setting = <<>> /\ d \in ToSet(DefaultWatch)) =>
        d \in DOMAIN dbs
=============================================================================
