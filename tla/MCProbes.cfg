SPECIFICATION Spec
CONSTANTS
  Panels = {"mongo", "redis", "rabbit", "dplo", "disks", "gomodel",
            "openvpn", "fail2ban", "failures", "logins"}
  DBs <- MCDBs
  MaxDB = 2
  Settings <- MCSettings
  DefaultWatch <- MCDefaultWatch
  FallbackWatch <- MCDBs
  MaxKeys = 1
  QueueNames = {q1, q2}
  Nodes = {n1, n2}
  MaxRun = 2
  Mounts <- MCMounts
  MaxPartitions = 3
  Catalog <- MCCatalog
  Peers = {alice, bob}
  Jails = {sshd, recidive}
  Addresses = {a}
  BanTail = 2
  MaxBanLines = 3
  Origins = {scan, brute}
  Window = 1
  AuthTail = 3
  FailureLimit = 1
  Year = 3
  MaxSecond = 3
  MaxAuthLines = 3
  LastLines = 3
  LoginLimit = 2
  FirstDate = 1
  MaxSessions = 3
SYMMETRY MCSymmetry
INVARIANTS
  TypeOK
  Explained
  NoDatabaseMissed
  WatchedListed
  QueuesListed
  NodeOfOverview
  RunningNotMissed
  DisksListedOnce
  ServedIsUp
  UpWasServed
  AnswerFound
  ClientsOfFile
  LogListsOnlyBanned
  Separated
  Represented
  LoginsNewest
PROPERTIES
  ClientTruthful
\* A probe returns.
CHECK_DEADLOCK FALSE
