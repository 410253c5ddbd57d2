----------------------------- MODULE MongoPanel -----------------------------
(***************************************************************************)
(* The Mongo panel (CollectMongo, internal/collector/mongo.go): a ladder   *)
(* of addresses, at each a ladder of commands (two shells, on the host and *)
(* in the container) that share one deadline, and below them the state of  *)
(* the mongod process.                                                     *)
(*                                                                         *)
(* What each command would do is chosen beforehand: answer, answer what is *)
(* no JSON, fail, or hang until the deadline.  One that does not hang      *)
(* takes no time.                                                          *)
(***************************************************************************)
EXTENDS Integers, Sequences

VARIABLES
  configured,  \* a URI is configured
  shells,      \* shells found on the host
  container,   \* two more in the container, reached only by a local URI
  commands,    \* what the commands at the current address would do
  mpc,         \* CollectMongo
  address,     \* the addresses tried: the configured or empty one, then two
  next,        \* the next command
  late,        \* the deadline of this address has passed
  source,      \* snapshot.Source; an empty string is "none"
  reason       \* what went wrong last

setup == <<configured, shells, container>>
mongoVars == <<setup, commands, mpc, address, next, late, source, reason>>

Outcomes == {"answers", "garbage", "fails", "hangs"}
Ladder(n) == [1..n -> Outcomes]

-----------------------------------------------------------------------------
MongoInit ==
  /\ configured = FALSE /\ shells = 0 /\ container = FALSE
  /\ commands = <<>> /\ mpc = "start" /\ address = 1 /\ next = 1
  /\ late = FALSE /\ source = "none" /\ reason = "none"

\* The first address is the configured one or, without one, the empty URI.
Begin ==
  /\ mpc = "start" /\ mpc' = "try"
  /\ configured' \in BOOLEAN /\ shells' \in 0..2 /\ container' \in BOOLEAN
  /\ commands' \in Ladder(shells' + IF configured' /\ container' THEN 2 ELSE 0)
  /\ UNCHANGED <<address, next, late, source, reason>>

\* One turn of the loop in collectMongoServerStatus.
Works(k) == commands[k] = "answers" /\ ~late

Answer ==
  /\ mpc = "try" /\ next <= Len(commands) /\ Works(next)
  /\ mpc' = "done" /\ source' = "serverStatus"
  /\ UNCHANGED <<setup, commands, address, next, late, reason>>

\* A command that fails or prints no JSON: the next one is tried.
After_Garbage(k) == IF commands[k] = "garbage" THEN Len(commands) + 1 ELSE k + 1
After(k) == k + 1

Refuse ==
  /\ mpc = "try" /\ next <= Len(commands) /\ ~Works(next)
  /\ next' = After(next)
  /\ late' = (late \/ commands[next] = "hangs")
  /\ reason' = IF late' THEN "deadline" ELSE commands[next]
  /\ UNCHANGED <<setup, commands, mpc, address, source>>

\* collectMongoServerStatus fails: no command was found, or none worked.
Reason == IF commands = <<>> THEN "noShell" ELSE reason

NextAddress ==
  /\ mpc = "try" /\ next > Len(commands)
  /\ ~configured /\ address < 3
  /\ address' = address + 1 /\ next' = 1 /\ late' = FALSE
  /\ commands' \in Ladder(shells + IF container THEN 2 ELSE 0)
  /\ UNCHANGED <<setup, mpc, source, reason>>

GiveUp ==
  /\ mpc = "try" /\ next > Len(commands)
  /\ configured \/ address = 3
  /\ mpc' = "process"
  /\ reason' = IF configured THEN Reason ELSE "unavailable"
  /\ UNCHANGED <<setup, commands, address, next, late, source>>

\* collectMongoProcessFallback: the process may be up all the same; the generic
\* reason is not shown then.
Process(running) == IF running /\ reason = "unavailable" THEN "none" ELSE reason

Fallback ==
  /\ mpc = "process" /\ mpc' = "done"
  /\ \E running \in BOOLEAN :
       /\ source' = IF running THEN "process" ELSE "none"
       /\ reason' = Process(running)
  /\ UNCHANGED <<setup, commands, address, next, late>>

MongoNext == Begin \/ Answer \/ Refuse \/ NextAddress \/ GiveUp \/ Fallback
-----------------------------------------------------------------------------
MongoTypeOK ==
  /\ configured \in BOOLEAN /\ shells \in 0..2 /\ container \in BOOLEAN
  /\ Len(commands) <= 4 /\ commands \in Ladder(Len(commands))
  /\ mpc \in {"start", "try", "process", "done"} /\ late \in BOOLEAN
  /\ address \in 1..3 /\ next \in 1..5
  /\ source \in {"none", "serverStatus", "process"}

\* At the end of a ladder, a command that would have answered was passed over only
\* because one before it used up the deadline (collectMongoServerStatus).
AnswerFound ==
  next > Len(commands) =>
    \A k \in 1..Len(commands) :
      commands[k] = "answers" => \E i \in 1..(k - 1) : commands[i] = "hangs"

\* A panel without data, or without the data of the configured server, says why.
MongoExplained ==
  (mpc = "done" /\ source # "serverStatus" /\ (configured \/ source = "none")) =>
    reason # "none"
=============================================================================
