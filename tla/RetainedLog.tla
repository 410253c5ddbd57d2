---------------------------- MODULE RetainedLog ----------------------------
(***************************************************************************)
(* What the sample history promises, with a right clock: a log of samples  *)
(* with a retention window.  A sample is fragile until it is saved; a      *)
(* crash takes the fragile ones, and nothing but time takes a saved one.   *)
(* Only samples within the window count, and the window opens with a       *)
(* millisecond.  A sample has a wall time, ts.wall.                        *)
(***************************************************************************)
EXTENDS Integers

CONSTANTS
  Retention,
  Milli      \* the units of time in a millisecond

VARIABLES
  wall,    \* the time
  fragile, \* samples in the memory of the process only
  safe     \* samples in Redis

logVars == <<wall, fragile, safe>>

Alive(p, at) == p.ts.wall \div Milli > (at - Retention) \div Milli

-----------------------------------------------------------------------------
LogInit == wall \in Int /\ fragile = {} /\ safe = {}

Pass ==
  /\ wall' > wall
  /\ fragile' = {p \in fragile : Alive(p, wall')}
  /\ safe' = {p \in safe : Alive(p, wall')}

Write ==
  /\ \E p \in fragile' : fragile' = fragile \cup {p} /\ p.ts.wall <= wall
  /\ UNCHANGED <<wall, safe>>

Save ==
  /\ \E p \in fragile : fragile' = fragile \ {p} /\ safe' = safe \cup {p}
  /\ UNCHANGED wall

Lose == fragile' = {} /\ UNCHANGED <<wall, safe>>

\* The samples of an older log are taken over, by a process without any.
TakeOver ==
  /\ fragile = {} /\ fragile' = {}
  /\ safe \subseteq safe'
  /\ UNCHANGED wall

LogSpec == LogInit /\ [][Pass \/ Write \/ Save \/ Lose \/ TakeOver]_logVars
=============================================================================
