----------------------------- MODULE SampleFeed -----------------------------
(***************************************************************************)
(* What the page may expect of mogotor: the chart, a window of samples in  *)
(* the order of time, and one sample for the cards, which is never newer   *)
(* than the chart.  Both are gone when the process is, and a new process   *)
(* starts with what it finds of the chart and without cards.               *)
(***************************************************************************)
EXTENDS Integers, FiniteSets

CONSTANTS
  Retention,  \* the length of the window
  MaxTime,    \* bound: the last tick
  MaxStarts   \* bound: how often the process is started

ASSUME FeedAssumption ==
  Retention \in Nat \ {0} /\ MaxTime \in Nat /\ MaxStarts \in Nat

VARIABLES
  time,
  life,   \* how often the process was started
  state,  \* "off", "up", or "stopping": no new connections are accepted
  chart,  \* the samples of the history, by their times
  taken,  \* the last sample this process took, or 0
  shown   \* the sample of the cards, or 0

feedVars == <<time, life, state, chart, taken, shown>>

Kept(t) == t >= time - Retention

-----------------------------------------------------------------------------
FeedInit ==
  /\ time = 1 /\ life = 0 /\ state = "off"
  /\ chart = {} /\ taken = 0 /\ shown = 0

Pass ==
  /\ time < MaxTime /\ time' = time + 1
  /\ UNCHANGED <<life, state, chart, taken, shown>>

Launch ==
  /\ state = "off" /\ state' = "up"
  /\ life < MaxStarts /\ life' = life + 1
  /\ chart' \in SUBSET {t \in 1..time : Kept(t)}
  /\ UNCHANGED <<time, taken, shown>>

\* A sample is in the chart first, unless it took longer than the window; what
\* has left the window by then is gone.
TakeSample(t) ==
  /\ state # "off"
  /\ \A p \in chart : p <= t
  /\ taken' = t
  /\ chart' = {p \in chart \cup {t} : Kept(p)}
  /\ UNCHANGED <<time, life, state, shown>>

ShowSample ==
  /\ state # "off" /\ shown' = taken
  /\ UNCHANGED <<time, life, state, chart, taken>>

Stop ==
  /\ state = "up" /\ state' = "stopping"
  /\ UNCHANGED <<time, life, chart, taken, shown>>

End ==
  /\ state # "off" /\ state' = "off"
  /\ chart' = {} /\ taken' = 0 /\ shown' = 0
  /\ UNCHANGED <<time, life>>

FeedNext ==
  \/ Pass \/ Launch \/ (\E t \in (taken + 1)..time : TakeSample(t))
  \/ ShowSample \/ Stop \/ End

FeedSpec == FeedInit /\ [][FeedNext]_feedVars
=============================================================================
