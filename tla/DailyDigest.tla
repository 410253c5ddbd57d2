---------------------------- MODULE DailyDigest ----------------------------
(***************************************************************************)
(* The daily digest of mogotor: Notifier.MaybeSend (internal/notify) as    *)
(* the collector calls it at the end of every collect().  The date of the  *)
(* last digest lives in the file DataDir/last-daily-notify, the digest     *)
(* itself goes out by an HTTP POST; the process may die between any two    *)
(* steps and is started again by systemd.                                  *)
(*                                                                         *)
(* Time is the Berlin date and hour.  A slip is a failure after which the  *)
(* file may say less than what the channel received; each one is counted.  *)
(***************************************************************************)
EXTENDS Integers, Sequences

CONSTANTS
  Hours,      \* hours of a day
  DailyHour,  \* dailyHour: no digest before it
  Enabled,    \* MOGOTOR_NOTIFY_URL is set
  MayGoBack,  \* the wall clock may be set back to an earlier date
  MaxDay,     \* bound: the last date
  MaxSlips,   \* bound: failures that lose track of a digest
  MaxDigests  \* bound: digests the channel receives

ASSUME DigestAssumption ==
  /\ Hours \in Nat \ {0}
  /\ DailyHour \in 0..(Hours - 1)
  /\ Enabled \in BOOLEAN
  /\ MayGoBack \in BOOLEAN
  /\ MaxDay \in Nat /\ MaxSlips \in Nat /\ MaxDigests \in Nat

VARIABLES
  today, hour,  \* the wall clock, in Berlin
  pc,           \* the collector goroutine
  at,           \* `now` of the running collect()
  file,         \* the state file: a date, or Absent or Garbled
  log,          \* ghost: the digests the channel received, in order
  slips         \* ghost: how many slips happened so far

vars == <<today, hour, pc, at, file, log, slips>>

Absent == -1
Garbled == -2
Days == Nat

-----------------------------------------------------------------------------
\* lastSent: the zero time unless the file holds a date.
Known(f) == f \in Days

\* ShouldSendDaily: at or after the hour, and not on the date of the last one.
ShouldSendDaily_Known(t, last) == t.hour >= DailyHour /\ Known(last) /\ t.day # last
ShouldSendDaily_Again(t, last) == t.hour >= DailyHour
ShouldSendDaily_Early(t, last) == Known(last) => t.day # last
ShouldSendDaily(t, last) ==
  t.hour >= DailyHour /\ (Known(last) => t.day # last)

Slip == slips < MaxSlips /\ slips' = slips + 1

\* The channel gets the digest of the running collect(); the log notes the date
\* and the slips so far.
Receive == log' = Append(log, [day |-> at.day, slips |-> slips])

-----------------------------------------------------------------------------
Init ==
  /\ today = 0 /\ hour = 0
  /\ pc = "down" /\ at = [day |-> 0, hour |-> 0]
  /\ file = Absent
  /\ log = <<>> /\ slips = 0

Tick ==
  /\ \/ hour < Hours - 1 /\ hour' = hour + 1 /\ UNCHANGED today
     \/ hour = Hours - 1 /\ today < MaxDay /\ hour' = 0 /\ today' = today + 1
  /\ UNCHANGED <<pc, at, file, log, slips>>

\* The wall clock is set back across midnight.
GoBack ==
  /\ MayGoBack /\ Slip
  /\ today > 0 /\ today' = today - 1
  /\ UNCHANGED <<hour, pc, at, file, log>>

Start ==
  /\ pc = "down"
  /\ pc' = "idle"
  /\ UNCHANGED <<today, hour, at, file, log, slips>>

\* The process dies where the file and the channel agree, or before a POST.
Crash ==
  /\ pc \in {"idle", "probing", "posting"}
  /\ pc' = "down"
  /\ UNCHANGED <<today, hour, at, file, log, slips>>

\* The process dies after the POST and before the date is in the file.
CrashUnmarked ==
  /\ pc \in {"marking", "writing"}
  /\ pc' = "down"
  /\ Slip
  /\ UNCHANGED <<today, hour, at, file, log>>

\* collect() takes the time first; its probes then run for any time.
Begin ==
  /\ pc = "idle"
  /\ Len(log) < MaxDigests
  /\ pc' = "probing"
  /\ at' = [day |-> today, hour |-> hour]
  /\ UNCHANGED <<today, hour, file, log, slips>>

\* MaybeSend up to the POST.  An unreadable file is no date at all.
Decide ==
  /\ pc = "probing"
  /\ \E last \in {file, Garbled} :
       /\ pc' = IF Enabled /\ ShouldSendDaily(at, last) THEN "posting" ELSE "idle"
       /\ IF last = file THEN UNCHANGED slips ELSE Slip
  /\ UNCHANGED <<today, hour, at, file, log>>

\* The webhook answers below 300.
PostAccepted ==
  /\ pc = "posting"
  /\ Receive
  /\ pc' = "marking"
  /\ UNCHANGED <<today, hour, at, file, slips>>

\* The webhook is not reached, or refuses.
PostRefused ==
  /\ pc = "posting"
  /\ pc' = "idle"
  /\ UNCHANGED <<today, hour, at, file, log, slips>>

\* The channel has the message, but the answer is an error or comes too late.
PostUnanswered ==
  /\ pc = "posting"
  /\ Receive /\ Slip
  /\ pc' = "idle"
  /\ UNCHANGED <<today, hour, at, file>>

\* markSent: os.WriteFile truncates, then writes.
MarkOpen ==
  /\ pc = "marking"
  /\ pc' = "writing"
  /\ file' = Garbled
  /\ UNCHANGED <<today, hour, at, log, slips>>

MarkWrite_Now ==
  /\ pc = "writing"
  /\ pc' = "idle"
  /\ file' = today
  /\ UNCHANGED <<today, hour, at, log, slips>>

MarkWrite ==
  /\ pc = "writing"
  /\ pc' = "idle"
  /\ file' = at.day
  /\ UNCHANGED <<today, hour, at, log, slips>>

\* The directory or the file cannot be opened or written; collect() logs it.
MarkFails ==
  /\ pc \in {"marking", "writing"}
  /\ pc' = "idle"
  /\ Slip
  /\ UNCHANGED <<today, hour, at, file, log>>

Next ==
  \/ Tick \/ GoBack \/ Start \/ Crash \/ CrashUnmarked
  \/ Begin \/ Decide
  \/ PostAccepted \/ PostRefused \/ PostUnanswered
  \/ MarkOpen \/ MarkWrite \/ MarkFails

Spec == Init /\ [][Next]_vars

\* Only the environment is fair: the clock runs, and a webhook that is asked
\* again and again accepts in the end.  Nothing makes the collector go on: its
\* probes run commands without a deadline, and it may die in any round.
Fairness == WF_vars(Tick) /\ SF_vars(PostAccepted)

FairSpec == Spec /\ Fairness
-----------------------------------------------------------------------------
Stamp == [day : Days, hour : 0..(Hours - 1)]

\* The types; and a digest is on its way only with a webhook set and in a
\* round that began at or after the hour, however late its probes end.
TypeOK ==
  /\ today \in Days /\ hour \in 0..(Hours - 1)
  /\ pc \in {"down", "idle", "probing", "posting", "marking", "writing"}
  /\ at \in Stamp
  /\ file \in Days \cup {Absent, Garbled}
  /\ log \in Seq([day : Days, slips : Nat])
  /\ slips \in Nat
  /\ pc \in {"posting", "marking", "writing"} => Enabled /\ at.hour >= DailyHour

\* A second digest for a date always has a reason: between the two, something
\* failed after a POST, or the state file could not be read (MaybeSend).
\* Refusals, crashes elsewhere and slow rounds never cause one.
RepeatsExplained ==
  \A i, j \in 1..Len(log) :
    (i < j /\ log[i].day = log[j].day) => log[i].slips < log[j].slips

\* A date is in the state file only after the channel received its digest, so
\* no failure makes mogotor believe in a digest nobody saw (MaybeSend marks
\* after post, and not after an error).
MarkedWasReceived ==
  Known(file) => \E i \in 1..Len(log) : log[i].day = file

\* The collector gets through its probes again and again, sooner or later.
RoundsComplete == []<><<Decide>>_vars

\* If rounds go on being completed, the digest of a day that does not end
\* arrives, in spite of crashes, refusals, a broken state file, a clock set
\* back and rounds that straddle midnight (MaybeSend at the end of collect).
\* A probe that hangs for ever is the case the premise leaves out.
LastDayArrives ==
  RoundsComplete => <>(\E i \in 1..Len(log) : log[i].day = MaxDay)

Promise == INSTANCE DigestPromise WITH digests <- log

\* While the date is never set back, process, file and webhook together keep the
\* promise of DigestPromise, through every crash and failure (MaybeSend).
PromiseKept == Promise!Spec
=============================================================================
