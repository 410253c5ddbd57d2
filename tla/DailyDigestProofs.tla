------------------------- MODULE DailyDigestProofs -------------------------
(***************************************************************************)
(* Theorems about DailyDigest, for any day, number of days and failures.   *)
(***************************************************************************)
EXTENDS DailyDigest, TLAPS, SequenceTheorems

Entry == [day : Days, slips : Nat]

-----------------------------------------------------------------------------
(* The log *)

\* The log after one more digest.
LEMMA ReceiveLog ==
  ASSUME TypeOK, Receive
  PROVE  /\ log' \in Seq(Entry)
         /\ Len(log) \in Nat /\ Len(log') = Len(log) + 1
         /\ \A i \in 1..Len(log) : log'[i] = log[i]
         /\ log'[Len(log) + 1].day = at.day /\ log'[Len(log) + 1].slips = slips
<1> DEFINE new == [day |-> at.day, slips |-> slips]
<1>1. log \in Seq(Entry) /\ new \in Entry
  BY DEF TypeOK, Entry, Stamp
<1>2. log' = Append(log, new)
  BY DEF Receive
<1>3. new.day = at.day /\ new.slips = slips
  OBVIOUS
<1> QED
  BY <1>1, <1>2, <1>3, AppendProperties, LenProperties

\* The entries of the log are typed.
LEMMA LogEntries ==
  ASSUME TypeOK
  PROVE  /\ Len(log) \in Nat
         /\ \A i \in 1..Len(log) : log[i].day \in Nat /\ log[i].slips \in Nat
<1>1. log \in Seq(Entry)
  BY DEF TypeOK, Entry
<1>2. Len(log) \in Nat /\ \A i \in 1..Len(log) : log[i] \in Entry
  BY <1>1, LenProperties, ElementOfSeq
<1> QED
  BY <1>2 DEF Entry, Days

-----------------------------------------------------------------------------
(* Type correctness *)

\* Init is well typed.
LEMMA TypeInit == Init => TypeOK
<1>1. <<>> \in Seq(Entry)
  BY EmptySeq
<1> QED
  BY <1>1, DigestAssumption DEF Init, TypeOK, Stamp, Days, Entry, DigestAssumption

\* Every step keeps the types.
LEMMA TypeStep == TypeOK /\ [Next]_vars => TypeOK'
<1> SUFFICES ASSUME TypeOK, [Next]_vars
             PROVE  TypeOK'
  OBVIOUS
<1> USE DEF TypeOK, Stamp, Days, Slip
<1>1. CASE Tick
  BY <1>1, DigestAssumption DEF Tick, DigestAssumption
<1>2. CASE GoBack
  BY <1>2 DEF GoBack
<1>3. CASE Start \/ Crash
  BY <1>3 DEF Start, Crash
<1>4. CASE CrashUnmarked
  BY <1>4 DEF CrashUnmarked
<1>5. CASE Begin
  BY <1>5 DEF Begin
<1>6. CASE Decide
  <2>1. slips' \in Nat
    BY <1>6 DEF Decide
  <2>2. /\ pc' \in {"posting", "idle"}
        /\ pc' = "posting" => Enabled /\ at.hour >= DailyHour
    BY <1>6 DEF Decide, ShouldSendDaily
  <2> QED
    BY <1>6, <2>1, <2>2 DEF Decide
<1>7. CASE PostAccepted
  <2>1. log' \in Seq([day : Days, slips : Nat])
    BY <1>7, ReceiveLog DEF PostAccepted, Entry
  <2> QED
    BY <1>7, <2>1 DEF PostAccepted
<1>8. CASE PostUnanswered
  <2>1. log' \in Seq([day : Days, slips : Nat])
    BY <1>8, ReceiveLog DEF PostUnanswered, Entry
  <2> QED
    BY <1>8, <2>1 DEF PostUnanswered
<1>9. CASE PostRefused
  BY <1>9 DEF PostRefused
<1>10. CASE MarkOpen \/ MarkWrite
  BY <1>10 DEF MarkOpen, MarkWrite, Garbled
<1>11. CASE MarkFails
  BY <1>11 DEF MarkFails
<1>12. CASE UNCHANGED vars
  BY <1>12 DEF vars
<1> QED
  BY <1>1, <1>2, <1>3, <1>4, <1>5, <1>6, <1>7, <1>8, <1>9, <1>10, <1>11, <1>12
     DEF Next

\* Every variable of the notifier keeps its type.
THEOREM TypeCorrect == Spec => []TypeOK
  BY TypeInit, TypeStep, PTL DEF Spec

-----------------------------------------------------------------------------
(* A marked date was received *)

\* Between the POST and the end of markSent the channel has the running
\* collect()'s digest: that is what makes MarkWrite safe.
MarkInv ==
  /\ MarkedWasReceived
  /\ pc \in {"marking", "writing"} => \E i \in 1..Len(log) : log[i].day = at.day

\* MarkInv is inductive.
LEMMA MarkStep == TypeOK /\ TypeOK' /\ MarkInv /\ [Next]_vars => MarkInv'
<1> SUFFICES ASSUME TypeOK, TypeOK', MarkInv, [Next]_vars
             PROVE  MarkInv'
  OBVIOUS
<1> USE DEF MarkInv, MarkedWasReceived
<1>1. ASSUME UNCHANGED <<log, file>>,
             pc' \in {"marking", "writing"} => pc = pc' /\ at' = at
      PROVE  MarkInv'
  BY <1>1
<1>2. ASSUME Receive, UNCHANGED <<at, file>>
      PROVE  MarkInv'
  <2>1. /\ Len(log) \in Nat /\ Len(log') = Len(log) + 1
        /\ \A i \in 1..Len(log) : log'[i] = log[i]
        /\ log'[Len(log) + 1].day = at.day
    BY <1>2, ReceiveLog
  <2>2. 1..Len(log) \subseteq 1..Len(log') /\ Len(log) + 1 \in 1..Len(log')
    BY <2>1
  <2>3. \E i \in 1..Len(log') : log'[i].day = at'.day
    BY <2>1, <2>2, <1>2
  <2>4. Known(file) => \E i \in 1..Len(log') : log'[i].day = file
    BY <2>1, <2>2
  <2> QED
    BY <2>3, <2>4, <1>2 DEF Known
<1>3. CASE Tick \/ GoBack \/ Start \/ Crash \/ CrashUnmarked \/ Begin
  BY <1>3, <1>1 DEF Tick, GoBack, Start, Crash, CrashUnmarked, Begin
<1>4. CASE Decide \/ PostRefused \/ MarkFails
  <2>1. UNCHANGED <<log, file>> /\ pc' \notin {"marking", "writing"}
    BY <1>4 DEF Decide, PostRefused, MarkFails
  <2> QED
    BY <2>1, <1>1
<1>5. CASE PostAccepted \/ PostUnanswered
  BY <1>5, <1>2 DEF PostAccepted, PostUnanswered
<1>6. CASE MarkOpen
  BY <1>6 DEF MarkOpen, Known, Garbled, Days
<1>7. CASE MarkWrite
  BY <1>7 DEF MarkWrite
<1>8. CASE UNCHANGED vars
  BY <1>8 DEF vars
<1> QED
  BY <1>3, <1>4, <1>5, <1>6, <1>7, <1>8 DEF Next

\* Whatever fails, dies or is set back, the state file never names a date
\* whose digest the channel has not received.
THEOREM MarkedReceived == Spec => []MarkedWasReceived
<1>1. Init => MarkInv
  BY DEF Init, MarkInv, MarkedWasReceived, Known, Days, Absent
<1>2. TypeOK /\ TypeOK' /\ MarkInv /\ [Next]_vars => MarkInv'
  BY MarkStep
<1>3. MarkInv => MarkedWasReceived
  BY DEF MarkInv
<1> QED
  BY <1>1, <1>2, <1>3, TypeCorrect, PTL DEF Spec
-----------------------------------------------------------------------------
(* A repeated digest has a reason *)

\* As long as no slip happened since a digest, the file is at its date or
\* later; so a round that decides to send is at a later date than all of them.
RepeatInv ==
  /\ at.day <= today
  /\ Known(file) => file <= at.day
  /\ \A i \in 1..Len(log) : log[i].day <= at.day /\ log[i].slips <= slips
  /\ pc \in {"down", "idle", "probing", "posting"} =>
       \A i \in 1..Len(log) : log[i].slips = slips => Known(file) /\ log[i].day <= file
  /\ pc = "posting" =>
       \A i \in 1..Len(log) : log[i].slips = slips => log[i].day < at.day
  /\ RepeatsExplained

\* A slip makes every digest so far older than the count of slips.
LEMMA SlipAges ==
  ASSUME TypeOK, RepeatInv, Slip
  PROVE  \A i \in 1..Len(log) : log[i].slips < slips'
<1>1. slips \in Nat /\ slips' = slips + 1
  BY DEF TypeOK, Slip
<1> QED
  BY <1>1, LogEntries DEF RepeatInv

\* One more digest, decided on in this round.
LEMMA RepeatReceive ==
  ASSUME TypeOK, RepeatInv, pc = "posting", Receive
  PROVE  /\ \A i \in 1..Len(log') : log'[i].day <= at.day /\ log'[i].slips <= slips
         /\ RepeatsExplained'
<1>1. /\ Len(log) \in Nat /\ Len(log') = Len(log) + 1
      /\ \A i \in 1..Len(log) : log'[i] = log[i]
      /\ log'[Len(log) + 1].day = at.day /\ log'[Len(log) + 1].slips = slips
  BY ReceiveLog
<1>2. \A i \in 1..Len(log) : log[i].day \in Nat /\ log[i].slips \in Nat
  BY LogEntries
<1>3. at.day \in Nat /\ slips \in Nat
  BY DEF TypeOK, Stamp, Days
<1>4. \A i \in 1..Len(log') : i \in 1..Len(log) \/ i = Len(log) + 1
  BY <1>1
<1>5. \A i \in 1..Len(log') : log'[i].day <= at.day /\ log'[i].slips <= slips
  BY <1>1, <1>3, <1>4 DEF RepeatInv
<1>6. ASSUME NEW i \in 1..Len(log'), NEW j \in 1..Len(log'),
             i < j, log'[i].day = log'[j].day
      PROVE  log'[i].slips < log'[j].slips
  <2>1. i \in 1..Len(log)
    BY <1>1, <1>4, <1>6
  <2>2. CASE j \in 1..Len(log)
    BY <2>1, <2>2, <1>1, <1>6 DEF RepeatInv, RepeatsExplained
  <2>3. CASE j = Len(log) + 1
    <3>1. log[i].day = at.day /\ log[i].slips <= slips
      BY <2>1, <2>3, <1>1, <1>6 DEF RepeatInv
    <3>2. log[i].slips # slips
      BY <2>1, <3>1, <1>2, <1>3 DEF RepeatInv
    <3> QED
      BY <2>1, <2>3, <3>1, <3>2, <1>1, <1>2, <1>3
  <2> QED
    BY <2>2, <2>3, <1>4
<1> QED
  BY <1>5, <1>6 DEF RepeatsExplained

\* RepeatInv is inductive while the date never goes back.
LEMMA RepeatStep ==
  ASSUME ~MayGoBack, TypeOK, TypeOK', RepeatInv, [Next]_vars
  PROVE  RepeatInv'
<1>n. /\ today \in Nat /\ today' \in Nat /\ at.day \in Nat /\ at'.day \in Nat
      /\ slips \in Nat /\ Len(log) \in Nat
      /\ \A i \in 1..Len(log) : log[i].day \in Nat /\ log[i].slips \in Nat
      /\ Known(file) => file \in Nat
  BY LogEntries DEF TypeOK, Stamp, Days, Known
<1>1. CASE Tick
  <2>1. today <= today' /\ UNCHANGED <<pc, at, file, log, slips>>
    BY <1>1, <1>n DEF Tick
  <2> QED
    BY <2>1, <1>n DEF RepeatInv, RepeatsExplained
<1>2. CASE GoBack
  BY <1>2 DEF GoBack
<1>3. CASE Start \/ Crash \/ PostRefused
  BY <1>3 DEF Start, Crash, PostRefused, RepeatInv, RepeatsExplained
<1>4. CASE CrashUnmarked \/ MarkFails
  <2>1. UNCHANGED <<today, at, file, log>> /\ pc' \in {"down", "idle"} /\ Slip
    BY <1>4 DEF CrashUnmarked, MarkFails
  <2>2. \A i \in 1..Len(log) : log[i].slips < slips' /\ slips' \in Nat
    BY <2>1, <1>n, SlipAges DEF Slip
  <2> QED
    BY <2>1, <2>2, <1>n DEF RepeatInv, RepeatsExplained
<1>5. CASE Begin
  <2>1. /\ UNCHANGED <<today, file, log, slips>>
        /\ pc = "idle" /\ pc' = "probing" /\ at'.day = today
    BY <1>5 DEF Begin
  <2> QED
    BY <2>1, <1>n DEF RepeatInv, RepeatsExplained
<1>6. CASE Decide
  <2>1. PICK last \in {file, Garbled} :
          /\ pc' = IF Enabled /\ ShouldSendDaily(at, last) THEN "posting" ELSE "idle"
          /\ IF last = file THEN UNCHANGED slips ELSE Slip
    BY <1>6 DEF Decide
  <2>2. pc = "probing" /\ pc' \in {"posting", "idle"} /\ UNCHANGED <<today, at, file, log>>
    BY <1>6 DEF Decide
  <2>3. CASE last = file
    <3>1. \A i \in 1..Len(log) : log[i].slips = slips => Known(file) /\ log[i].day <= file
      BY <2>2 DEF RepeatInv
    <3>2. pc' = "posting" => (Known(file) => at.day # file)
      BY <2>1, <2>3 DEF ShouldSendDaily
    <3>3. pc' = "posting" =>
            \A i \in 1..Len(log) : log[i].slips = slips => log[i].day < at.day
      BY <3>1, <3>2, <1>n DEF RepeatInv
    <3>4. slips' = slips
      BY <2>1, <2>3
    <3> QED
      BY <2>2, <3>1, <3>3, <3>4 DEF RepeatInv, RepeatsExplained
  <2>4. CASE last # file
    <3>1. \A i \in 1..Len(log) : log[i].slips < slips' /\ slips' \in Nat
      BY <2>1, <2>4, <1>n, SlipAges DEF Slip
    <3> QED
      BY <2>2, <3>1, <1>n DEF RepeatInv, RepeatsExplained
  <2> QED
    BY <2>3, <2>4
<1>7. CASE PostAccepted
  <2>1. /\ \A i \in 1..Len(log') : log'[i].day <= at.day /\ log'[i].slips <= slips
        /\ RepeatsExplained'
    BY <1>7, RepeatReceive DEF PostAccepted
  <2>2. pc' = "marking" /\ UNCHANGED <<today, at, file, slips>>
    BY <1>7 DEF PostAccepted
  <2> QED
    BY <2>1, <2>2 DEF RepeatInv
<1>8. CASE PostUnanswered
  <2>1. /\ \A i \in 1..Len(log') : log'[i].day <= at.day /\ log'[i].slips <= slips
        /\ RepeatsExplained'
    BY <1>8, RepeatReceive DEF PostUnanswered
  <2>2. pc' = "idle" /\ UNCHANGED <<today, at, file>> /\ slips' = slips + 1
    BY <1>8 DEF PostUnanswered, Slip
  <2>3. \A i \in 1..Len(log') : log'[i].slips \in Nat
    <3>1. log' \in Seq(Entry)
      BY <1>8, ReceiveLog DEF PostUnanswered
    <3>2. \A i \in 1..Len(log') : log'[i] \in Entry
      BY <3>1, ElementOfSeq
    <3> QED
      BY <3>2 DEF Entry
  <2>4. \A i \in 1..Len(log') : log'[i].slips < slips'
    BY <2>1, <2>2, <2>3, <1>n
  <2> QED
    BY <2>1, <2>2, <2>3, <2>4, <1>n DEF RepeatInv
<1>9. CASE MarkOpen
  <2>1. /\ UNCHANGED <<today, at, log, slips>> /\ pc' = "writing" /\ file' = Garbled
    BY <1>9 DEF MarkOpen
  <2> QED
    BY <2>1 DEF RepeatInv, RepeatsExplained, Known, Garbled, Days
<1>10. CASE MarkWrite
  <2>1. /\ UNCHANGED <<today, at, log, slips>> /\ pc' = "idle" /\ file' = at.day
    BY <1>10 DEF MarkWrite
  <2> QED
    BY <2>1, <1>n DEF RepeatInv, RepeatsExplained, Known, Days
<1>11. CASE UNCHANGED vars
  BY <1>11 DEF vars, RepeatInv, RepeatsExplained
<1> QED
  BY <1>1, <1>2, <1>3, <1>4, <1>5, <1>6, <1>7, <1>8, <1>9, <1>10, <1>11 DEF Next

\* The invariant behind both of the next theorems.
LEMMA RepeatInvariance ==
  ASSUME ~MayGoBack
  PROVE  Spec => []RepeatInv
<1>1. Init => RepeatInv
  <2>1. Init => Len(log) = 0
    BY EmptySeq DEF Init
  <2> QED
    BY <2>1 DEF Init, RepeatInv, RepeatsExplained, Known, Days, Absent
<1>2. TypeOK /\ TypeOK' /\ RepeatInv /\ [Next]_vars => RepeatInv'
  BY RepeatStep
<1> QED
  BY <1>1, <1>2, TypeCorrect, PTL DEF Spec

\* While the date never goes back, the channel sees two digests of one date
\* only if something was lost track of between them.
THEOREM RepeatsHaveReason ==
  ASSUME ~MayGoBack
  PROVE  Spec => []RepeatsExplained
<1>1. RepeatInv => RepeatsExplained
  BY DEF RepeatInv
<1> QED
  BY <1>1, RepeatInvariance, PTL

-----------------------------------------------------------------------------
(* The promise is kept *)

\* A step of the notifier is a step of the promise, or none.
LEMMA PromiseStep ==
  ASSUME TypeOK, RepeatInv, ~MayGoBack, [Next]_vars
  PROVE  [Promise!Next]_<<today, log, slips>>
<1> USE DEF Promise!Next, Promise!NewDay, Promise!Slip, Promise!Deliver
<1>1. ASSUME Receive, pc = "posting", today' = today, slips' \in {slips, slips + 1}
      PROVE  Promise!Deliver
  <2>1. at.day \in 0..today
    BY DEF TypeOK, Stamp, Days, RepeatInv
  <2>2. \A i \in 1..Len(log) :
          log[i].day <= at.day /\ (log[i].slips = slips => log[i].day < at.day)
    BY <1>1 DEF RepeatInv
  <2>3. log' = Append(log, [day |-> at.day, slips |-> slips])
    BY <1>1 DEF Receive
  <2> QED
    BY <1>1, <2>1, <2>2, <2>3
<1>2. CASE Tick
  BY <1>2 DEF Tick
<1>3. CASE GoBack
  BY <1>3 DEF GoBack
<1>4. CASE Start \/ Crash \/ Begin \/ PostRefused \/ MarkOpen \/ MarkWrite
  BY <1>4 DEF Start, Crash, Begin, PostRefused, MarkOpen, MarkWrite
<1>5. CASE CrashUnmarked \/ Decide \/ MarkFails
  BY <1>5 DEF CrashUnmarked, Decide, MarkFails, Slip
<1>6. CASE PostAccepted
  BY <1>6, <1>1 DEF PostAccepted
<1>7. CASE PostUnanswered
  BY <1>7, <1>1 DEF PostUnanswered, Slip
<1>8. CASE UNCHANGED vars
  BY <1>8 DEF vars
<1> QED
  BY <1>2, <1>3, <1>4, <1>5, <1>6, <1>7, <1>8 DEF Next

\* While the date is never set back the notifier implements DigestPromise,
\* whatever is refused, lost, unreadable or unwritable, and whenever it dies.
THEOREM NotifierKeepsPromise ==
  ASSUME ~MayGoBack
  PROVE  Spec => PromiseKept
<1>1. Init => Promise!Init
  BY DEF Init, Promise!Init
<1>2. TypeOK /\ RepeatInv /\ [Next]_vars => [Promise!Next]_<<today, log, slips>>
  BY PromiseStep
<1> QED
  BY <1>1, <1>2, TypeCorrect, RepeatInvariance, PTL
     DEF Spec, PromiseKept, Promise!Spec
=============================================================================
