---------------------------- MODULE SshFailures ----------------------------
(***************************************************************************)
(* The list of failed SSH logins (internal/collector/ssh.go): the tail of  *)
(* the auth log is parsed, sorted newest first, thinned by                 *)
(* dedupeSSHFailures one event at a time, and cut to a limit.              *)
(*                                                                         *)
(* The log gives no year: withCurrentYear supplies that of the moment of   *)
(* reading.  The loop works on its own copy of the log, so what happens to *)
(* the log meanwhile is not interleaved with it.                           *)
(***************************************************************************)
EXTENDS Integers, Sequences, SequencesExt, FiniteSetsExt, Functions

CONSTANTS
  Origins,       \* pairs of a user name and an address
  Window,        \* the 10 seconds within which failures are one
  AuthTail,      \* authLogTailLines
  FailureLimit,  \* sshFailureLimit
  Year,          \* length of a year
  MaxSecond,     \* bound: the last second
  MaxAuthLines   \* bound: lines written to the log between rotations

ASSUME SshAssumption ==
  /\ Window \in Nat /\ AuthTail \in Nat /\ FailureLimit \in Nat
  /\ Year \in Nat \ {0}
  /\ MaxSecond \in Nat /\ MaxAuthLines \in Nat

VARIABLES
  now,
  authLog,  \* the lines of the auth log, oldest first
  spc,      \* "idle", or "merging" in the loop of dedupeSSHFailures
  seen,     \* ghost: the failures of this reading
  toMerge,  \* what the loop has still to range over
  failures  \* the events kept so far; when idle, the list of the snapshot

sshVars == <<now, authLog, spc, seen, toMerge, failures>>

Kinds == {"invalid_user", "failed_password"}
Events == [ts : Int, origin : Origins, kind : Kinds]

-----------------------------------------------------------------------------
\* withCurrentYear, at the second `at`
WithCurrentYear(ts, at) == Year * (at \div Year) + (ts % Year)

\* parseAuthLogSSHFailure: lines that are no failure are skipped, the others
\* are dated in the current year.
Dated(line) ==
  [ts |-> WithCurrentYear(line.ts, now),
   origin |-> line.origin, kind |-> line.kind]

\* tailFile, or `tail -n`
AuthLines(s) == SubSeq(s, Max({0, Len(s) - AuthTail}) + 1, Len(s))

\* The failures among the lines, each at the position of its line.
Failures(lines) ==
  [i \in {j \in DOMAIN lines : lines[j].kind \in Kinds} |-> Dated(lines[i])]

\* sort.Slice by time, newest first; it is not stable.
Sorted_Any(events) ==
  LET n == Cardinality(DOMAIN events) IN
    {[i \in 1..n |-> events[p[i]]] : p \in Bijection(1..n, DOMAIN events)}

Sorted(events) ==
  LET n == Cardinality(DOMAIN events) IN
    {[i \in 1..n |-> events[p[i]]] :
       p \in {q \in Bijection(1..n, DOMAIN events) :
                \A i, j \in 1..n : i < j => events[q[i]].ts >= events[q[j]].ts}}

\* sshFailureKindRank
Rank(kind) == IF kind = "invalid_user" THEN 2 ELSE 1

Near(a, b) ==
  a.origin = b.origin /\ a.ts - b.ts <= Window /\ b.ts - a.ts <= Window

\* Which of two near events stays.
Replaces_Always(e, kept) == TRUE
Replaces(e, kept) == Rank(e.kind) >= Rank(kept.kind)

-----------------------------------------------------------------------------
SshInit ==
  /\ now = 0 /\ authLog = <<>>
  /\ spc = "idle" /\ seen = {} /\ toMerge = <<>> /\ failures = <<>>

PassSecond ==
  /\ spc = "idle" /\ now < MaxSecond
  /\ now' = now + 1
  /\ UNCHANGED <<authLog, spc, seen, toMerge, failures>>

\* sshd writes a line: a failure, or anything else.
WriteAuth ==
  /\ spc = "idle" /\ Len(authLog) < MaxAuthLines
  /\ \E o \in Origins, k \in Kinds \cup {"other"} :
       authLog' = Append(authLog, [ts |-> now, origin |-> o, kind |-> k])
  /\ UNCHANGED <<now, spc, seen, toMerge, failures>>

RotateAuth ==
  /\ spc = "idle" /\ authLog # <<>>
  /\ authLog' = <<>>
  /\ UNCHANGED <<now, spc, seen, toMerge, failures>>

\* readAuthLogLines, and collectSSHFailures up to the loop.
ReadAuth ==
  /\ spc = "idle"
  /\ spc' = "merging" /\ failures' = <<>>
  /\ LET events == Failures(AuthLines(authLog)) IN
       seen' = ToSet(events) /\ toMerge' \in Sorted(events)
  /\ UNCHANGED <<now, authLog>>

\* None of the three ways to the log works: the list is empty.
AuthUnread ==
  /\ spc = "idle"
  /\ seen' = {} /\ failures' = <<>>
  /\ UNCHANGED <<now, authLog, spc, toMerge>>

NextTurn == toMerge' = Tail(toMerge) /\ UNCHANGED <<now, authLog, spc, seen>>

\* The first kept event that is near absorbs the event, or is replaced by it.
MergeFailure ==
  /\ spc = "merging" /\ toMerge # <<>>
  /\ LET e == Head(toMerge)
         near == {i \in 1..Len(failures) : Near(failures[i], e)} IN
       /\ near # {}
       /\ LET k == Min(near) IN
            failures' = IF Replaces(e, failures[k]) THEN [failures EXCEPT ![k] = e] ELSE failures
  /\ NextTurn

KeepFailure ==
  /\ spc = "merging" /\ toMerge # <<>>
  /\ \A i \in 1..Len(failures) : ~Near(failures[i], Head(toMerge))
  /\ failures' = Append(failures, Head(toMerge))
  /\ NextTurn

\* After the loop: sorted again, and cut.
FinishFailures ==
  /\ spc = "merging" /\ toMerge = <<>>
  /\ spc' = "idle"
  /\ \E s \in Sorted(failures) :
       failures' = SubSeq(s, 1, Min({Len(s), FailureLimit}))
  /\ UNCHANGED <<now, authLog, seen, toMerge>>

SshNext ==
  \/ PassSecond \/ WriteAuth \/ RotateAuth
  \/ ReadAuth \/ AuthUnread \/ MergeFailure \/ KeepFailure \/ FinishFailures

SshSpec == SshInit /\ [][SshNext]_sshVars
-----------------------------------------------------------------------------
SshTypeOK ==
  /\ now \in Nat
  /\ authLog \in Seq([ts : Nat, origin : Origins, kind : Kinds \cup {"other"}])
  /\ spc \in {"idle", "merging"}
  /\ seen \subseteq Events
  /\ toMerge \in Seq(Events) /\ failures \in Seq(Events)

\* Two failures of one origin on the list are more than the window apart at
\* every turn of the loop, although an event that replaces another moves that
\* entry back in time (dedupeSSHFailures; it takes the sort before it).
Separated ==
  \A i, j \in 1..Len(failures) : i # j => ~Near(failures[i], failures[j])

Represents(r, e) ==
  r.origin = e.origin /\ Rank(r.kind) >= Rank(e.kind) /\ r.ts <= e.ts + Window

\* No failure the loop has passed disappears: an entry of its origin, of a kind
\* that says no less and dated at most a window later, stands for it, however
\* often entries were replaced.  Only the limit may cut it off.
Represented ==
  \A e \in seen \ ToSet(toMerge) :
    \/ \E i \in 1..Len(failures) : Represents(failures[i], e)
    \/ spc = "idle" /\ Len(failures) = FailureLimit

\* The list shows what has happened: no failure on it lies in the future.
NoneInFuture == \A i \in 1..Len(failures) : failures[i].ts <= now
=============================================================================
