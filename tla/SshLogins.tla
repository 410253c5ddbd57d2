----------------------------- MODULE SshLogins -----------------------------
(***************************************************************************)
(* The SSH panel around the list of failures (CollectSSH and               *)
(* collectLastLogins, internal/collector/ssh.go): the logins that `last`   *)
(* knows, or else the accepted ones in the auth log; then the failures.    *)
(* sshd writes to the auth log, and to wtmp when the session has a         *)
(* terminal; consoles and reboots write to wtmp too; both are rotated.     *)
(*                                                                         *)
(* Neither file gives a year: withCurrentYear supplies that of the reading,*)
(* and the logins of the auth log are sorted by what it makes of them.     *)
(* What happens to wtmp is followed until it is read, and what happens to  *)
(* the log until the panel returns.                                        *)
(***************************************************************************)
EXTENDS SshFailures

CONSTANTS
  LastLines,   \* what `last -n` prints
  LoginLimit,  \* sshLoginLimit
  FirstDate,   \* bound: the clock starts here
  MaxSessions  \* bound: sessions; a file gets one record more than is shown or read

ASSUME LoginsAssumption ==
  /\ LastLines \in Nat /\ LoginLimit \in Nat \ {0}
  /\ FirstDate \in Nat /\ MaxSessions \in Nat

VARIABLES
  date,      \* the clock, in seconds
  session,   \* the number of the last session
  wtmp,      \* records, the oldest first
  sshd,      \* the auth log: the sessions accepted, and the failures
  lpc,       \* CollectSSH: what is asked next
  logins,    \* snapshot.Logins
  hasData,   \* snapshot.Available
  consulted, \* ghost: the logins in the records that the list was made from
  lastYear   \* ghost: the list is of the auth log, with logins of an earlier year

loginVars == <<date, session, wtmp, sshd, lpc, logins, hasData, consulted, lastYear>>
recordVars == <<date, session, wtmp, sshd>>

\* The session of a record that is none: of a console or reboot, or a failure.
NoSession == 0

Record(n) == [session |-> n, ts |-> date]
Records == [session : Nat, ts : Nat]

-----------------------------------------------------------------------------
\* An event of the list, and the record it was made from.
Login(record) == [ts |-> WithCurrentYear(record.ts, date), of |-> record]

UpTo(s) == SubSeq(s, 1, Min({Len(s), LoginLimit}))

\* `last` prints the newest records first; the loop skips what is no login.
Listed(records) ==
  LET kept[i \in 0..Len(records)] ==
        IF i = 0 THEN <<>>
        ELSE IF records[i].session = NoSession THEN kept[i - 1]
        ELSE <<Login(records[i])>> \o kept[i - 1]
  IN kept[Len(records)]

LastRecords(s) == SubSeq(s, Max({0, Len(s) - LastLines}) + 1, Len(s))

LastLogins(records) == UpTo(Listed(records))

\* collectAcceptedFromAuthLog up to the sort: the logins among the lines.
LoginsAmong(lines) ==
  [i \in {j \in DOMAIN lines : lines[j].session # NoSession} |-> Login(lines[i])]

\* Sorted newest first by the dates they were given, then cut.
Accepted_Unsorted(lines) == {UpTo(Reverse(Listed(lines)))}
Accepted(lines) == {UpTo(s) : s \in Sorted(LoginsAmong(lines))}

\* The records of sessions among these.
Sessions(records) == {r \in ToSet(records) : r.session # NoSession}

LoginsInit ==
  /\ date = FirstDate /\ session = 0 /\ wtmp = <<>> /\ sshd = <<>>
  /\ lpc = "last" /\ logins = <<>> /\ hasData = FALSE /\ consulted = {} /\ lastYear = FALSE

probeVars == <<lpc, logins, hasData, consulted, lastYear>>

(* The system *)

PassTime ==
  /\ lpc # "done" /\ date < MaxSecond
  /\ date' = date + 1
  /\ UNCHANGED <<session, wtmp, sshd, probeVars>>

LogIn ==
  /\ lpc # "done" /\ session < MaxSessions /\ Len(sshd) <= AuthTail
  /\ session' = session + 1 /\ sshd' = Append(sshd, Record(session'))
  /\ UNCHANGED <<date, wtmp, probeVars>>

FailToLogIn ==
  /\ lpc # "done" /\ Len(sshd) <= AuthTail
  /\ sshd' = Append(sshd, Record(NoSession))
  /\ UNCHANGED <<date, session, wtmp, probeVars>>

\* The last session gets a terminal, or something else is recorded.
Register ==
  /\ lpc = "last" /\ Len(wtmp) <= LoginLimit
  /\ \E n \in {session, NoSession} :
       /\ n \notin {r.session : r \in Sessions(wtmp)}
       /\ wtmp' = Append(wtmp, Record(n))
  /\ UNCHANGED <<date, session, sshd, probeVars>>

RotateRecords ==
  /\ \/ lpc = "last" /\ wtmp # <<>> /\ wtmp' = <<>> /\ UNCHANGED sshd
     \/ lpc # "done" /\ sshd # <<>> /\ sshd' = <<>> /\ UNCHANGED wtmp
  /\ UNCHANGED <<date, session, probeVars>>

(* The probe *)

\* No login is listed by `last`, or it fails: the auth log is asked.
AskLast ==
  /\ lpc = "last"
  /\ logins' = LastLogins(LastRecords(wtmp))
  /\ lpc' = IF logins' = <<>> THEN "accepted" ELSE "failures"
  /\ consulted' = Sessions(LastRecords(wtmp))
  /\ UNCHANGED <<recordVars, hasData, lastYear>>

LastFails ==
  /\ lpc = "last" /\ lpc' = "accepted"
  /\ UNCHANGED <<recordVars, logins, hasData, consulted, lastYear>>

ReadAccepted ==
  /\ lpc = "accepted" /\ lpc' = "failures"
  /\ logins' \in Accepted(AuthLines(sshd))
  /\ consulted' = Sessions(AuthLines(sshd))
  /\ lastYear' = \E r \in consulted' : r.ts \div Year # date \div Year
  /\ UNCHANGED <<recordVars, hasData>>

AcceptedUnread ==
  /\ lpc = "accepted" /\ lpc' = "failures"
  /\ consulted' = {}
  /\ UNCHANGED <<recordVars, logins, hasData, lastYear>>

\* The log is read a second time, if it can be: the panel is up if either list
\* has an entry.
ReadFailures ==
  /\ lpc = "failures" /\ lpc' = "done"
  /\ \E found \in {\E r \in ToSet(AuthLines(sshd)) : r.session = NoSession, FALSE} :
       hasData' = (logins # <<>> \/ found)
  /\ UNCHANGED <<recordVars, logins, consulted, lastYear>>

LoginsNext ==
  \/ PassTime \/ LogIn \/ FailToLogIn \/ Register \/ RotateRecords
  \/ AskLast \/ LastFails \/ ReadAccepted \/ AcceptedUnread \/ ReadFailures
-----------------------------------------------------------------------------
LoginsTypeOK ==
  /\ date \in Nat /\ session \in 0..MaxSessions
  /\ wtmp \in Seq(Records) /\ sshd \in Seq(Records)
  /\ lpc \in {"last", "accepted", "failures", "done"}
  /\ logins \in Seq([ts : Int, of : Records]) /\ consulted \subseteq Records
  /\ hasData \in BOOLEAN /\ lastYear \in BOOLEAN

\* The list of logins is newest first by the time they really happened, and no
\* login of the records it was made from is left out but for the limit and for
\* logins no older, although one source is newest first, the other oldest first
\* and sorted by dates without a year, and both are full of other lines.  What
\* `last` lists keeps its order over New Year; in a list of the auth log the
\* logins of last year are dated in the coming months and come first, which is
\* the case left out.
LoginsNewest ==
  (lpc \in {"failures", "done"} /\ ~lastYear) =>
    /\ \A i, j \in 1..Len(logins) : i < j => logins[i].of.ts >= logins[j].of.ts
    /\ \A r \in consulted \ {logins[i].of : i \in 1..Len(logins)} :
         /\ Len(logins) = LoginLimit
         /\ \A i \in 1..Len(logins) : r.ts <= logins[i].of.ts
=============================================================================
