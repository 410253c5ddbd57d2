------------------------------- MODULE BanLog -------------------------------
(***************************************************************************)
(* The fail2ban panel (internal/collector/fail2ban.go).  CollectFail2ban   *)
(* asks systemd, then fail2ban-client for the jails and each jail's bans,  *)
(* one command after the other, and if any of them fails falls back to     *)
(* replaying the tail of the fail2ban log.  fail2ban bans and unbans all   *)
(* the while, and its log is rotated.                                      *)
(*                                                                         *)
(* fail2ban itself is modelled as this code relies on it: every ban and    *)
(* unban is one line of the log.  Counts of failures are left out.         *)
(***************************************************************************)
EXTENDS Integers, Sequences, SequencesExt, FiniteSetsExt

CONSTANTS
  Jails, Addresses,
  BanTail,     \* fail2banLogTail
  MaxBanLines  \* bound: lines written to the log between rotations

ASSUME BanAssumption ==
  BanTail \in Nat /\ MaxBanLines \in Nat /\ IsFiniteSet(Jails)

VARIABLES
  banned,    \* fail2ban: the addresses each jail has banned
  banLog,    \* /var/log/fail2ban.log, oldest line first
  fpc,       \* CollectFail2ban: "idle", "client" or "log"
  toAsk,     \* the jails still to be asked for, in the order of the list
  jails,     \* the answers so far: a function on the jails asked for
  banError,  \* snapshot.Error, as the step that set it first
  banPanel,  \* the result
  touched    \* ghost: the pairs banned or unbanned since the probe began

banVars == <<banned, banLog, fpc, toAsk, jails, banError, banPanel, touched>>
banProbeVars == <<fpc, toAsk, jails, banError, banPanel>>

NoJails == [j \in {} |-> {}]
NoPanel == [available |-> FALSE, source |-> "none", jails |-> NoJails, error |-> "unprobed"]

-----------------------------------------------------------------------------
\* readFail2banLog
LogTail(s) == SubSeq(s, Max({0, Len(s) - BanTail}) + 1, Len(s))

\* parseFail2banLogCurrentlyBanned: the lines are replayed on empty jails, so
\* the last line about an address decides; jails without bans are not listed.
LastWord(lines, j, a) ==
  LET about == {i \in 1..Len(lines) : lines[i].jail = j /\ lines[i].ip = a} IN
    IF about = {} THEN "Unban" ELSE lines[Max(about)].action

FirstWord(lines, j, a) ==
  LET about == {i \in 1..Len(lines) : lines[i].jail = j /\ lines[i].ip = a} IN
    IF about = {} THEN "Unban" ELSE lines[Min(about)].action

Replayed_First(lines) ==
  [j \in {k \in Jails : \E a \in Addresses : FirstWord(lines, k, a) = "Ban"} |->
     {a \in Addresses : FirstWord(lines, j, a) = "Ban"}]

Replayed(lines) ==
  [j \in {k \in Jails : \E a \in Addresses : LastWord(lines, k, a) = "Ban"} |->
     {a \in Addresses : LastWord(lines, j, a) = "Ban"}]

\* snapshot.Error = err.Error() only where nothing was reported before.
FirstError_Lost(old, new) == old
FirstError(old, new) == IF old = "none" THEN new ELSE old

-----------------------------------------------------------------------------
BanInit ==
  /\ banned = [j \in Jails |-> {}] /\ banLog = <<>>
  /\ fpc = "idle" /\ toAsk = <<>> /\ jails = NoJails
  /\ banError = "none" /\ banPanel = NoPanel
  /\ touched = {}

LogLine(j, a, action) ==
  /\ Len(banLog) < MaxBanLines
  /\ banLog' = Append(banLog, [jail |-> j, ip |-> a, action |-> action])
  /\ touched' = touched \cup {<<j, a>>}
  /\ UNCHANGED banProbeVars

Ban(j, a) ==
  /\ a \notin banned[j]
  /\ banned' = [banned EXCEPT ![j] = @ \cup {a}]
  /\ LogLine(j, a, "Ban")

Unban(j, a) ==
  /\ a \in banned[j]
  /\ banned' = [banned EXCEPT ![j] = @ \ {a}]
  /\ LogLine(j, a, "Unban")

RotateBanLog ==
  /\ banLog # <<>> /\ banLog' = <<>>
  /\ UNCHANGED <<banned, touched>> /\ UNCHANGED banProbeVars

\* collectService, which may fail and leave an error.
AskSystemd ==
  /\ fpc = "idle"
  /\ fpc' = "list" /\ jails' = NoJails /\ toAsk' = <<>>
  /\ banError' \in {"none", "systemd"}
  /\ touched' = {}
  /\ UNCHANGED <<banned, banLog, banPanel>>

\* `fail2ban-client status`, with sudo if need be: the list of jails.
ListJails ==
  /\ fpc = "list"
  /\ fpc' = "client"
  /\ toAsk' \in SetToSeqs(Jails)
  /\ UNCHANGED <<banned, banLog, jails, banError, banPanel, touched>>

\* `fail2ban-client status <jail>`
AskJail ==
  /\ fpc = "client" /\ toAsk # <<>>
  /\ jails' = [j \in DOMAIN jails \cup {Head(toAsk)} |->
                 IF j = Head(toAsk) THEN banned[j] ELSE jails[j]]
  /\ toAsk' = Tail(toAsk)
  /\ UNCHANGED <<banned, banLog, fpc, banError, banPanel, touched>>

Publish(source, found, error) ==
  /\ fpc' = "idle"
  /\ banPanel' = [available |-> source # "none", source |-> source,
                  jails |-> found, error |-> error]

\* The client answered for every jail: an error of systemd is forgotten.
FromClient ==
  /\ fpc = "client" /\ toAsk = <<>>
  /\ Publish("client", jails, "none")
  /\ UNCHANGED <<banned, banLog, toAsk, jails, banError, touched>>

ClientFails_Partial ==
  /\ fpc = "client" /\ toAsk # <<>>
  /\ Publish("client", jails, "none")
  /\ UNCHANGED <<banned, banLog, toAsk, jails, banError, touched>>

\* One command of the client fails: the answers of the others are dropped.
ClientFails ==
  /\ fpc = "list" \/ (fpc = "client" /\ toAsk # <<>>)
  /\ fpc' = "log"
  /\ banError' = FirstError(banError, "client")
  /\ UNCHANGED <<banned, banLog, toAsk, jails, banPanel, touched>>

\* The error stays when the log lists no ban.
FromLog ==
  /\ fpc = "log"
  /\ LET found == Replayed(LogTail(banLog)) IN
       Publish("log", found, IF DOMAIN found = {} THEN banError ELSE "none")
  /\ UNCHANGED <<banned, banLog, toAsk, jails, banError, touched>>

LogFails ==
  /\ fpc = "log"
  /\ Publish("none", NoJails, FirstError(banError, "log"))
  /\ UNCHANGED <<banned, banLog, toAsk, jails, banError, touched>>

BanNext ==
  \/ \E j \in Jails, a \in Addresses : Ban(j, a) \/ Unban(j, a)
  \/ RotateBanLog
  \/ AskSystemd \/ ListJails \/ AskJail \/ FromClient \/ ClientFails
  \/ FromLog \/ LogFails

BanSpec == BanInit /\ [][BanNext]_banVars
-----------------------------------------------------------------------------
BanSets == UNION {[S -> SUBSET Addresses] : S \in SUBSET Jails}

\* The shape of the state; a panel built from the log has no jail without bans.
BanTypeOK ==
  /\ banned \in [Jails -> SUBSET Addresses]
  /\ banLog \in Seq([jail : Jails, ip : Addresses, action : {"Ban", "Unban"}])
  /\ fpc \in {"idle", "list", "client", "log"}
  /\ ToSet(toAsk) \subseteq Jails
  /\ jails \in BanSets /\ banPanel.jails \in BanSets
  /\ banError \in {"none", "systemd", "client"}
  /\ banPanel.source = "log" => \A j \in DOMAIN banPanel.jails : banPanel.jails[j] # {}

\* A panel built from the log never lists an address that was free when the log
\* was read, wherever tail cut the file and even after a rotation
\* (parseFail2banLogCurrentlyBanned).
LogListsOnlyBanned ==
  LET found == Replayed(LogTail(banLog)) IN
    \A j \in DOMAIN found : found[j] \subseteq banned[j]

\* A panel built from the client has every jail, and is right about every
\* address that fail2ban left alone during the probe, though each jail is asked
\* at a time of its own and commands may fail (collectFail2banFromClient).
ClientTruthful ==
  [][(fpc = "client" /\ fpc' = "idle") =>
       /\ DOMAIN banPanel'.jails = Jails
       /\ \A j \in Jails, a \in Addresses :
            <<j, a>> \notin touched =>
              (a \in banPanel'.jails[j] <=> a \in banned[j])]_banVars

\* A panel without data says why: no failure of the three sources is lost on
\* the way (CollectFail2ban keeps the first).
BanExplained ==
  ~banPanel.available => banPanel.error # "none"
=============================================================================
