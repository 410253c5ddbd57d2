---------------------------- MODULE OpenVPNPanel ----------------------------
(***************************************************************************)
(* The OpenVPN panel (collectOpenVPN, internal/collector/openvpn.go): the  *)
(* state of the container from docker, with sudo at the second try, and    *)
(* the clients from the status file, with sudo at the second try.          *)
(*                                                                         *)
(* OpenVPN, external, writes that file again from time to time, over the   *)
(* old report, a line with each write, and cuts off what is left of it at  *)
(* the end: a reader in between sees the beginning of the new report and   *)
(* then the rest of the old one, whose first line may be cut in the middle.*)
(***************************************************************************)
EXTENDS Integers, SequencesExt

CONSTANT Peers  \* common names

Address(c) == <<"address", c>>

\* A common name is told from an address.
ASSUME PeersAssumption ==
  IsFiniteSet(Peers) /\ \A c, d \in Peers : c # Address(d)

VARIABLES
  online,   \* OpenVPN: the clients connected
  done,     \* the status file: the lines of the new report
  rest,     \* the status file: what is left of the old one below them
  unsent,   \* OpenVPN: the lines yet to write
  told,     \* ghost: the clients connected when the new report was begun
  vpc,      \* collectOpenVPN
  path,     \* whether a status path is configured
  sub,      \* snapshot.SubState, "none" when empty; Active says whether it is "running"
  shown,    \* snapshot.Clients
  truth,    \* ghost: told, the clients with a new row, the names in the old
            \* rest and whether the file was whole, when it was read
  ready,    \* snapshot.Available
  problem   \* snapshot.Error

serverVars == <<online, done, rest, unsent, told>>
vpnPanel == <<vpc, path, sub, shown, truth, ready, problem>>
vpnVars == <<serverVars, vpnPanel>>

Title(s) == [title |-> TRUE, section |-> s, fields |-> <<>>]
Row(f) == [title |-> FALSE, section |-> "none", fields |-> f]
Text(t) == <<"text", t>>

\* The status file for these clients; the last row is one of the global figures.
Report(cs) ==
  <<Title("clients")>> \o SetToSeq({Row(<<c, Address(c)>>) : c \in cs})
  \o <<Title("routing")>> \o SetToSeq({Row(<<Address(c), c>>) : c \in cs})
  \o <<Title("none"), Row(<<Text("queue"), Text("0")>>), Title("none")>>

\* The tail of a row that was cut; as its names count pieces of names, addresses
\* and figures.
Fragment == Row(<<Text("torn"), Text("torn")>>)

\* What a line written over these lines leaves of them.
Eaten(lines) ==
  IF lines = <<>> THEN {<<>>}
  ELSE LET uncut == Suffixes(Tail(lines)) IN uncut \cup {<<Fragment>> \o s : s \in uncut}

file == done \o rest

-----------------------------------------------------------------------------
\* parseOpenVPNStatus: the section of a row is that of the last title above it.
Section(lines, i) ==
  LET titles == {j \in 1..(i - 1) : lines[j].title} IN
    IF titles = {} THEN "none" ELSE lines[Max(titles)].section

Parsed_OneSection(lines) ==
  {lines[i].fields[1] : i \in {j \in DOMAIN lines : ~lines[j].title /\ Section(lines, j) # "none"}}

Parsed(lines) ==
  LET Rows(s) == {i \in DOMAIN lines : ~lines[i].title /\ Section(lines, i) = s} IN
    {lines[i].fields[1] : i \in Rows("clients")}
      \cup {lines[i].fields[2] : i \in Rows("routing")}

\* The clients with a row of their own, and all that stands for a name in a row.
Rewritten(lines) == {c \in Peers : Row(<<c, Address(c)>>) \in ToSet(lines)}
NamesIn(lines) ==
  UNION {{lines[i].fields[1], lines[i].fields[2]} : i \in {j \in DOMAIN lines : ~lines[j].title}}

VPNInit ==
  /\ online = {} /\ done = <<>> /\ rest = <<>> /\ unsent = <<>> /\ told = {}
  /\ vpc = "start" /\ path = FALSE /\ sub = "none" /\ shown = {}
  /\ truth = [clients |-> {}, rows |-> {}, left |-> {}, whole |-> TRUE]
  /\ ready = FALSE /\ problem = "none"

\* A client connects or leaves.  What OpenVPN does is followed until the panel
\* returns.
Come(c) ==
  /\ vpc # "done"
  /\ online' = IF c \in online THEN online \ {c} ELSE online \cup {c}
  /\ UNCHANGED <<done, rest, unsent, told, vpnPanel>>

BeginReport ==
  /\ vpc # "done"
  /\ unsent = <<>> /\ rest = <<>>
  /\ rest' = done /\ done' = <<>> /\ unsent' = Report(online) /\ told' = online
  /\ UNCHANGED <<online, vpnPanel>>

WriteLine ==
  /\ vpc # "done"
  /\ unsent # <<>>
  /\ done' = Append(done, Head(unsent)) /\ unsent' = Tail(unsent)
  /\ rest' \in Eaten(rest)
  /\ UNCHANGED <<online, told, vpnPanel>>

Truncate ==
  /\ vpc # "done"
  /\ unsent = <<>> /\ rest # <<>>
  /\ rest' = <<>>
  /\ UNCHANGED <<online, done, unsent, told, vpnPanel>>

\* Both the container's name and the path may be left empty.
Configured ==
  /\ vpc = "start"
  /\ vpc' \in {"inspect", "status"} /\ path' \in BOOLEAN
  /\ UNCHANGED <<serverVars, sub, shown, truth, ready, problem>>

\* docker knows the container, whatever became of it.
Inspect ==
  /\ vpc \in {"inspect", "sudoInspect"} /\ vpc' = "status"
  /\ sub' \in {"running", "exited"}
  /\ UNCHANGED <<serverVars, path, shown, truth, ready, problem>>

\* docker fails: sudo docker is asked, and its error is the one reported.
InspectFails ==
  /\ vpc = "inspect" /\ vpc' = "sudoInspect"
  /\ UNCHANGED <<serverVars, path, sub, shown, truth, ready, problem>>

SudoFails ==
  /\ vpc = "sudoInspect" /\ vpc' = "status"
  /\ sub' = "unknown" /\ problem' = "docker"
  /\ UNCHANGED <<serverVars, path, shown, truth, ready>>

\* The first problem stays.
Noted(p) == IF problem = "none" THEN p ELSE problem

NoPath ==
  /\ vpc = "status" /\ ~path /\ vpc' = "done"
  /\ problem' = Noted("unconfigured")
  /\ UNCHANGED <<serverVars, path, sub, shown, truth, ready>>

ReadStatus ==
  /\ (vpc = "status" /\ path) \/ vpc = "sudoCat"
  /\ vpc' = "done" /\ ready' = TRUE
  /\ shown' = Parsed(file)
  /\ truth' = [clients |-> told, rows |-> Rewritten(done), left |-> NamesIn(rest),
               whole |-> unsent = <<>> /\ rest = <<>>]
  /\ UNCHANGED <<serverVars, path, sub, problem>>

ReadRefused ==
  /\ vpc = "status" /\ path /\ vpc' = "sudoCat"
  /\ UNCHANGED <<serverVars, path, sub, shown, truth, ready, problem>>

SudoRefused ==
  /\ vpc = "sudoCat" /\ vpc' = "done"
  /\ problem' = Noted("status")
  /\ UNCHANGED <<serverVars, path, sub, shown, truth, ready>>

VPNNext ==
  \/ \E c \in Peers : Come(c)
  \/ BeginReport \/ WriteLine \/ Truncate
  \/ Configured \/ Inspect \/ InspectFails \/ SudoFails
  \/ NoPath \/ ReadStatus \/ ReadRefused \/ SudoRefused
-----------------------------------------------------------------------------
VPNTypeOK ==
  /\ online \subseteq Peers /\ told \subseteq Peers
  /\ vpc \in {"start", "inspect", "sudoInspect", "status", "sudoCat", "done"}
  /\ path \in BOOLEAN /\ truth.clients \subseteq Peers /\ ready \in BOOLEAN
  /\ sub \in {"none", "unknown", "running", "exited"}
  /\ problem \in {"none", "docker", "unconfigured", "status"}

\* Read at any moment, the file yields every client of the new report whose row
\* is written, and beyond the clients of the new report only what stands in the
\* rest of the old one; when the report is whole, its clients exactly
\* (parseOpenVPNStatus).
ClientsOfFile ==
  (vpc = "done" /\ ready) =>
    /\ truth.rows \subseteq shown /\ shown \subseteq truth.clients \cup truth.left
    /\ truth.whole => shown = truth.clients

\* A panel without clients or without a container says why, although either half
\* of it has two tries and goes on when the other failed.
VPNExplained == (vpc = "done" /\ (~ready \/ sub = "unknown")) => problem # "none"
=============================================================================
