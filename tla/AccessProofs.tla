---------------------------- MODULE AccessProofs ----------------------------
(***************************************************************************)
(* Proofs about the panels of who comes in (OpenVPNPanel, BanLog,          *)
(* SshFailures and SshLogins), as they run in Probes; at the end, what     *)
(* concerns the panels of all kinds.                                       *)
(***************************************************************************)
EXTENDS Probes, StoresProofs, HostProofs, FiniteFacts

-----------------------------------------------------------------------------
\* A step of Probes is a step of the panel, or leaves its variables alone.
LEMMA AccessSteps ==
  ASSUME [Next]_vars
  PROVE  /\ [VPNNext]_vpnVars /\ [BanNext]_banVars
         /\ [SshNext]_sshVars /\ [LoginsNext]_loginVars
  BY DEF Next, StoresNext, HostNext, AccessNext, vars, accessVars

-----------------------------------------------------------------------------
(***************************************************************************)
(* OpenVPN.  An unknown container has left its problem by the time the     *)
(* status is asked for.                                                    *)
(***************************************************************************)
ProblemInv ==
  /\ vpc \in {"start", "inspect", "sudoInspect", "status", "sudoCat", "done"}
  /\ sub = "unknown" => problem # "none"
  /\ vpc = "done" => ready \/ problem # "none"

LEMMA ProblemStep ==
  ASSUME ProblemInv, [VPNNext]_vpnVars
  PROVE  ProblemInv'
<1> USE DEF ProblemInv, serverVars, vpnPanel
<1>1. CASE \E c \in Peers : Come(c)
  BY <1>1 DEF Come
<1>2. CASE BeginReport
  BY <1>2 DEF BeginReport
<1>3. CASE WriteLine \/ Truncate
  BY <1>3 DEF WriteLine, Truncate
<1>4. CASE Configured
  BY <1>4 DEF Configured
<1>5. CASE Inspect
  BY <1>5 DEF Inspect
<1>6. CASE InspectFails
  BY <1>6 DEF InspectFails
<1>7. CASE SudoFails
  BY <1>7 DEF SudoFails
<1>8. CASE NoPath
  BY <1>8 DEF NoPath, Noted
<1>9. CASE ReadStatus
  BY <1>9 DEF ReadStatus
<1>10. CASE ReadRefused
  BY <1>10 DEF ReadRefused
<1>11. CASE SudoRefused
  BY <1>11 DEF SudoRefused, Noted
<1>12. CASE UNCHANGED vpnVars
  BY <1>12 DEF vpnVars
<1> QED
  BY <1>1, <1>2, <1>3, <1>4, <1>5, <1>6, <1>7, <1>8, <1>9, <1>10, <1>11, <1>12 DEF VPNNext

LEMMA ProblemInvariance == Spec => []ProblemInv
<1>1. Init => ProblemInv
  BY DEF Init, VPNInit, ProblemInv
<1>2. ProblemInv /\ [Next]_vars => ProblemInv'
  BY ProblemStep, AccessSteps
<1> QED
  BY <1>1, <1>2, PTL DEF Spec

\* An OpenVPN panel without clients or without its container says why
\* (collectOpenVPN).
THEOREM VPNSaysWhy == Spec => []VPNExplained
<1>1. ProblemInv => VPNExplained
  BY DEF ProblemInv, VPNExplained
<1> QED
  BY <1>1, ProblemInvariance, PTL

\* The list of a finite set has its elements and no others.
LEMMA ListOfSet ==
  ASSUME NEW S, IsFiniteSet(S)
  PROVE  SetToSeq(S) \in Seq(S) /\ ToSet(SetToSeq(S)) = S
<1> DEFINE n == Cardinality(S)
<1>1. n \in Nat /\ ExistsBijection(1..n, S)
  BY FS_CardinalityType
<1>2. PICK f \in Bijection(1..n, S) : TRUE
  BY <1>1 DEF ExistsBijection
<1>3. f \in [1..n -> S] /\ IsInjective(f)
  BY <1>2 DEF Bijection, Injection
<1>4. SetToSeq(S) \in [1..n -> S] /\ IsInjective(SetToSeq(S))
  BY <1>3 DEF SetToSeq
<1>5. SetToSeq(S) \in SetToSeqs(S)
  BY <1>4 DEF SetToSeqs, IsInjective
<1> QED
  BY <1>5, ListOfAll

\* A whole report, by its parts: the clients, the routes, and the figures.
ClientRows(cs) == {Row(<<c, Address(c)>>) : c \in cs}
RouteRows(cs) == {Row(<<Address(c), c>>) : c \in cs}

Reports(r, cs, p, q) ==
  /\ Len(r) = p + q + 5
  /\ r[1] = Title("clients") /\ r[p + 2] = Title("routing")
  /\ r[p + q + 3] = Title("none") /\ r[p + q + 5] = Title("none")
  /\ r[p + q + 4] = Row(<<Text("queue"), Text("0")>>)
  /\ \A i \in 2..(p + 1) : r[i] \in ClientRows(cs)
  /\ \A i \in (p + 3)..(p + q + 2) : r[i] \in RouteRows(cs)
  /\ \A c \in cs : \E i \in 2..(p + 1) : r[i] = Row(<<c, Address(c)>>)

LEMMA ReportHasParts ==
  ASSUME NEW cs, IsFiniteSet(cs)
  PROVE  /\ \E S : Report(cs) \in Seq(S)
         /\ \E p, q \in Nat : Reports(Report(cs), cs, p, q)
<1> DEFINE a == SetToSeq(ClientRows(cs))
           b == SetToSeq(RouteRows(cs))
           p == Len(a)
           q == Len(b)
           S == {Title("clients"), Title("routing"), Title("none"), Row(<<Text("queue"), Text("0")>>)}
                  \cup ClientRows(cs) \cup RouteRows(cs)
           t == <<Title("none"), Row(<<Text("queue"), Text("0")>>), Title("none")>>
           x == <<Title("clients")>> \o a
           y == x \o <<Title("routing")>>
           z == y \o b
<1>1. Report(cs) = z \o t
  BY DEF Report, ClientRows, RouteRows
<1>2. IsFiniteSet(ClientRows(cs)) /\ IsFiniteSet(RouteRows(cs))
  <2>1. [c \in cs |-> Row(<<c, Address(c)>>)] \in Surjection(cs, ClientRows(cs))
    BY DEF Surjection, ClientRows
  <2>2. [c \in cs |-> Row(<<Address(c), c>>)] \in Surjection(cs, RouteRows(cs))
    BY DEF Surjection, RouteRows
  <2> QED
    BY <2>1, <2>2, FS_Surjection
<1>3. /\ a \in Seq(ClientRows(cs)) /\ ToSet(a) = ClientRows(cs)
      /\ b \in Seq(RouteRows(cs)) /\ ToSet(b) = RouteRows(cs)
  BY <1>2, ListOfSet
<1>4. /\ p \in Nat /\ DOMAIN a = 1..p /\ \A i \in 1..p : a[i] \in ClientRows(cs)
      /\ q \in Nat /\ \A i \in 1..q : b[i] \in RouteRows(cs)
  BY <1>3, LenProperties, ElementOfSeq
<1>5. /\ a \in Seq(S) /\ b \in Seq(S)
      /\ <<Title("clients")>> \in Seq(S) /\ <<Title("routing")>> \in Seq(S) /\ t \in Seq(S)
      /\ Len(t) = 3
  <2>1. ClientRows(cs) \subseteq S /\ RouteRows(cs) \subseteq S
    OBVIOUS
  <2>2. a \in Seq(S) /\ b \in Seq(S)
    BY <1>3, <2>1, SeqMonotonic
  <2> HIDE DEF a, b
  <2> QED
    BY <2>2
<1> HIDE DEF a, b, p, q, S
<1>6. /\ x \in Seq(S) /\ Len(x) = p + 1 /\ x[1] = Title("clients")
      /\ \A i \in 1..p : x[i + 1] = a[i]
  BY <1>4, <1>5, ConcatProperties DEF p
<1>7. /\ y \in Seq(S) /\ Len(y) = p + 2 /\ y[p + 2] = Title("routing")
      /\ \A i \in 1..(p + 1) : y[i] = x[i]
  <2> HIDE DEF x
  <2> QED
    BY <1>4, <1>5, <1>6, ConcatProperties
<1>8. /\ z \in Seq(S) /\ Len(z) = p + q + 2 /\ \A i \in 1..(p + 2) : z[i] = y[i]
      /\ \A i \in 1..q : z[p + 2 + i] = b[i]
  <2> HIDE DEF y
  <2>0. y \in Seq(S) /\ b \in Seq(S)
    BY <1>5, <1>7
  <2>1. /\ y \o b \in Seq(S)
        /\ Len(y) \in Nat /\ Len(b) \in Nat /\ Len(y \o b) = Len(y) + Len(b)
        /\ \A i \in 1..Len(y) : (y \o b)[i] = y[i]
        /\ \A i \in 1..Len(b) : (y \o b)[Len(y) + i] = b[i]
    BY <2>0, ConcatEntries
  <2> HIDE DEF z
  <2>2. /\ z \in Seq(S) /\ Len(z) = Len(y) + Len(b)
        /\ \A i \in 1..Len(y) : z[i] = y[i]
        /\ \A i \in 1..Len(b) : z[Len(y) + i] = b[i]
    BY <2>1 DEF z
  <2>3. Len(y) = p + 2 /\ Len(b) = q /\ p \in Nat /\ q \in Nat
    BY <1>4, <1>7 DEF q
  <2> QED
    BY <2>2, <2>3
<1> DEFINE r == z \o t
<1>9. /\ r \in Seq(S) /\ Len(r) = p + q + 5 /\ \A i \in 1..(p + q + 2) : r[i] = z[i]
      /\ r[p + q + 3] = t[1] /\ r[p + q + 4] = t[2] /\ r[p + q + 5] = t[3]
  <2> HIDE DEF z, t
  <2>0. z \in Seq(S) /\ t \in Seq(S)
    BY <1>5, <1>8
  <2>1. /\ z \o t \in Seq(S)
        /\ Len(z) \in Nat /\ Len(t) \in Nat /\ Len(z \o t) = Len(z) + Len(t)
        /\ \A i \in 1..Len(z) : (z \o t)[i] = z[i]
        /\ \A i \in 1..Len(t) : (z \o t)[Len(z) + i] = t[i]
    BY <2>0, ConcatEntries
  <2> HIDE DEF r
  <2>2. /\ r \in Seq(S) /\ Len(r) = Len(z) + Len(t)
        /\ \A i \in 1..Len(z) : r[i] = z[i]
        /\ \A i \in 1..Len(t) : r[Len(z) + i] = t[i]
    BY <2>1 DEF r
  <2>3. Len(z) = p + q + 2 /\ Len(t) = 3 /\ p \in Nat /\ q \in Nat
    BY <1>4, <1>5, <1>8
  <2> QED
    BY <2>2, <2>3
<1>10. t[1] = Title("none") /\ t[2] = Row(<<Text("queue"), Text("0")>>) /\ t[3] = Title("none")
  OBVIOUS
<1> HIDE DEF x, y, z, t, r
<1>11. r[1] = Title("clients") /\ r[p + 2] = Title("routing")
  <2>1. 1 \in 1..(p + 1) /\ 1 \in 1..(p + 2) /\ 1 \in 1..(p + q + 2)
        /\ p + 2 \in 1..(p + 2) /\ p + 2 \in 1..(p + q + 2)
    BY <1>4
  <2> QED
    BY <1>6, <1>7, <1>8, <1>9, <2>1
<1>12. \A i \in 1..p : r[i + 1] = a[i]
  <2> SUFFICES ASSUME NEW i \in 1..p PROVE r[i + 1] = a[i]
    OBVIOUS
  <2>1. i + 1 \in 1..(p + 1) /\ i + 1 \in 1..(p + 2) /\ i + 1 \in 1..(p + q + 2)
    BY <1>4
  <2> QED
    BY <1>6, <1>7, <1>8, <1>9, <2>1
<1>13. \A i \in 1..q : r[p + 2 + i] = b[i]
  <2> SUFFICES ASSUME NEW i \in 1..q PROVE r[p + 2 + i] = b[i]
    OBVIOUS
  <2>1. p + 2 + i \in 1..(p + q + 2)
    BY <1>4
  <2> QED
    BY <1>8, <1>9, <2>1
<1>14. \A i \in 2..(p + 1) : r[i] \in ClientRows(cs)
  <2> SUFFICES ASSUME NEW i \in 2..(p + 1) PROVE r[i] \in ClientRows(cs)
    OBVIOUS
  <2>1. i - 1 \in 1..p /\ (i - 1) + 1 = i
    BY <1>4
  <2> QED
    BY <1>4, <1>12, <2>1
<1>15. \A i \in (p + 3)..(p + q + 2) : r[i] \in RouteRows(cs)
  <2> SUFFICES ASSUME NEW i \in (p + 3)..(p + q + 2) PROVE r[i] \in RouteRows(cs)
    OBVIOUS
  <2>1. i - (p + 2) \in 1..q /\ p + 2 + (i - (p + 2)) = i
    BY <1>4
  <2> QED
    BY <1>4, <1>13, <2>1
<1>16. \A c \in cs : \E i \in 2..(p + 1) : r[i] = Row(<<c, Address(c)>>)
  <2> SUFFICES ASSUME NEW c \in cs PROVE \E i \in 2..(p + 1) : r[i] = Row(<<c, Address(c)>>)
    OBVIOUS
  <2>1. Row(<<c, Address(c)>>) \in ToSet(a)
    BY <1>3 DEF ClientRows
  <2>2. PICK k \in 1..p : a[k] = Row(<<c, Address(c)>>)
    BY <1>4, <2>1 DEF ToSet
  <2>3. k + 1 \in 2..(p + 1) /\ r[k + 1] = a[k]
    BY <1>4, <1>12
  <2> QED
    BY <2>2, <2>3
<1>17. Reports(r, cs, p, q)
  BY <1>9, <1>10, <1>11, <1>14, <1>15, <1>16 DEF Reports
<1>18. Report(cs) = r
  BY <1>1 DEF r
<1> QED
  BY <1>4, <1>9, <1>17, <1>18

\* Where the titles are.
LEMMA RowsBetween ==
  ASSUME NEW p \in Nat, NEW q \in Nat, NEW n \in Nat, n <= p + q + 5, NEW i \in 1..n,
         i \notin 2..(p + 1) \cup (p + 3)..(p + q + 2) \cup {p + q + 4}
  PROVE  i \in {1, p + 2, p + q + 3, p + q + 5}
<1>1. /\ i \notin 2..(p + 1) /\ i \notin (p + 3)..(p + q + 2) /\ i # p + q + 4
      /\ i \in Int /\ 1 <= i /\ i <= p + q + 5
  OBVIOUS
<1>2. i = 1 \/ i > p + 1
  BY <1>1
<1>3. i < p + 3 \/ i > p + q + 2
  BY <1>1
<1> QED
  BY <1>1, <1>2, <1>3

\* The lines l begin like r, up to the line n.
Alike(l, r, n) == \A i \in 1..n : l[i] = r[i]

\* The section of a row of any beginning of a report.
LEMMA SectionOf ==
  ASSUME NEW cs, NEW p \in Nat, NEW q \in Nat, NEW r, Reports(r, cs, p, q),
         NEW l, NEW n \in Nat, n <= p + q + 5, Alike(l, r, n),
         NEW i \in 1..n
  PROVE  /\ i \in 2..(p + 1) => ~l[i].title /\ Section(l, i) = "clients"
         /\ i \in (p + 3)..(p + q + 2) => ~l[i].title /\ Section(l, i) = "routing"
         /\ i = p + q + 4 => Section(l, i) = "none"
         /\ i \notin 2..(p + 1) \cup (p + 3)..(p + q + 2) \cup {p + q + 4} => l[i].title
<1> USE DEF Alike
<1> DEFINE titles == {j \in 1..(i - 1) : l[j].title}
<1>1. /\ \A j \in 2..(p + 1) : ~r[j].title
      /\ \A j \in (p + 3)..(p + q + 2) : ~r[j].title
      /\ ~r[p + q + 4].title
  BY DEF Reports, ClientRows, RouteRows, Row
<1>2. /\ r[1].title /\ r[1].section = "clients"
      /\ r[p + 2].title /\ r[p + 2].section = "routing"
      /\ r[p + q + 3].title /\ r[p + q + 3].section = "none"
      /\ r[p + q + 5].title
  BY DEF Reports, Title
<1>3. \A j \in 1..(i - 1) : j \in 1..n
  OBVIOUS
<1>4. titles \subseteq Nat /\ IsFiniteSet(titles)
  <2>1. IsFiniteSet(1..(i - 1))
    BY FS_Interval
  <2> QED
    BY <2>1, FS_Subset
<1>5. ASSUME NEW k \in 1..(i - 1), r[k].title,
             \A j \in 1..(i - 1) : j > k => ~r[j].title
      PROVE  Section(l, i) = r[k].section
  <2>1. k \in titles /\ \A j \in titles : ~(j > k) /\ j \in 1..(i - 1)
    BY <1>3, <1>5
  <2>2. Max(titles) \in titles /\ \A j \in titles : j <= Max(titles)
    BY <1>4, <2>1, MaxIsGreatest
  <2>3. Max(titles) = k
    BY <2>1, <2>2
  <2>4. titles # {} /\ l[k] = r[k]
    BY <1>3, <2>1
  <2> QED
    BY <2>3, <2>4 DEF Section
<1> HIDE DEF titles
<1>6. ASSUME i \in 2..(p + 1)
      PROVE  ~l[i].title /\ Section(l, i) = "clients"
  <2>1. 1 \in 1..(i - 1) /\ \A j \in 1..(i - 1) : j > 1 => j \in 2..(p + 1)
    BY <1>6
  <2> QED
    BY <1>1, <1>2, <1>5, <1>6, <2>1
<1>7. ASSUME i \in (p + 3)..(p + q + 2)
      PROVE  ~l[i].title /\ Section(l, i) = "routing"
  <2>1. /\ p + 2 \in 1..(i - 1)
        /\ \A j \in 1..(i - 1) : j > p + 2 => j \in (p + 3)..(p + q + 2)
    BY <1>7
  <2> QED
    BY <1>1, <1>2, <1>5, <1>7, <2>1
<1>8. ASSUME i = p + q + 4
      PROVE  Section(l, i) = "none"
  <2>1. p + q + 3 \in 1..(i - 1) /\ \A j \in 1..(i - 1) : ~(j > p + q + 3)
    BY <1>8
  <2> QED
    BY <1>2, <1>5, <2>1
<1>9. ASSUME i \notin 2..(p + 1) \cup (p + 3)..(p + q + 2) \cup {p + q + 4}
      PROVE  l[i].title
  <2>1. i \in {1, p + 2, p + q + 3, p + q + 5}
    BY <1>9, RowsBetween
  <2> QED
    BY <1>2, <2>1
<1> QED
  BY <1>6, <1>7, <1>8, <1>9

\* The names in the lines m + 1 to n are in the set `left`.
NamesFrom(l, m, n, left) ==
  \A i \in (m + 1)..n :
    ~l[i].title => l[i].fields[1] \in left /\ l[i].fields[2] \in left

\* What is parsed of lines that begin like a report: of the report only clients it
\* is about, and every client whose row is among these lines.
LEMMA ParsedOfReport ==
  ASSUME NEW cs \in SUBSET Peers, NEW p \in Nat, NEW q \in Nat, NEW r, Reports(r, cs, p, q),
         NEW l, NEW n \in Nat, DOMAIN l = 1..n,
         NEW m \in Nat, m <= n, m <= p + q + 5, Alike(l, r, m),
         NEW left, NamesFrom(l, m, n, left)
  PROVE  /\ Parsed(l) \subseteq cs \cup left
         /\ \A c \in Peers :
              (\E i \in 1..m : l[i] = Row(<<c, Address(c)>>)) => c \in Parsed(l)
         /\ m = p + q + 5 => cs \subseteq Parsed(l)
<1> DEFINE Rows(s) == {i \in DOMAIN l : ~l[i].title /\ Section(l, i) = s}
<1>0. Parsed(l) = {l[i].fields[1] : i \in Rows("clients")}
                    \cup {l[i].fields[2] : i \in Rows("routing")}
  BY DEF Parsed
<1>a. \A i \in 1..n : i \in 1..m \/ i \in (m + 1)..n
  OBVIOUS
<1>b. \A i \in 1..m : i \in 1..n
  OBVIOUS
<1>c. \A i \in (m + 1)..n :
        ~l[i].title => l[i].fields[1] \in left /\ l[i].fields[2] \in left
  BY DEF NamesFrom
<1>s. ASSUME NEW i \in 1..m
      PROVE  /\ i \in 2..(p + 1) => ~l[i].title /\ Section(l, i) = "clients"
             /\ i \in (p + 3)..(p + q + 2) => ~l[i].title /\ Section(l, i) = "routing"
             /\ i = p + q + 4 => Section(l, i) = "none"
             /\ i \notin 2..(p + 1) \cup (p + 3)..(p + q + 2) \cup {p + q + 4} => l[i].title
  BY SectionOf
<1> USE DEF Alike
<1>1. ASSUME NEW i \in Rows("clients") PROVE l[i].fields[1] \in cs \cup left
  <2>1. i \in 1..n /\ ~l[i].title /\ Section(l, i) = "clients"
    OBVIOUS
  <2>2. CASE i \in 1..m
    <3>1. i \in 2..(p + 1)
      BY <1>s, <2>1, <2>2
    <3>2. PICK c \in cs : r[i] = Row(<<c, Address(c)>>)
      BY <3>1 DEF Reports, ClientRows
    <3> QED
      BY <2>2, <3>2 DEF Row
  <2> QED
    BY <1>a, <1>c, <2>1, <2>2
<1>2. ASSUME NEW i \in Rows("routing") PROVE l[i].fields[2] \in cs \cup left
  <2>1. i \in 1..n /\ ~l[i].title /\ Section(l, i) = "routing"
    OBVIOUS
  <2>2. CASE i \in 1..m
    <3>1. i \in (p + 3)..(p + q + 2)
      BY <1>s, <2>1, <2>2
    <3>2. PICK c \in cs : r[i] = Row(<<Address(c), c>>)
      BY <3>1 DEF Reports, RouteRows
    <3> QED
      BY <2>2, <3>2 DEF Row
  <2> QED
    BY <1>a, <1>c, <2>1, <2>2
<1>3. ASSUME NEW c, NEW i \in 1..m, i \in 2..(p + 1), r[i] = Row(<<c, Address(c)>>)
      PROVE  c \in Parsed(l)
  <2>1. ~l[i].title /\ Section(l, i) = "clients"
    BY <1>s, <1>3
  <2>2. i \in Rows("clients")
    BY <1>b, <2>1
  <2>3. l[i].fields[1] = c
    BY <1>3 DEF Row
  <2> HIDE DEF Rows
  <2> QED
    BY <1>0, <2>2, <2>3
<1>4. ASSUME NEW c \in Peers, NEW i \in 1..m, l[i] = Row(<<c, Address(c)>>)
      PROVE  c \in Parsed(l)
  <2>1. r[i] = Row(<<c, Address(c)>>) /\ ~l[i].title
    BY <1>4 DEF Row
  <2>2. i \notin (p + 3)..(p + q + 2)
    <3> SUFFICES ASSUME i \in (p + 3)..(p + q + 2) PROVE FALSE
      OBVIOUS
    <3>1. PICK d \in cs : r[i] = Row(<<Address(d), d>>)
      BY DEF Reports, RouteRows
    <3>2. c = Address(d)
      BY <2>1, <3>1 DEF Row
    <3> QED
      BY <3>2, PeersAssumption
  <2>3. i # p + q + 4
    <3> SUFFICES ASSUME i = p + q + 4 PROVE FALSE
      OBVIOUS
    <3>1. r[i] = Row(<<Text("queue"), Text("0")>>)
      BY DEF Reports
    <3>2. Text("0") = Address(c)
      BY <2>1, <3>1 DEF Row
    <3> QED
      BY <3>2 DEF Text, Address
  <2>4. i \in 2..(p + 1)
    BY <1>s, <2>1, <2>2, <2>3
  <2> QED
    BY <1>3, <2>1, <2>4
<1>5. ASSUME m = p + q + 5, NEW c \in cs PROVE c \in Parsed(l)
  <2>1. PICK i \in 2..(p + 1) : r[i] = Row(<<c, Address(c)>>)
    BY DEF Reports
  <2>2. i \in 1..m
    BY <1>5
  <2> QED
    BY <1>3, <2>1, <2>2
<1> HIDE DEF Rows
<1> QED
  BY <1>0, <1>1, <1>2, <1>4, <1>5

\* OpenVPN has written a beginning of its report and has the rest in hand, or has
\* not begun.
ReportOf(written, left, cs) ==
  /\ \E S : written \in Seq(S) /\ left \in Seq(S)
  /\ \/ Len(written) = 0 /\ Len(left) = 0 /\ cs = {}
     \/ \E p, q \in Nat : \E r :
          /\ Reports(r, cs, p, q)
          /\ Len(written) + Len(left) = p + q + 5
          /\ \A i \in 1..Len(written) : written[i] = r[i]
          /\ \A i \in 1..Len(left) : left[i] = r[Len(written) + i]

\* What a line leaves of the lines below it are lines.
LEMMA EatenIsSeq ==
  ASSUME NEW S, NEW s \in Seq(S), NEW e \in Eaten(s)
  PROVE  e \in Seq(S \cup {Fragment})
<1> DEFINE T == S \cup {Fragment}
<1>1. <<>> \in Seq(T) /\ <<Fragment>> \in Seq(T)
  BY EmptySeq
<1>2. CASE s = <<>>
  BY <1>1, <1>2 DEF Eaten
<1>3. CASE s # <<>>
  <2>1. Tail(s) \in Seq(T)
    <3>1. s \in Seq(T)
      BY SeqMonotonic
    <3> QED
      BY <1>3, <3>1, HeadAndTail
  <2>2. ASSUME NEW u \in Suffixes(Tail(s)) PROVE u \in Seq(T)
    <3> DEFINE t == Tail(s)
    <3>0. t \in Seq(T) /\ Len(t) \in Nat
      BY <2>1, LenProperties
    <3>1. u = <<>> \/ \E k \in 1..Len(t) : u = SubSeq(t, k, Len(t))
      BY <2>2 DEF Suffixes
    <3> HIDE DEF t
    <3>2. ASSUME NEW k \in 1..Len(t) PROVE SubSeq(t, k, Len(t)) \in Seq(T)
      <4>1. \A i \in k..Len(t) : t[i] \in T
        BY <3>0, ElementOfSeq
      <4> QED
        BY <3>0, <3>2, <4>1, SubSeqProperties
    <3> QED
      BY <1>1, <3>1, <3>2
  <2>3. e \in Suffixes(Tail(s)) \/ \E u \in Suffixes(Tail(s)) : e = <<Fragment>> \o u
    BY <1>3 DEF Eaten
  <2>4. \A u \in Seq(T) : <<Fragment>> \o u \in Seq(T)
    BY <1>1, ConcatProperties
  <2> QED
    BY <2>2, <2>3, <2>4
<1> QED
  BY <1>2, <1>3

FileInv ==
  /\ online \subseteq Peers /\ told \subseteq Peers
  /\ ReportOf(done, unsent, told)
  /\ \E S : rest \in Seq(S)

ReadInv ==
  /\ ClientsOfFile
  /\ vpc # "done" => ~ready

LEMMA FileStep ==
  ASSUME FileInv, [VPNNext]_vpnVars
  PROVE  FileInv'
<1>a. CASE UNCHANGED <<done, unsent, told>> /\ online' \subseteq Peers /\ \E S : rest' \in Seq(S)
  <2>1. told' \subseteq Peers /\ ReportOf(done', unsent', told')
    BY <1>a DEF FileInv
  <2> QED
    BY <1>a, <2>1 DEF FileInv
<1>1. CASE BeginReport
  <2>1. /\ done' = <<>> /\ unsent' = Report(online) /\ told' = online /\ online' = online
        /\ rest' = done
    BY <1>1 DEF BeginReport
  <2>9. \E s : rest' \in Seq(s)
    BY <2>1 DEF FileInv, ReportOf
  <2>2. IsFiniteSet(online)
    BY PeersAssumption, FS_Subset DEF FileInv
  <2>3. PICK S : Report(online) \in Seq(S)
    BY <2>2, ReportHasParts
  <2>4. PICK p \in Nat, q \in Nat : Reports(Report(online), online, p, q)
    BY <2>2, ReportHasParts
  <2>5. Len(done') = 0 /\ done' \in Seq(S) /\ unsent' \in Seq(S)
    BY <2>1, <2>3, EmptySeq
  <2>6. Len(unsent') = p + q + 5
    BY <2>1, <2>4 DEF Reports
  <2>7. /\ Reports(unsent', told', p, q)
        /\ Len(done') + Len(unsent') = p + q + 5
        /\ \A i \in 1..Len(done') : done'[i] = unsent'[i]
        /\ \A i \in 1..Len(unsent') : unsent'[i] = unsent'[Len(done') + i]
    BY <2>1, <2>4, <2>5, <2>6
  <2>8. ReportOf(done', unsent', told')
    BY <2>5, <2>7 DEF ReportOf
  <2> QED
    BY <2>1, <2>8, <2>9 DEF FileInv
<1>2. CASE WriteLine
  <2>1. /\ unsent # <<>> /\ done' = Append(done, Head(unsent)) /\ unsent' = Tail(unsent)
        /\ rest' \in Eaten(rest)
        /\ UNCHANGED <<online, told>>
    BY <1>2 DEF WriteLine
  <2>2. PICK S : done \in Seq(S) /\ unsent \in Seq(S)
    BY DEF FileInv, ReportOf
  <2>3. /\ Head(unsent) \in S /\ unsent' \in Seq(S) /\ Len(unsent) \in Nat \ {0}
        /\ Len(unsent') = Len(unsent) - 1 /\ Head(unsent) = unsent[1]
        /\ \A i \in 1..(Len(unsent) - 1) : unsent'[i] = unsent[i + 1]
    BY <2>1, <2>2, HeadAndTail
  <2>4. /\ done' \in Seq(S) /\ Len(done) \in Nat /\ Len(done') = Len(done) + 1
        /\ done'[Len(done) + 1] = unsent[1]
        /\ \A i \in 1..Len(done) : done'[i] = done[i]
    BY <2>1, <2>2, <2>3, AppendProperties, LenProperties
  <2>5. PICK p \in Nat, q \in Nat : \E r :
          /\ Reports(r, told, p, q)
          /\ Len(done) + Len(unsent) = p + q + 5
          /\ \A i \in 1..Len(done) : done[i] = r[i]
          /\ \A i \in 1..Len(unsent) : unsent[i] = r[Len(done) + i]
    BY <2>3 DEF FileInv, ReportOf
  <2>6. PICK r :
          /\ Reports(r, told, p, q)
          /\ Len(done) + Len(unsent) = p + q + 5
          /\ \A i \in 1..Len(done) : done[i] = r[i]
          /\ \A i \in 1..Len(unsent) : unsent[i] = r[Len(done) + i]
    BY <2>5
  <2>7. \A i \in 1..Len(done') : done'[i] = r[i]
    <3>1. \A i \in 1..Len(done') : i \in 1..Len(done) \/ i = Len(done) + 1
      BY <2>4
    <3>2. 1 \in 1..Len(unsent)
      BY <2>3
    <3> QED
      BY <2>4, <2>6, <3>1, <3>2
  <2>8. \A i \in 1..Len(unsent') : unsent'[i] = r[Len(done') + i]
    <3> SUFFICES ASSUME NEW i \in 1..Len(unsent') PROVE unsent'[i] = r[Len(done') + i]
      OBVIOUS
    <3>1. i + 1 \in 1..Len(unsent) /\ Len(done) + (i + 1) = Len(done') + i
      BY <2>3, <2>4
    <3> QED
      BY <2>3, <2>6, <3>1
  <2>9. Len(done') + Len(unsent') = p + q + 5
    <3>1. Len(done) + Len(unsent) = p + q + 5
      BY <2>6
    <3>2. /\ Len(done) \in Nat /\ Len(unsent) \in Nat
          /\ Len(done') = Len(done) + 1 /\ Len(unsent') = Len(unsent) - 1
      BY <2>3, <2>4
    <3> QED
      BY <3>1, <3>2
  <2>10. Reports(r, told', p, q)
    BY <2>1, <2>6
  <2>11. \E a, b \in Nat : \E s :
          /\ Reports(s, told', a, b)
          /\ Len(done') + Len(unsent') = a + b + 5
          /\ \A i \in 1..Len(done') : done'[i] = s[i]
          /\ \A i \in 1..Len(unsent') : unsent'[i] = s[Len(done') + i]
    <3> WITNESS p \in Nat, q \in Nat
    <3> WITNESS r
    <3> QED
      BY <2>7, <2>8, <2>9, <2>10
  <2>12. \E s : done' \in Seq(s) /\ unsent' \in Seq(s)
    BY <2>3, <2>4, Zenon
  <2>13. online' \subseteq Peers /\ told' \subseteq Peers
    BY <2>1 DEF FileInv
  <2>14. \E s : rest' \in Seq(s)
    <3>1. PICK s : rest \in Seq(s)
      BY DEF FileInv
    <3> QED
      BY <2>1, <3>1, EatenIsSeq
  <2>15. ReportOf(done', unsent', told')
    BY <2>11, <2>12, Zenon DEF ReportOf
  <2> QED
    BY <2>13, <2>14, <2>15 DEF FileInv
<1>3. CASE \E c \in Peers : Come(c)
  <2>1. UNCHANGED <<done, rest, unsent, told>> /\ online' \subseteq Peers
    BY <1>3 DEF Come, FileInv
  <2> QED
    BY <1>a, <2>1 DEF FileInv
<1>4. CASE Truncate
  <2>1. UNCHANGED <<done, unsent, told, online>> /\ rest' \in Seq({})
    BY <1>4, EmptySeq DEF Truncate
  <2> QED
    BY <1>a, <2>1 DEF FileInv
<1>5. CASE UNCHANGED serverVars
  <2>1. UNCHANGED <<done, rest, unsent, told, online>>
    BY <1>5 DEF serverVars
  <2> QED
    BY <1>a, <2>1 DEF FileInv
<1>6. \/ BeginReport \/ WriteLine \/ Truncate \/ (\E c \in Peers : Come(c))
      \/ UNCHANGED serverVars
  BY DEF VPNNext, vpnVars, Configured, Inspect, InspectFails, SudoFails, NoPath, ReadStatus,
    ReadRefused, SudoRefused
<1> QED
  BY <1>1, <1>2, <1>3, <1>4, <1>5, <1>6

\* What is parsed of the file, at any moment.
LEMMA ReadLines ==
  ASSUME FileInv
  PROVE  /\ Rewritten(done) \subseteq Parsed(file)
         /\ Parsed(file) \subseteq told \cup NamesIn(rest)
         /\ unsent = <<>> /\ rest = <<>> => Parsed(file) = told
<1> DEFINE m == Len(done)
           n == Len(done) + Len(rest)
<1>1. PICK S : done \in Seq(S) /\ unsent \in Seq(S)
  BY DEF FileInv, ReportOf
<1>2. PICK T : rest \in Seq(T)
  BY DEF FileInv
<1>3. done \in Seq(S \cup T) /\ rest \in Seq(S \cup T)
  BY <1>1, <1>2, SeqMonotonic
<1>4. /\ file \in Seq(S \cup T) /\ Len(done) \in Nat /\ Len(rest) \in Nat
      /\ Len(file) = Len(done) + Len(rest)
      /\ \A i \in 1..Len(done) : file[i] = done[i]
      /\ \A i \in 1..Len(rest) : file[Len(done) + i] = rest[i]
  BY <1>3, ConcatEntries DEF file
<1>5. DOMAIN file = 1..n /\ m \in Nat /\ n \in Nat /\ m <= n /\ DOMAIN rest = 1..Len(rest)
      /\ DOMAIN done = 1..m
  BY <1>1, <1>2, <1>4, LenProperties
<1>6. ASSUME NEW i \in (m + 1)..n, ~file[i].title
      PROVE  file[i].fields[1] \in NamesIn(rest) /\ file[i].fields[2] \in NamesIn(rest)
  <2>1. i - m \in 1..Len(rest) /\ m + (i - m) = i
    BY <1>4
  <2>2. file[i] = rest[i - m]
    BY <1>4, <2>1
  <2>3. i - m \in {j \in DOMAIN rest : ~rest[j].title}
    BY <1>5, <1>6, <2>1, <2>2
  <2> QED
    BY <2>2, <2>3 DEF NamesIn
<1>7. Rewritten(done) = {c \in Peers : \E i \in 1..m : file[i] = Row(<<c, Address(c)>>)}
  <2>1. ToSet(done) = {file[i] : i \in 1..m}
    BY <1>4, <1>5 DEF ToSet
  <2> QED
    BY <2>1 DEF Rewritten
<1>8. rest = <<>> => NamesIn(rest) = {}
  <2>1. rest = <<>> => DOMAIN rest = {}
    OBVIOUS
  <2> QED
    BY <2>1 DEF NamesIn
<1> HIDE DEF n, m
<1>9. CASE m = 0 /\ Len(unsent) = 0 /\ told = {}
  <2>1. Rewritten(done) = {}
    BY <1>7, <1>9
  <2>2. Parsed(file) \subseteq NamesIn(rest)
    <3>1. \A i \in DOMAIN file : i \in (m + 1)..n
      BY <1>5, <1>9
    <3> QED
      BY <1>6, <3>1 DEF Parsed
  <2> QED
    BY <1>8, <1>9, <2>1, <2>2
<1>10. CASE \E p, q \in Nat : \E r :
             /\ Reports(r, told, p, q)
             /\ Len(done) + Len(unsent) = p + q + 5
             /\ \A i \in 1..Len(done) : done[i] = r[i]
             /\ \A i \in 1..Len(unsent) : unsent[i] = r[Len(done) + i]
  <2> SUFFICES ASSUME NEW p \in Nat, NEW q \in Nat, NEW r,
                      Reports(r, told, p, q),
                      Len(done) + Len(unsent) = p + q + 5,
                      \A i \in 1..Len(done) : done[i] = r[i]
               PROVE  /\ Rewritten(done) \subseteq Parsed(file)
                      /\ Parsed(file) \subseteq told \cup NamesIn(rest)
                      /\ unsent = <<>> /\ rest = <<>> => Parsed(file) = told
    BY <1>10
  <2>1. m <= p + q + 5 /\ (unsent = <<>> => m = p + q + 5)
    <3>1. Len(unsent) \in Nat /\ (unsent = <<>> => Len(unsent) = 0)
      BY <1>1, LenProperties, EmptySeq
    <3> QED
      BY <1>4, <3>1 DEF m
  <2>2. Alike(file, r, m)
    BY <1>4 DEF m, Alike
  <2>3. told \in SUBSET Peers
    BY DEF FileInv
  <2>4. NamesFrom(file, m, n, NamesIn(rest))
    BY <1>6 DEF NamesFrom
  <2>5. /\ Parsed(file) \subseteq told \cup NamesIn(rest)
        /\ \A c \in Peers :
             (\E i \in 1..m : file[i] = Row(<<c, Address(c)>>)) => c \in Parsed(file)
        /\ m = p + q + 5 => told \subseteq Parsed(file)
    <3>1. Reports(r, told, p, q)
      OBVIOUS
    <3>2. DOMAIN file = 1..n /\ m \in Nat /\ n \in Nat /\ m <= n /\ m <= p + q + 5
      BY <1>5, <2>1
    <3> QED
      BY ONLY <2>2, <2>3, <2>4, <3>1, <3>2, p \in Nat, q \in Nat, ParsedOfReport
  <2> QED
    BY <1>7, <1>8, <2>1, <2>5
<1> QED
  BY <1>9, <1>10 DEF FileInv, ReportOf, m

LEMMA ReadFile ==
  ASSUME FileInv, ReadInv, [VPNNext]_vpnVars
  PROVE  ReadInv'
<1>1. CASE ReadStatus
  <2>1. /\ vpc' = "done" /\ shown' = Parsed(file)
        /\ truth' = [clients |-> told, rows |-> Rewritten(done), left |-> NamesIn(rest),
                     whole |-> unsent = <<>> /\ rest = <<>>]
    BY <1>1 DEF ReadStatus
  <2>2. /\ Rewritten(done) \subseteq Parsed(file)
        /\ Parsed(file) \subseteq told \cup NamesIn(rest)
        /\ unsent = <<>> /\ rest = <<>> => Parsed(file) = told
    BY ReadLines
  <2> QED
    BY <2>1, <2>2 DEF ReadInv, ClientsOfFile
<1>2. CASE UNCHANGED vpnPanel
  BY <1>2 DEF vpnPanel, ReadInv, ClientsOfFile
<1>3. CASE Configured \/ Inspect \/ InspectFails \/ SudoFails \/ NoPath \/ ReadRefused \/ SudoRefused
  <2>1. UNCHANGED <<shown, truth, ready>> /\ vpc # "done"
    BY <1>3 DEF Configured, Inspect, InspectFails, SudoFails, NoPath, ReadRefused, SudoRefused
  <2> QED
    BY <2>1 DEF ReadInv, ClientsOfFile
<1>4. \/ ReadStatus \/ UNCHANGED vpnPanel \/ Configured \/ Inspect \/ InspectFails
      \/ SudoFails \/ NoPath \/ ReadRefused \/ SudoRefused
  BY DEF VPNNext, vpnVars, Come, BeginReport, Truncate, WriteLine
<1> QED
  BY <1>1, <1>2, <1>3, <1>4

LEMMA FileInvariance == Spec => [](FileInv /\ ReadInv)
<1>1. Init => FileInv /\ ReadInv
  <2> SUFFICES ASSUME VPNInit PROVE FileInv /\ ReadInv
    BY DEF Init
  <2>1. /\ done \in Seq({}) /\ unsent \in Seq({}) /\ rest \in Seq({})
        /\ Len(done) = 0 /\ Len(unsent) = 0
    BY EmptySeq DEF VPNInit
  <2>2. FileInv
    BY <2>1 DEF VPNInit, FileInv, ReportOf
  <2>3. ReadInv
    BY DEF VPNInit, ReadInv, ClientsOfFile
  <2> QED
    BY <2>2, <2>3
<1>2. FileInv /\ ReadInv /\ [Next]_vars => FileInv' /\ ReadInv'
  BY FileStep, ReadFile, AccessSteps
<1> QED
  BY <1>1, <1>2, PTL DEF Spec

\* Whenever the file is read, the panel lists every client whose row OpenVPN has
\* written, and beyond the clients of the new report only what stands in the
\* rest of the old one; read whole, the file yields its clients exactly
\* (parseOpenVPNStatus).
THEOREM ClientsAreThoseOfFile == Spec => []ClientsOfFile
<1>1. ReadInv => ClientsOfFile
  BY DEF ReadInv
<1> QED
  BY <1>1, FileInvariance, PTL

-----------------------------------------------------------------------------
(***************************************************************************)
(* fail2ban.  The last word of the log on an address is the truth about it,*)
(* as long as the log has one: what rotation and the limit cut off is only *)
(* older.                                                                  *)
(***************************************************************************)
BanLines == [jail : Jails, ip : Addresses, action : {"Ban", "Unban"}]

About(i, j, a) == banLog[i].jail = j /\ banLog[i].ip = a

LastInv ==
  /\ banned \in [Jails -> SUBSET Addresses] /\ banLog \in Seq(BanLines)
  /\ \A j \in Jails, a \in Addresses : \A i \in 1..Len(banLog) :
       (/\ About(i, j, a) /\ banLog[i].action = "Ban"
        /\ \A k \in 1..Len(banLog) : k > i => ~About(k, j, a)) =>
         a \in banned[j]

\* A line of the log that records the change it goes with.
LEMMA LogLineStep ==
  ASSUME LastInv, NEW j \in Jails, NEW a \in Addresses, NEW w \in {"Ban", "Unban"},
         LogLine(j, a, w),
         banned' = [banned EXCEPT ![j] = IF w = "Ban" THEN @ \cup {a} ELSE @ \ {a}]
  PROVE  LastInv'
<1> DEFINE n == Len(banLog)
           e == [jail |-> j, ip |-> a, action |-> w]
<1>1. e \in BanLines /\ banLog \in Seq(BanLines) /\ banLog' = Append(banLog, e)
  BY DEF BanLines, LogLine, LastInv
<1>2. /\ n \in Nat /\ banLog' \in Seq(BanLines) /\ Len(banLog') = n + 1
      /\ banLog'[n + 1] = e /\ \A i \in 1..n : banLog'[i] = banLog[i]
  BY <1>1, AppendProperties, LenProperties
<1>3. e.jail = j /\ e.ip = a /\ e.action = w
  OBVIOUS
<1>4. banned' \in [Jails -> SUBSET Addresses]
  BY DEF LastInv
<1> HIDE DEF n, e
<1>5. ASSUME NEW k \in Jails, NEW b \in Addresses, NEW i \in 1..(n + 1),
             About(i, k, b)', banLog'[i].action = "Ban",
             \A l \in 1..(n + 1) : l > i => ~About(l, k, b)'
      PROVE  b \in banned'[k]
  <2>1. CASE i = n + 1
    <3>1. k = j /\ b = a /\ w = "Ban"
      BY <1>2, <1>3, <1>5, <2>1 DEF About
    <3> QED
      BY <3>1 DEF LastInv
  <2>2. CASE i # n + 1
    <3>1. i \in 1..n /\ n + 1 \in 1..(n + 1) /\ n + 1 > i
      BY <1>2, <2>2
    <3>2. ~(k = j /\ b = a)
      BY <1>2, <1>3, <1>5, <3>1 DEF About
    <3>3. About(i, k, b) /\ banLog[i].action = "Ban"
      BY <1>2, <1>5, <3>1 DEF About
    <3>4. \A l \in 1..n : l > i => ~About(l, k, b)
      <4>1. \A l \in 1..n : l \in 1..(n + 1)
        BY <1>2
      <4> QED
        BY <1>2, <1>5, <4>1 DEF About
    <3>5. b \in banned[k]
      BY <3>1, <3>3, <3>4 DEF LastInv, n
    <3> QED
      BY <3>2, <3>5 DEF LastInv
  <2> QED
    BY <2>1, <2>2
<1> QED
  BY <1>2, <1>4, <1>5 DEF LastInv

LEMMA LastStep ==
  ASSUME LastInv, [BanNext]_banVars
  PROVE  LastInv'
<1>1. ASSUME NEW j \in Jails, NEW a \in Addresses, Ban(j, a) PROVE LastInv'
  <2>1. banned' = [banned EXCEPT ![j] = IF "Ban" = "Ban" THEN @ \cup {a} ELSE @ \ {a}]
    BY <1>1 DEF Ban
  <2> QED
    BY <1>1, <2>1, LogLineStep DEF Ban
<1>2. ASSUME NEW j \in Jails, NEW a \in Addresses, Unban(j, a) PROVE LastInv'
  <2>1. banned' = [banned EXCEPT ![j] = IF "Unban" = "Ban" THEN @ \cup {a} ELSE @ \ {a}]
    BY <1>2 DEF Unban
  <2> QED
    BY <1>2, <2>1, LogLineStep DEF Unban
<1>3. CASE RotateBanLog
  <2>1. banLog' = <<>> /\ banned' = banned /\ Len(banLog') = 0 /\ banLog' \in Seq(BanLines)
    BY <1>3, EmptySeq DEF RotateBanLog
  <2> QED
    BY <2>1 DEF LastInv
<1>4. CASE AskSystemd \/ ListJails \/ AskJail \/ FromClient \/ ClientFails \/ FromLog \/ LogFails
  <2>1. UNCHANGED <<banned, banLog>>
    BY <1>4 DEF AskSystemd, ListJails, AskJail, FromClient, ClientFails, FromLog, LogFails
  <2> QED
    BY <2>1 DEF LastInv, About
<1>5. CASE UNCHANGED banVars
  BY <1>5 DEF banVars, LastInv, About
<1> QED
  BY <1>1, <1>2, <1>3, <1>4, <1>5 DEF BanNext

\* The last word of the tail is the last word of the log.
LEMMA TailTellsLast ==
  ASSUME LastInv, NEW j \in Jails, NEW a \in Addresses,
         LastWord(LogTail(banLog), j, a) = "Ban"
  PROVE  a \in banned[j]
<1> DEFINE n == Len(banLog)
           m == Max({0, n - BanTail})
           t == LogTail(banLog)
           about == {i \in 1..Len(t) : t[i].jail = j /\ t[i].ip = a}
<1>1. n \in Nat /\ banLog \in Seq(BanLines)
  BY LenProperties DEF LastInv
<1>2. m \in Nat /\ m <= n
  BY <1>1, BanAssumption, MaxOfTwo
<1>3. /\ Len(t) = n - m
      /\ \A i \in 1..(n - m) : t[i] = banLog[m + i]
  <2> HIDE DEF m
  <2>1. t = SubSeq(banLog, m + 1, n)
    BY DEF LogTail, m
  <2>2. m + 1 \in Int /\ n \in Int /\ (m + 1 <= n => m + 1 \in 1..(n + 1) /\ n \in m..n)
    BY <1>1, <1>2
  <2> QED
    BY <1>1, <1>2, <2>1, <2>2
<1> HIDE DEF n, m, t
<1>4. about # {} /\ t[Max(about)].action = "Ban"
  BY DEF LastWord, t
<1>5. about \subseteq Nat /\ IsFiniteSet(about)
  <2>1. IsFiniteSet(1..(n - m))
    BY <1>1, <1>2, FS_Interval
  <2> QED
    BY <1>1, <1>2, <1>3, <2>1, FS_Subset
<1>6. Max(about) \in about /\ \A i \in about : i <= Max(about)
  BY <1>4, <1>5, MaxIsGreatest
<1> DEFINE x == Max(about)
<1>7. x \in 1..(n - m) /\ t[x].jail = j /\ t[x].ip = a /\ t[x].action = "Ban"
  BY <1>3, <1>4, <1>6
<1>8. \A i \in 1..(n - m) : i > x => ~(t[i].jail = j /\ t[i].ip = a)
  <2>1. \A i \in 1..(n - m) : i \in Int
    BY <1>1, <1>2
  <2> QED
    BY <1>3, <1>6, <1>7, <2>1
<1> HIDE DEF about, x
<1>9. m + x \in 1..n /\ About(m + x, j, a) /\ banLog[m + x].action = "Ban"
  BY <1>1, <1>2, <1>3, <1>7 DEF About
<1>10. ASSUME NEW k \in 1..n, k > m + x PROVE ~About(k, j, a)
  <2>1. k - m \in 1..(n - m) /\ k - m > x /\ m + (k - m) = k
    BY <1>1, <1>2, <1>7, <1>10
  <2> QED
    BY <1>3, <1>8, <2>1 DEF About
<1> QED
  BY <1>9, <1>10 DEF LastInv, n

LEMMA LastInvariance == Spec => []LastInv
<1>1. Init => LastInv
  <2> SUFFICES ASSUME Init PROVE LastInv
    OBVIOUS
  <2>1. banned = [j \in Jails |-> {}] /\ banLog = <<>>
    BY DEF Init, BanInit
  <2> QED
    BY <2>1, EmptySeq DEF LastInv
<1>2. LastInv /\ [Next]_vars => LastInv'
  BY LastStep, AccessSteps
<1> QED
  BY <1>1, <1>2, PTL DEF Spec

\* A panel built from the log lists only addresses that are banned, wherever tail
\* cut the file and even after a rotation (parseFail2banLogCurrentlyBanned).
THEOREM LogTellsBanned == Spec => []LogListsOnlyBanned
<1>1. LastInv => LogListsOnlyBanned
  <2> SUFFICES ASSUME LastInv,
                      NEW j \in DOMAIN Replayed(LogTail(banLog)),
                      NEW a \in Replayed(LogTail(banLog))[j]
               PROVE  a \in banned[j]
    BY DEF LogListsOnlyBanned
  <2>1. j \in Jails /\ a \in Addresses /\ LastWord(LogTail(banLog), j, a) = "Ban"
    BY DEF Replayed
  <2> QED
    BY <2>1, TailTellsLast
<1> QED
  BY <1>1, LastInvariance, PTL

-----------------------------------------------------------------------------
(***************************************************************************)
(* The client is asked for each jail at a time of its own: an answer holds *)
(* for the addresses left alone since the probe began, and a jail is       *)
(* either answered for or still to ask.                                    *)
(***************************************************************************)
Truthful(found) ==
  \A j \in DOMAIN found, a \in Addresses :
    <<j, a>> \notin touched => (a \in found[j] <=> a \in banned[j])

AskedInv ==
  /\ banned \in [Jails -> SUBSET Addresses] /\ toAsk \in Seq(Jails)
  /\ fpc \in {"idle", "list", "client", "log"}
  /\ fpc = "list" => DOMAIN jails = {}
  /\ fpc = "client" => DOMAIN jails \cup ToSet(toAsk) = Jails /\ Truthful(jails)

\* A ban or unban is touched.
LEMMA TouchStep ==
  ASSUME AskedInv, NEW j \in Jails, NEW a \in Addresses, Ban(j, a) \/ Unban(j, a)
  PROVE  AskedInv'
<1>1. UNCHANGED <<fpc, toAsk, jails>> /\ touched' = touched \cup {<<j, a>>}
  BY DEF Ban, Unban, LogLine, banProbeVars
<1>2. /\ banned' \in [Jails -> SUBSET Addresses]
      /\ \A k \in Jails, b \in Addresses :
           ~(k = j /\ b = a) => (b \in banned'[k] <=> b \in banned[k])
  <2>1. CASE Ban(j, a)
    BY <2>1 DEF Ban, AskedInv
  <2>2. CASE Unban(j, a)
    BY <2>2 DEF Unban, AskedInv
  <2> QED
    BY <2>1, <2>2
<1>3. fpc = "client" => DOMAIN jails \subseteq Jails
  BY DEF AskedInv
<1>4. fpc = "client" => Truthful(jails)'
  <2> SUFFICES ASSUME fpc = "client", NEW k \in DOMAIN jails, NEW b \in Addresses,
                      <<k, b>> \notin touched'
               PROVE  b \in jails[k] <=> b \in banned'[k]
    BY <1>1 DEF Truthful
  <2>1. <<k, b>> \notin touched /\ ~(k = j /\ b = a) /\ k \in Jails
    BY <1>1, <1>3
  <2> QED
    BY <1>2, <2>1 DEF AskedInv, Truthful
<1> QED
  BY <1>1, <1>2, <1>4 DEF AskedInv

LEMMA AskedStep ==
  ASSUME AskedInv, [BanNext]_banVars
  PROVE  AskedInv'
<1> USE DEF AskedInv
<1>1. CASE \E j \in Jails, a \in Addresses : Ban(j, a) \/ Unban(j, a)
  BY <1>1, TouchStep
<1>2. CASE RotateBanLog
  BY <1>2 DEF RotateBanLog, banProbeVars, Truthful
<1>3. CASE AskSystemd
  <2>1. fpc' = "list" /\ DOMAIN jails' = {} /\ toAsk' = <<>> /\ banned' = banned
    BY <1>3 DEF AskSystemd, NoJails
  <2> QED
    BY <2>1, EmptySeq
<1>4. CASE ListJails
  <2>1. fpc = "list" /\ fpc' = "client" /\ toAsk' \in SetToSeqs(Jails)
        /\ UNCHANGED <<banned, jails, touched>>
    BY <1>4 DEF ListJails
  <2>2. toAsk' \in Seq(Jails) /\ ToSet(toAsk') = Jails
    BY <2>1, ListOfAll, BanAssumption
  <2> QED
    BY <2>1, <2>2 DEF Truthful
<1>5. CASE AskJail
  <2>1. /\ fpc = "client" /\ toAsk # <<>> /\ toAsk' = Tail(toAsk)
        /\ UNCHANGED <<banned, fpc, touched>>
    BY <1>5 DEF AskJail
  <2>2. /\ toAsk' \in Seq(Jails) /\ Head(toAsk) \in Jails
        /\ ToSet(toAsk) = ToSet(toAsk') \cup {Head(toAsk)}
    BY <2>1, HeadAndTail
  <2>3. /\ DOMAIN jails' = DOMAIN jails \cup {Head(toAsk)}
        /\ \A j \in DOMAIN jails' :
             jails'[j] = IF j = Head(toAsk) THEN banned[j] ELSE jails[j]
    BY <1>5 DEF AskJail
  <2>4. DOMAIN jails' \cup ToSet(toAsk') = Jails
    BY <2>1, <2>2, <2>3
  <2> QED
    BY <2>1, <2>2, <2>3, <2>4 DEF Truthful
<1>6. CASE FromClient \/ FromLog \/ LogFails
  BY <1>6 DEF FromClient, FromLog, LogFails, Publish
<1>7. CASE ClientFails
  BY <1>7 DEF ClientFails
<1>8. CASE UNCHANGED banVars
  BY <1>8 DEF banVars, Truthful
<1> QED
  BY <1>1, <1>2, <1>3, <1>4, <1>5, <1>6, <1>7, <1>8 DEF BanNext

LEMMA AskedInvariance == Spec => []AskedInv
<1>1. Init => AskedInv
  <2> SUFFICES ASSUME Init PROVE AskedInv
    OBVIOUS
  <2>1. banned = [j \in Jails |-> {}] /\ toAsk = <<>> /\ fpc = "idle"
    BY DEF Init, BanInit
  <2> QED
    BY <2>1, EmptySeq DEF AskedInv
<1>2. AskedInv /\ [Next]_vars => AskedInv'
  BY AskedStep, AccessSteps
<1> QED
  BY <1>1, <1>2, PTL DEF Spec

\* A panel built from the client has every jail, and is right about every address
\* that was left alone during the probe (collectFail2banFromClient).
THEOREM ClientTellsTruth == Spec => ClientTruthful
<1> DEFINE Published ==
      (fpc = "client" /\ fpc' = "idle") =>
        /\ DOMAIN banPanel'.jails = Jails
        /\ \A j \in Jails, a \in Addresses :
             <<j, a>> \notin touched => (a \in banPanel'.jails[j] <=> a \in banned[j])
<1>1. AskedInv /\ [Next]_vars => [Published]_banVars
  <2> SUFFICES ASSUME AskedInv, [Next]_vars, fpc = "client", fpc' = "idle" PROVE Published
    OBVIOUS
  <2>1. BanNext
    BY AccessSteps DEF banVars
  <2>2. FromClient
    <3>1. ASSUME NEW j \in Jails, NEW a \in Addresses, Ban(j, a) \/ Unban(j, a)
          PROVE  fpc' = fpc
      BY <3>1 DEF Ban, Unban, LogLine, banProbeVars
    <3> QED
      BY <2>1, <3>1 DEF BanNext, RotateBanLog, AskSystemd, ListJails, AskJail, ClientFails,
        FromLog, LogFails, banProbeVars
  <2>3. banPanel'.jails = jails /\ toAsk = <<>>
    BY <2>2 DEF FromClient, Publish
  <2>4. DOMAIN jails = Jails
    <3>1. ToSet(toAsk) = {}
      BY <2>3 DEF ToSet
    <3> QED
      BY <3>1 DEF AskedInv
  <2> QED
    BY <2>3, <2>4 DEF AskedInv, Truthful
<1> QED
  BY <1>1, AskedInvariance, PTL DEF Spec, ClientTruthful

-----------------------------------------------------------------------------
\* A fail2ban panel without data says why, whichever of its three sources failed
\* (CollectFail2ban).
THEOREM BanSaysWhy == Spec => []BanExplained
<1>1. Init => BanExplained
  BY DEF Init, BanInit, BanExplained, NoPanel
<1>2. BanExplained /\ [BanNext]_banVars => BanExplained'
  <2> SUFFICES ASSUME BanExplained, [BanNext]_banVars PROVE BanExplained'
    OBVIOUS
  <2>1. CASE \E j \in Jails, a \in Addresses : Ban(j, a) \/ Unban(j, a)
    BY <2>1 DEF Ban, Unban, LogLine, banProbeVars, BanExplained
  <2>2. CASE FromClient \/ FromLog \/ LogFails
    <3>1. ASSUME NEW from, NEW found, NEW error, Publish(from, found, error)
          PROVE  (from # "none" => banPanel'.available) /\ banPanel'.error = error
      BY <3>1 DEF Publish
    <3>2. CASE FromClient
      <4>1. Publish("client", jails, "none")
        BY <3>2 DEF FromClient
      <4> QED
        BY <3>1, <4>1 DEF BanExplained
    <3>3. CASE FromLog
      <4>1. \E error : Publish("log", Replayed(LogTail(banLog)), error)
        BY <3>3 DEF FromLog
      <4> QED
        BY <3>1, <4>1 DEF BanExplained
    <3>4. CASE LogFails
      <4>1. Publish("none", NoJails, FirstError(banError, "log"))
        BY <3>4 DEF LogFails
      <4>2. FirstError(banError, "log") # "none"
        BY DEF FirstError
      <4> QED
        BY <3>1, <4>1, <4>2 DEF BanExplained
    <3> QED
      BY <2>2, <3>2, <3>3, <3>4
  <2>3. CASE RotateBanLog \/ AskSystemd \/ ListJails \/ AskJail \/ ClientFails
    BY <2>3 DEF RotateBanLog, AskSystemd, ListJails, AskJail, ClientFails, banProbeVars,
      BanExplained
  <2>4. CASE UNCHANGED banVars
    BY <2>4 DEF banVars, BanExplained
  <2> QED
    BY <2>1, <2>2, <2>3, <2>4 DEF BanNext
<1>3. [Next]_vars => [BanNext]_banVars
  BY AccessSteps
<1> QED
  BY <1>1, <1>2, <1>3, PTL DEF Spec

-----------------------------------------------------------------------------
(***************************************************************************)
(* The failures of SSH.  The loop takes them newest first, so an event     *)
(* that replaces a near entry is older than every entry: another entry     *)
(* near to the event would have been near to the one it replaces.          *)
(***************************************************************************)
AuthRecords == [ts : Nat, origin : Origins, kind : Kinds \cup {"other"}]

SshShape ==
  /\ now \in Nat /\ authLog \in Seq(AuthRecords) /\ spc \in {"idle", "merging"}
  /\ toMerge \in Seq(Events) /\ failures \in Seq(Events)
  /\ seen \subseteq Events
  /\ spc = "idle" => toMerge = <<>>

NewestFirst ==
  /\ \A i, j \in 1..Len(toMerge) : i < j => toMerge[i].ts >= toMerge[j].ts
  /\ \A i \in 1..Len(failures), j \in 1..Len(toMerge) :
       spc = "merging" => failures[i].ts >= toMerge[j].ts

StandIns == \* what stands for the failures the loop has passed
  spc = "merging" =>
    \A e \in seen \ ToSet(toMerge) : \E i \in 1..Len(failures) : Represents(failures[i], e)

SshInv == SshShape /\ NewestFirst /\ Separated /\ StandIns /\ Represented

\* A failure of the log is an event, whatever year it is given.
LEMMA FailuresAreEvents ==
  ASSUME now \in Nat, NEW lines \in Seq(AuthRecords)
  PROVE  \E D : IsFiniteSet(D) /\ Failures(lines) \in [D -> Events]
<1> DEFINE D == {j \in DOMAIN lines : lines[j].kind \in Kinds}
<1>1. Year * (now \div Year) \in Int
  BY SshAssumption
<1>2. ASSUME NEW j \in D PROVE Dated(lines[j]) \in Events
  <2>1. lines[j] \in AuthRecords /\ lines[j].kind \in Kinds
    BY LenProperties, ElementOfSeq
  <2>2. lines[j].ts \in Nat /\ lines[j].origin \in Origins
    BY <2>1 DEF AuthRecords
  <2>3. lines[j].ts % Year \in Int
    BY <2>2, SshAssumption
  <2> QED
    BY <1>1, <2>1, <2>2, <2>3 DEF Dated, Events, WithCurrentYear
<1>3. IsFiniteSet(D)
  <2>1. DOMAIN lines = 1..Len(lines) /\ Len(lines) \in Nat
    BY LenProperties
  <2>2. IsFiniteSet(1..Len(lines))
    BY <2>1, FS_Interval
  <2> QED
    BY <2>1, <2>2, FS_Subset
<1>4. Failures(lines) \in [D -> Events]
  BY <1>2 DEF Failures
<1> QED
  BY <1>3, <1>4

\* What sorting keeps: the events, each as often as before, newest first.
LEMMA SortedKeeps ==
  ASSUME NEW S, NEW D, IsFiniteSet(D), NEW f \in [D -> S], NEW t \in Sorted(f)
  PROVE  /\ t \in Seq(S) /\ ToSet(t) = ToSet(f)
         /\ \A i, j \in 1..Len(t) : i < j => t[i].ts >= t[j].ts
         /\ \A i, j \in 1..Len(t) : i # j => \E k, l \in D : k # l /\ t[i] = f[k] /\ t[j] = f[l]
<1> DEFINE n == Cardinality(D)
<1>1. n \in Nat /\ DOMAIN f = D
  BY FS_CardinalityType
<1>2. PICK p \in Bijection(1..n, D) :
        /\ t = [i \in 1..n |-> f[p[i]]]
        /\ \A i, j \in 1..n : i < j => f[p[i]].ts >= f[p[j]].ts
  BY <1>1 DEF Sorted
<1> HIDE DEF n
<1>3. /\ p \in [1..n -> D] /\ \A i, j \in 1..n : p[i] = p[j] => i = j
      /\ \A k \in D : \E i \in 1..n : p[i] = k
  BY DEF Bijection, Injection, IsInjective, Surjection
<1>4. t \in [1..n -> S] /\ DOMAIN t = 1..n /\ \A i \in 1..n : t[i] = f[p[i]]
  BY <1>1, <1>2, <1>3
<1>5. t \in Seq(S)
  BY <1>1, <1>4, SeqDef
<1>6. Len(t) = n
  BY <1>1, <1>4, <1>5, LenProperties
<1>7. ToSet(t) = ToSet(f)
  <2>1. \A x \in ToSet(t) : x \in ToSet(f)
    BY <1>1, <1>3, <1>4 DEF ToSet
  <2>2. \A x \in ToSet(f) : x \in ToSet(t)
    BY <1>1, <1>3, <1>4 DEF ToSet
  <2> QED
    BY <2>1, <2>2
<1>8. \A i, j \in 1..n : i # j => \E k, l \in D : k # l /\ t[i] = f[k] /\ t[j] = f[l]
  BY <1>3, <1>4
<1>9. \A i, j \in 1..n : i < j => t[i].ts >= t[j].ts
  BY <1>2, <1>4
<1> QED
  BY <1>5, <1>6, <1>7, <1>8, <1>9

\* The next event, and what is left after it.
LEMMA NextEvent ==
  ASSUME SshInv, spc = "merging", toMerge # <<>>
  PROVE  /\ Head(toMerge) \in Events /\ Tail(toMerge) \in Seq(Events)
         /\ ToSet(toMerge) = ToSet(Tail(toMerge)) \cup {Head(toMerge)}
         /\ \A i, j \in 1..Len(Tail(toMerge)) :
              i < j => Tail(toMerge)[i].ts >= Tail(toMerge)[j].ts
         /\ \A j \in 1..Len(Tail(toMerge)) : Head(toMerge).ts >= Tail(toMerge)[j].ts
         /\ \A i \in 1..Len(failures) : failures[i].ts >= Head(toMerge).ts
         /\ \A i \in 1..Len(failures), j \in 1..Len(Tail(toMerge)) :
              failures[i].ts >= Tail(toMerge)[j].ts
<1> DEFINE n == Len(toMerge)
           t == Tail(toMerge)
<1>1. /\ Head(toMerge) \in Events /\ t \in Seq(Events)
      /\ ToSet(toMerge) = ToSet(t) \cup {Head(toMerge)}
      /\ n \in Nat \ {0} /\ Len(t) = n - 1 /\ Head(toMerge) = toMerge[1]
      /\ \A i \in 1..(n - 1) : t[i] = toMerge[i + 1]
  BY HeadAndTail DEF SshInv, SshShape
<1>2. /\ \A i, j \in 1..n : i < j => toMerge[i].ts >= toMerge[j].ts
      /\ \A i \in 1..Len(failures), j \in 1..n : failures[i].ts >= toMerge[j].ts
  BY DEF SshInv, NewestFirst
<1> HIDE DEF n, t
<1>3. 1 \in 1..n /\ \A i \in 1..(n - 1) : i + 1 \in 1..n /\ 1 < i + 1
  BY <1>1
<1>4. \A i, j \in 1..(n - 1) : i < j => i + 1 < j + 1
  BY <1>1
<1>5. \A i, j \in 1..(n - 1) : i < j => t[i].ts >= t[j].ts
  BY <1>1, <1>2, <1>3, <1>4
<1>6. \A j \in 1..(n - 1) : Head(toMerge).ts >= t[j].ts
  BY <1>1, <1>2, <1>3
<1>7. /\ \A i \in 1..Len(failures) : failures[i].ts >= Head(toMerge).ts
      /\ \A i \in 1..Len(failures), j \in 1..(n - 1) : failures[i].ts >= t[j].ts
  BY <1>1, <1>2, <1>3
<1> QED
  BY <1>1, <1>5, <1>6, <1>7 DEF t

\* What an entry near the next event says of other entries and other failures.
LEMMA NearFacts ==
  ASSUME NEW r \in Events, NEW e \in Events, r.ts >= e.ts, Near(r, e)
  PROVE  /\ \A q \in Events : q.ts >= e.ts /\ Near(q, e) => Near(q, r) /\ Near(r, q)
         /\ \A x \in Events :
              Represents(r, x) /\ Rank(e.kind) >= Rank(r.kind) => Represents(e, x)
         /\ Rank(e.kind) < Rank(r.kind) => Represents(r, e)
<1>1. \A k : Rank(k) \in {1, 2}
  BY DEF Rank
<1>2. r.ts \in Int /\ e.ts \in Int /\ Window \in Nat
  BY SshAssumption DEF Events
<1>3. r.origin = e.origin /\ r.ts - e.ts <= Window /\ e.ts - r.ts <= Window
  BY DEF Near
<1>4. ASSUME NEW q \in Events, q.ts >= e.ts, Near(q, e) PROVE Near(q, r) /\ Near(r, q)
  <2>1. q.ts \in Int
    BY DEF Events
  <2> QED
    BY <1>2, <1>3, <1>4, <2>1 DEF Near
<1>5. ASSUME NEW x \in Events, Represents(r, x), Rank(e.kind) >= Rank(r.kind)
      PROVE  Represents(e, x)
  <2>1. x.ts \in Int
    BY DEF Events
  <2>2. Rank(e.kind) >= Rank(x.kind)
    BY <1>1, <1>5 DEF Represents
  <2> QED
    BY <1>2, <1>3, <1>5, <2>1, <2>2 DEF Represents
<1>6. Rank(e.kind) < Rank(r.kind) => Represents(r, e)
  BY <1>1, <1>2, <1>3 DEF Represents
<1> QED
  BY <1>4, <1>5, <1>6

\* An event stands for itself, and an event near no entry is none of them near.
LEMMA SelfFacts ==
  ASSUME NEW e \in Events
  PROVE  Represents(e, e) /\ \A q : Near(q, e) <=> Near(e, q)
<1>1. e.ts \in Int /\ Window \in Nat /\ Rank(e.kind) \in {1, 2}
  BY SshAssumption DEF Events, Rank
<1>2. Represents(e, e)
  BY <1>1 DEF Represents
<1>3. \A q : Near(q, e) <=> Near(e, q)
  BY DEF Near
<1> QED
  BY <1>2, <1>3

LEMMA MergeStep ==
  ASSUME SshInv, MergeFailure
  PROVE  SshInv'
<1> DEFINE e == Head(toMerge)
           n == Len(failures)
           near == {i \in 1..n : Near(failures[i], e)}
           k == Min(near)
<1>1. /\ spc = "merging" /\ toMerge # <<>> /\ near # {} /\ toMerge' = Tail(toMerge)
      /\ UNCHANGED <<now, authLog, spc, seen>>
      /\ failures' = IF Replaces(e, failures[k]) THEN [failures EXCEPT ![k] = e] ELSE failures
  BY DEF MergeFailure, NextTurn
<1>2. /\ e \in Events /\ toMerge' \in Seq(Events)
      /\ ToSet(toMerge) = ToSet(toMerge') \cup {e}
      /\ \A i, j \in 1..Len(toMerge') : i < j => toMerge'[i].ts >= toMerge'[j].ts
      /\ \A j \in 1..Len(toMerge') : e.ts >= toMerge'[j].ts
      /\ \A i \in 1..n : failures[i].ts >= e.ts
      /\ \A i \in 1..n, j \in 1..Len(toMerge') : failures[i].ts >= toMerge'[j].ts
  BY <1>1, NextEvent
<1>3. k \in 1..n /\ Near(failures[k], e)
  <2>1. near \subseteq Nat
    OBVIOUS
  <2>2. k \in near
    BY <1>1, <2>1, MinIsLeast
  <2> QED
    BY <2>2
<1>4. /\ failures \in Seq(Events) /\ \A i \in 1..n : failures[i] \in Events
      /\ seen \subseteq Events
      /\ now \in Nat /\ authLog \in Seq(AuthRecords)
      /\ \A i, j \in 1..n : i # j => ~Near(failures[i], failures[j])
      /\ \A x \in seen \ ToSet(toMerge) : \E i \in 1..n : Represents(failures[i], x)
  BY <1>1, ElementOfSeq DEF SshInv, SshShape, Separated, StandIns
<1> HIDE DEF e, n, near, k
<1>5. CASE Replaces(e, failures[k])
  <2>1. failures' = [failures EXCEPT ![k] = e]
    BY <1>1, <1>5
  <2>2. /\ failures' \in Seq(Events) /\ Len(failures') = n
        /\ \A i \in 1..n : failures'[i] = IF i = k THEN e ELSE failures[i]
    BY <1>2, <1>3, <1>4, <2>1, ExceptSeq DEF n
  <2>3. \A i \in 1..n : i # k => ~Near(failures[i], e) /\ ~Near(e, failures[i])
    <3> SUFFICES ASSUME NEW i \in 1..n, i # k, Near(failures[i], e) PROVE FALSE
      BY <1>2, SelfFacts
    <3> QED
      BY <1>2, <1>3, <1>4, NearFacts
  <2>4. \A i, j \in 1..n : i # j => ~Near(failures'[i], failures'[j])
    BY <1>4, <2>2, <2>3
  <2>5. ASSUME NEW x \in seen, x \notin ToSet(toMerge')
        PROVE  \E i \in 1..n : Represents(failures'[i], x)
    <3>1. CASE x = e
      BY <1>2, <1>3, <2>2, <3>1, SelfFacts
    <3>2. CASE x # e
      <4>1. PICK i \in 1..n : Represents(failures[i], x)
        BY <1>2, <1>4, <2>5, <3>2
      <4>2. CASE i # k
        BY <2>2, <4>1, <4>2
      <4>3. CASE i = k
        <5>1. Rank(e.kind) >= Rank(failures[k].kind)
          BY <1>5 DEF Replaces
        <5>2. x \in Events
          BY <1>4
        <5>3. Represents(e, x)
          BY <1>2, <1>3, <1>4, <4>1, <4>3, <5>1, <5>2, NearFacts
        <5> QED
          BY <1>3, <2>2, <5>3
      <4> QED
        BY <4>2, <4>3
    <3> QED
      BY <3>1, <3>2
  <2>6. \A i \in 1..n, j \in 1..Len(toMerge') : failures'[i].ts >= toMerge'[j].ts
    BY <1>2, <2>2
  <2> QED
    BY <1>1, <1>2, <1>4, <2>2, <2>4, <2>5, <2>6
    DEF SshInv, SshShape, NewestFirst, Separated, StandIns, Represented
<1>6. CASE ~Replaces(e, failures[k])
  <2>1. failures' = failures
    BY <1>1, <1>6
  <2>2. Represents(failures[k], e)
    <3>1. Rank(e.kind) < Rank(failures[k].kind)
      BY <1>6 DEF Replaces, Rank
    <3> QED
      BY <1>2, <1>3, <1>4, <3>1, NearFacts
  <2>3. \A x \in seen \ ToSet(toMerge') : \E i \in 1..n : Represents(failures[i], x)
    BY <1>2, <1>3, <1>4, <2>2
  <2> QED
    BY <1>1, <1>2, <1>4, <2>1, <2>3
    DEF SshInv, SshShape, NewestFirst, Separated, StandIns, Represented, n
<1> QED
  BY <1>5, <1>6

LEMMA KeepStep ==
  ASSUME SshInv, KeepFailure
  PROVE  SshInv'
<1> DEFINE e == Head(toMerge)
           n == Len(failures)
<1>1. /\ spc = "merging" /\ toMerge # <<>> /\ toMerge' = Tail(toMerge)
      /\ UNCHANGED <<now, authLog, spc, seen>>
      /\ failures' = Append(failures, e)
      /\ \A i \in 1..n : ~Near(failures[i], e)
  BY DEF KeepFailure, NextTurn
<1>2. /\ e \in Events /\ toMerge' \in Seq(Events)
      /\ ToSet(toMerge) = ToSet(toMerge') \cup {e}
      /\ \A i, j \in 1..Len(toMerge') : i < j => toMerge'[i].ts >= toMerge'[j].ts
      /\ \A j \in 1..Len(toMerge') : e.ts >= toMerge'[j].ts
      /\ \A i \in 1..n, j \in 1..Len(toMerge') : failures[i].ts >= toMerge'[j].ts
  BY <1>1, NextEvent
<1>3. /\ failures \in Seq(Events) /\ n \in Nat /\ seen \subseteq Events
      /\ now \in Nat /\ authLog \in Seq(AuthRecords)
      /\ \A i, j \in 1..n : i # j => ~Near(failures[i], failures[j])
      /\ \A x \in seen \ ToSet(toMerge) : \E i \in 1..n : Represents(failures[i], x)
  BY <1>1, LenProperties DEF SshInv, SshShape, Separated, StandIns
<1> HIDE DEF e, n
<1>4. /\ failures' \in Seq(Events) /\ Len(failures') = n + 1 /\ failures'[n + 1] = e
      /\ \A i \in 1..n : failures'[i] = failures[i]
  BY <1>1, <1>2, <1>3, AppendProperties DEF n
<1>5. /\ \A i \in 1..(n + 1) : i \in 1..n \/ i = n + 1
      /\ n + 1 \in 1..(n + 1) /\ \A i \in 1..n : i \in 1..(n + 1)
  BY <1>3
<1>6. \A i, j \in 1..(n + 1) : i # j => ~Near(failures'[i], failures'[j])
  <2> SUFFICES ASSUME NEW i \in 1..(n + 1), NEW j \in 1..(n + 1), i # j
               PROVE  ~Near(failures'[i], failures'[j])
    OBVIOUS
  <2>1. CASE i \in 1..n /\ j \in 1..n
    BY <1>3, <1>4, <2>1
  <2>2. CASE i \in 1..n /\ j = n + 1
    <3>1. failures'[i] = failures[i] /\ failures'[j] = e
      BY <1>4, <2>2
    <3> QED
      BY <1>1, <2>2, <3>1
  <2>3. CASE i = n + 1 /\ j \in 1..n
    <3>1. failures'[j] = failures[j] /\ failures'[i] = e
      BY <1>4, <2>3
    <3>2. ~Near(failures[j], e)
      BY <1>1, <2>3
    <3>3. Near(failures[j], e) <=> Near(e, failures[j])
      BY <1>2, SelfFacts
    <3> QED
      BY <3>1, <3>2, <3>3
  <2> QED
    BY <1>5, <2>1, <2>2, <2>3
<1>7. \A x \in seen \ ToSet(toMerge') : \E i \in 1..(n + 1) : Represents(failures'[i], x)
  BY <1>2, <1>3, <1>4, <1>5, SelfFacts
<1>8. \A i \in 1..(n + 1), j \in 1..Len(toMerge') : failures'[i].ts >= toMerge'[j].ts
  BY <1>2, <1>4, <1>5
<1> QED
  BY <1>1, <1>2, <1>3, <1>4, <1>6, <1>7, <1>8
  DEF SshInv, SshShape, NewestFirst, Separated, StandIns, Represented

\* After the loop only the limit takes entries away, and sorting none.
LEMMA FinishStep ==
  ASSUME SshInv, FinishFailures
  PROVE  SshInv'
<1> DEFINE n == Len(failures)
<1>1. /\ spc = "merging" /\ spc' = "idle" /\ toMerge = <<>> /\ toMerge' = <<>>
      /\ UNCHANGED <<now, authLog, seen>>
  BY DEF FinishFailures
<1>2. PICK s \in Sorted(failures) : failures' = SubSeq(s, 1, Min({Len(s), FailureLimit}))
  BY DEF FinishFailures
<1>3. /\ failures \in [1..n -> Events] /\ DOMAIN failures = 1..n /\ n \in Nat
      /\ now \in Nat /\ authLog \in Seq(AuthRecords) /\ seen \subseteq Events
      /\ \A i, j \in 1..n : i # j => ~Near(failures[i], failures[j])
  BY LenProperties DEF SshInv, SshShape, Separated
<1>4. \A x \in seen : \E i \in 1..n : Represents(failures[i], x)
  <2>1. ToSet(toMerge) = {}
    BY <1>1 DEF ToSet
  <2> QED
    BY <1>1, <2>1 DEF SshInv, StandIns
<1> HIDE DEF n
<1>5. /\ s \in Seq(Events) /\ ToSet(s) = ToSet(failures)
      /\ \A i, j \in 1..Len(s) : i # j =>
           \E k, l \in 1..n : k # l /\ s[i] = failures[k] /\ s[j] = failures[l]
  <2> DEFINE D == 1..n
  <2>1. IsFiniteSet(D) /\ failures \in [D -> Events]
    BY <1>3, FS_Interval
  <2> HIDE DEF D
  <2>2. /\ s \in Seq(Events) /\ ToSet(s) = ToSet(failures)
        /\ \A i, j \in 1..Len(s) : i < j => s[i].ts >= s[j].ts
        /\ \A i, j \in 1..Len(s) : i # j =>
             \E k, l \in D : k # l /\ s[i] = failures[k] /\ s[j] = failures[l]
    BY ONLY <1>2, <2>1, SortedKeeps
  <2> QED
    BY <2>2 DEF D
<1> DEFINE m == Min({Len(s), FailureLimit})
<1>6. /\ Len(s) \in Nat /\ m \in Nat /\ m <= Len(s)
      /\ m = Len(s) \/ m = FailureLimit
  <2>1. Len(s) \in Nat /\ FailureLimit \in Nat
    BY <1>5, LenProperties, SshAssumption
  <2> QED
    BY <2>1, MinOfTwo
<1> HIDE DEF m
<1>7. /\ failures' \in Seq(Events) /\ Len(failures') = m
      /\ \A i \in 1..m : failures'[i] = s[i]
  <2>1. failures' = SubSeq(s, 1, m)
    BY <1>2 DEF m
  <2>2. 1 \in 1..(Len(s) + 1) /\ m \in (1 - 1)..Len(s)
    BY <1>6
  <2> HIDE <1>2
  <2>3. /\ SubSeq(s, 1, m) \in Seq(Events)
        /\ Len(SubSeq(s, 1, m)) = IF 1 <= m THEN m - 1 + 1 ELSE 0
        /\ \A i \in 1..(m - 1 + 1) : SubSeq(s, 1, m)[i] = s[1 + i - 1]
    BY <1>5, <2>2, SubSeqProperties
  <2> QED
    BY <1>6, <2>1, <2>3
<1>8. \A i, j \in 1..m : i # j => ~Near(failures'[i], failures'[j])
  <2> SUFFICES ASSUME NEW i \in 1..m, NEW j \in 1..m, i # j
               PROVE  ~Near(failures'[i], failures'[j])
    OBVIOUS
  <2>1. i \in 1..Len(s) /\ j \in 1..Len(s)
    BY <1>6
  <2>2. PICK k, l \in 1..n : k # l /\ s[i] = failures[k] /\ s[j] = failures[l]
    BY <1>5, <2>1
  <2>3. failures'[i] = failures[k] /\ failures'[j] = failures[l]
    BY <1>7, <2>2
  <2>4. ~Near(failures[k], failures[l])
    BY <1>3, <2>2
  <2> QED
    BY <2>3, <2>4
<1>9. ASSUME NEW x \in seen
      PROVE  (\E i \in 1..m : Represents(failures'[i], x)) \/ m = FailureLimit
  <2> SUFFICES ASSUME m = Len(s) PROVE \E i \in 1..m : Represents(failures'[i], x)
    BY <1>6
  <2>1. PICK k \in 1..n : Represents(failures[k], x)
    BY <1>4
  <2>2. failures[k] \in ToSet(s)
    BY <1>3, <1>5 DEF ToSet
  <2>3. DOMAIN s = 1..m
    BY <1>5, LenProperties
  <2>4. PICK i \in 1..m : s[i] = failures[k]
    BY <2>2, <2>3 DEF ToSet
  <2> QED
    BY <1>7, <2>1, <2>4
<1> QED
  BY <1>1, <1>3, <1>7, <1>8, <1>9, EmptySeq
  DEF SshInv, SshShape, NewestFirst, Separated, StandIns, Represented

\* A reading starts with all its failures before the loop.
LEMMA ReadStep ==
  ASSUME SshInv, ReadAuth
  PROVE  SshInv'
<1> DEFINE lines == AuthLines(authLog)
           events == Failures(lines)
<1>1. /\ spc' = "merging" /\ failures' = <<>> /\ seen' = ToSet(events)
      /\ toMerge' \in Sorted(events) /\ UNCHANGED <<now, authLog>>
  BY DEF ReadAuth
<1>2. now \in Nat /\ authLog \in Seq(AuthRecords)
  BY DEF SshInv, SshShape
<1>3. lines \in Seq(AuthRecords)
  <2> DEFINE n == Len(authLog)
             m == Max({0, n - AuthTail})
  <2>1. n \in Nat /\ AuthTail \in Nat
    BY <1>2, LenProperties, SshAssumption
  <2>2. m \in Nat /\ m <= n
    BY <2>1, MaxOfTwo
  <2> HIDE DEF n, m
  <2>3. m + 1 \in 1..(n + 1) /\ n \in m..n
    BY <2>1, <2>2
  <2>4. SubSeq(authLog, m + 1, n) \in Seq(AuthRecords)
    BY <1>2, <2>1, <2>2, <2>3, SubSeqProperties DEF n
  <2> QED
    BY <2>4 DEF AuthLines, n, m
<1>4. PICK D : IsFiniteSet(D) /\ events \in [D -> Events]
  BY <1>2, <1>3, FailuresAreEvents
<1> HIDE DEF lines, events
<1>5. /\ toMerge' \in Seq(Events) /\ ToSet(toMerge') = ToSet(events)
      /\ \A i, j \in 1..Len(toMerge') : i < j => toMerge'[i].ts >= toMerge'[j].ts
  BY <1>1, <1>4, SortedKeeps
<1>6. seen' \subseteq Events /\ seen' \ ToSet(toMerge') = {}
  BY <1>1, <1>4, <1>5 DEF ToSet
<1>7. failures' \in Seq(Events) /\ Len(failures') = 0
  BY <1>1, EmptySeq
<1> QED
  BY <1>1, <1>2, <1>5, <1>6, <1>7
  DEF SshInv, SshShape, NewestFirst, Separated, StandIns, Represented

LEMMA SshStep ==
  ASSUME SshInv, [SshNext]_sshVars
  PROVE  SshInv'
<1> USE DEF SshInv, SshShape, NewestFirst, Separated, StandIns, Represented
<1>1. CASE PassSecond
  BY <1>1 DEF PassSecond
<1>2. CASE WriteAuth
  <2>1. PICK o \in Origins, k \in Kinds \cup {"other"} :
          authLog' = Append(authLog, [ts |-> now, origin |-> o, kind |-> k])
    BY <1>2 DEF WriteAuth
  <2>2. [ts |-> now, origin |-> o, kind |-> k] \in AuthRecords
    BY DEF AuthRecords
  <2>3. authLog' \in Seq(AuthRecords)
    BY <2>1, <2>2, AppendProperties
  <2>4. UNCHANGED <<now, spc, seen, toMerge, failures>>
    BY <1>2 DEF WriteAuth
  <2> QED
    BY <2>3, <2>4
<1>3. CASE RotateAuth
  <2>1. authLog' \in Seq(AuthRecords)
    BY <1>3, EmptySeq DEF RotateAuth
  <2> QED
    BY <1>3, <2>1 DEF RotateAuth
<1>4. CASE AuthUnread
  <2>1. /\ spc = "idle" /\ seen' = {} /\ failures' = <<>>
        /\ UNCHANGED <<now, authLog, spc, toMerge>>
    BY <1>4 DEF AuthUnread
  <2>2. failures' \in Seq(Events) /\ Len(failures') = 0 /\ Len(toMerge') = 0
    BY <2>1, EmptySeq
  <2> QED
    BY <2>1, <2>2
<1>5. CASE UNCHANGED sshVars
  BY <1>5 DEF sshVars
<1> QED
  BY <1>1, <1>2, <1>3, <1>4, <1>5, ReadStep, MergeStep, KeepStep, FinishStep DEF SshNext

\* The order of the loop and what stands for each failure, in every reachable state.
LEMMA SshInvariance == Spec => []SshInv
<1>1. Init => SshInv
  <2> SUFFICES ASSUME Init PROVE SshInv
    OBVIOUS
  <2>1. /\ now = 0 /\ authLog = <<>> /\ spc = "idle" /\ seen = {}
        /\ toMerge = <<>> /\ failures = <<>>
    BY DEF Init, SshInit
  <2>2. /\ authLog \in Seq(AuthRecords) /\ toMerge \in Seq(Events) /\ failures \in Seq(Events)
        /\ Len(failures) = 0 /\ Len(toMerge) = 0
    BY <2>1, EmptySeq
  <2> QED
    BY <2>1, <2>2 DEF SshInv, SshShape, NewestFirst, Separated, StandIns, Represented
<1>2. SshInv /\ [Next]_vars => SshInv'
  BY SshStep, AccessSteps
<1> QED
  BY <1>1, <1>2, PTL DEF Spec

\* Two failures of one origin on the list are more than the window apart, at every
\* turn of the loop and after it (dedupeSSHFailures).
THEOREM FailuresAreSeparated == Spec => []Separated
<1>1. SshInv => Separated
  BY DEF SshInv
<1> QED
  BY <1>1, SshInvariance, PTL

\* No failure the loop has passed disappears but for the limit: an entry of a kind
\* that says no less stands for it (dedupeSSHFailures, collectSSHFailures).
THEOREM FailuresAreRepresented == Spec => []Represented
<1>1. SshInv => Represented
  BY DEF SshInv
<1> QED
  BY <1>1, SshInvariance, PTL
-----------------------------------------------------------------------------
(***************************************************************************)
(* The logins.  wtmp is in the order of time, so `last` is newest first,   *)
(* and the loop keeps that order; the list of the auth log is sorted by    *)
(* the dates it gives, which are the true ones when the year is.           *)
(***************************************************************************)
LoginEvents == [ts : Int, of : Records]

LEMMA LoginIsEvent ==
  ASSUME date \in Nat, NEW r \in Records
  PROVE  Login(r) \in LoginEvents /\ Login(r).of = r /\ r.ts \in Nat
<1>1. r.ts \in Nat
  BY DEF Records
<1>2. Year * (date \div Year) \in Int /\ r.ts % Year \in Int
  BY <1>1, SshAssumption
<1>3. WithCurrentYear(r.ts, date) \in Int
  BY <1>2 DEF WithCurrentYear
<1> QED
  BY <1>1, <1>3 DEF Login, LoginEvents

\* In its own year, a record is dated with the time it has.
LEMMA DatedThisYear ==
  ASSUME date \in Nat, NEW r \in Records, r.ts \div Year = date \div Year
  PROVE  Login(r).ts = r.ts
<1>1. r.ts \in Nat
  BY DEF Records
<1>2. r.ts = Year * (r.ts \div Year) + (r.ts % Year)
  BY <1>1, SshAssumption
<1> QED
  BY <1>2 DEF Login, WithCurrentYear

Kept(f, s) ==
  f = [i \in 0..Len(s) |->
         IF i = 0 THEN <<>>
         ELSE IF s[i].session = NoSession THEN f[i - 1]
         ELSE <<Login(s[i])>> \o f[i - 1]]

\* The loop of Listed ends, whatever it reads: by induction on its turns.
LEMMA LoopExists ==
  ASSUME date \in Nat, NEW s \in Seq(Records)
  PROVE  \E f : Kept(f, s)
<1> DEFINE Took(i, t) == IF s[i].session = NoSession THEN t ELSE <<Login(s[i])>> \o t
           Loop(n, f) == /\ f \in [0..n -> Seq(LoginEvents)] /\ f[0] = <<>>
                         /\ \A i \in 1..n : f[i] = Took(i, f[i - 1])
           Stuck == {n \in 0..Len(s) : ~\E f : Loop(n, f)}
<1>0. Len(s) \in Nat /\ \A i \in 1..Len(s) : s[i] \in Records
  BY LenProperties, ElementOfSeq
<1>1. Loop(0, [i \in 0..0 |-> <<>>])
  BY EmptySeq
<1>2. ASSUME NEW i \in 1..Len(s), NEW t \in Seq(LoginEvents)
      PROVE  Took(i, t) \in Seq(LoginEvents)
  <2>1. Login(s[i]) \in LoginEvents
    BY <1>0, LoginIsEvent
  <2>2. <<Login(s[i])>> \in Seq(LoginEvents)
    BY <2>1
  <2>3. <<Login(s[i])>> \o t \in Seq(LoginEvents)
    BY <2>2, ConcatEntries
  <2> QED
    BY <2>3
<1>3. ASSUME NEW n \in 1..Len(s), NEW f, Loop(n - 1, f)
      PROVE  \E g : Loop(n, g)
  <2> DEFINE g == [i \in 0..n |-> IF i = n THEN Took(n, f[n - 1]) ELSE f[i]]
  <2>0. n \in Nat /\ n >= 1 /\ 0 \in 0..n /\ n - 1 \in 0..(n - 1)
    BY <1>0
  <2>1. Took(n, f[n - 1]) \in Seq(LoginEvents)
    BY <1>2, <1>3, <2>0
  <2> HIDE DEF Took
  <2>2. g \in [0..n -> Seq(LoginEvents)]
    <3>1. \A i \in 0..n : i # n => i \in 0..(n - 1)
      BY <2>0
    <3> QED
      BY <1>3, <2>1, <3>1
  <2>3. g[0] = <<>>
    BY <1>3, <2>0
  <2>4. ASSUME NEW i \in 1..n PROVE g[i] = Took(i, g[i - 1])
    <3>1. i \in 0..n /\ i - 1 \in 0..n /\ i - 1 # n /\ g[i - 1] = f[i - 1]
      BY <2>0
    <3>2. CASE i = n
      BY <3>1, <3>2
    <3>3. CASE i # n
      <4>1. i \in 1..(n - 1) /\ g[i] = f[i]
        BY <2>0, <3>1, <3>3
      <4> QED
        BY <1>3, <3>1, <4>1
    <3> QED
      BY <3>2, <3>3
  <2> QED
    BY <2>2, <2>3, <2>4
<1> HIDE DEF Loop, Took
<1>4. Stuck \subseteq Nat /\ \A n \in 0..Len(s) : n \notin Stuck => \E f : Loop(n, f)
  BY <1>0
<1>5. \A n \in Stuck : n \in 0..Len(s) /\ ~\E f : Loop(n, f)
  OBVIOUS
<1> HIDE DEF Stuck
<1>6. Stuck = {}
  <2> SUFFICES ASSUME Stuck # {} PROVE FALSE
    OBVIOUS
  <2>1. PICK n \in Stuck : \A m \in Stuck : n <= m
    BY <1>4, Least
  <2>2. n \in 1..Len(s)
    BY <1>0, <1>1, <1>5, <2>1
  <2>3. n - 1 \in 0..Len(s) /\ n - 1 \notin Stuck
    BY <1>0, <2>1, <2>2
  <2> QED
    BY <1>3, <1>4, <1>5, <2>1, <2>2, <2>3
<1>7. PICK f : Loop(Len(s), f)
  BY <1>0, <1>4, <1>6
<1>8. Kept(f, s)
  <2>1. f \in [0..Len(s) -> Seq(LoginEvents)] /\ f[0] = <<>>
        /\ \A i \in 1..Len(s) : f[i] = IF s[i].session = NoSession THEN f[i - 1]
                                       ELSE <<Login(s[i])>> \o f[i - 1]
    BY <1>7 DEF Loop, Took
  <2>2. \A i \in 0..Len(s) :
          f[i] = IF i = 0 THEN <<>>
                 ELSE IF s[i].session = NoSession THEN f[i - 1]
                 ELSE <<Login(s[i])>> \o f[i - 1]
    <3>1. \A i \in 0..Len(s) : i = 0 \/ i \in 1..Len(s)
      BY <1>0
    <3> QED
      BY <2>1, <3>1
  <2> QED
    BY <2>1, <2>2 DEF Kept
<1> QED
  BY <1>8

InTurn(s) == \A i, j \in 1..Len(s) : i < j => s[i].ts <= s[j].ts

\* A list of logins has those of the records, and is newest first.
OfThese(w, records) ==
  \A r \in records : \E k \in 1..Len(w) : w[k].of = r
NewestOnTop(w) ==
  \A k, l \in 1..Len(w) : k < l => w[k].of.ts >= w[l].of.ts

\* What the loop makes of records in turn: by induction on its turns.
LEMMA ListedFacts ==
  ASSUME date \in Nat, NEW s \in Seq(Records), InTurn(s)
  PROVE  /\ Listed(s) \in Seq(LoginEvents)
         /\ OfThese(Listed(s), Sessions(s)) /\ NewestOnTop(Listed(s))
<1> DEFINE f == CHOOSE g : Kept(g, s)
           Right(n) ==
             /\ f[n] \in Seq(LoginEvents)
             /\ \A i \in 1..n : s[i].session # NoSession =>
                  \E k \in 1..Len(f[n]) : f[n][k].of = s[i]
             /\ \A k \in 1..Len(f[n]) : \E i \in 1..n : f[n][k].of = s[i]
             /\ NewestOnTop(f[n])
           Bad == {n \in 0..Len(s) : ~Right(n)}
<1>0. /\ Len(s) \in Nat /\ DOMAIN s = 1..Len(s)
      /\ \A i \in 1..Len(s) : s[i] \in Records /\ s[i].ts \in Nat
  <2>1. Len(s) \in Nat /\ DOMAIN s = 1..Len(s) /\ \A i \in 1..Len(s) : s[i] \in Records
    BY LenProperties, ElementOfSeq
  <2> QED
    BY <2>1 DEF Records
<1>1. Listed(s) = f[Len(s)]
  BY DEF Listed, Kept
<1>2. Kept(f, s)
  BY LoopExists
<1> HIDE DEF f
<1>3. f[0] = <<>>
  BY <1>0, <1>2 DEF Kept
<1>4. ASSUME NEW n \in 1..Len(s)
      PROVE  f[n] = IF s[n].session = NoSession THEN f[n - 1]
                    ELSE <<Login(s[n])>> \o f[n - 1]
  <2>1. n \in 0..Len(s) /\ n # 0
    BY <1>0
  <2> QED
    BY <1>2, <2>1 DEF Kept
<1>5. Right(0)
  BY <1>3, EmptySeq DEF NewestOnTop
<1>6. ASSUME NEW n \in 1..Len(s), Right(n - 1)
      PROVE  Right(n)
  <2>0. /\ n \in Nat /\ n >= 1 /\ n \in 1..n
        /\ \A i \in 1..n : i \in 1..(n - 1) \/ i = n
        /\ \A i \in 1..(n - 1) : i \in 1..n /\ i < n /\ i \in 1..Len(s)
    BY <1>0
  <2>1. CASE s[n].session = NoSession
    <3>1. f[n] = f[n - 1]
      BY <1>4, <2>1
    <3> QED
      BY <1>6, <2>0, <2>1, <3>1
  <2>2. CASE s[n].session # NoSession
    <3> DEFINE t == f[n - 1]
               e == Login(s[n])
               u == f[n]
               m == Len(t)
    <3>1. u = <<e>> \o t /\ t \in Seq(LoginEvents) /\ e \in LoginEvents /\ e.of = s[n]
      BY <1>0, <1>4, <1>6, <2>2, LoginIsEvent
    <3>2. /\ \A i \in 1..(n - 1) : s[i].session # NoSession =>
               \E k \in 1..m : t[k].of = s[i]
          /\ \A k \in 1..m : \E i \in 1..(n - 1) : t[k].of = s[i]
          /\ \A k, l \in 1..m : k < l => t[k].of.ts >= t[l].of.ts
      BY <1>6 DEF NewestOnTop
    <3> HIDE DEF t, e, u
    <3>3. <<e>> \in Seq(LoginEvents) /\ Len(<<e>>) = 1 /\ <<e>>[1] = e
      BY <3>1
    <3>4. /\ u \in Seq(LoginEvents) /\ m \in Nat /\ Len(u) = 1 + m /\ u[1] = e
          /\ \A k \in 1..m : u[1 + k] = t[k]
      BY <3>1, <3>3, ConcatEntries
    <3> HIDE DEF m
    <3>5. /\ 1 \in 1..(1 + m) /\ \A k \in 1..m : 1 + k \in 1..(1 + m)
          /\ \A k \in 1..(1 + m) : k = 1 \/ (k - 1 \in 1..m /\ 1 + (k - 1) = k)
      BY <3>4
    <3>6. ASSUME NEW i \in 1..n, s[i].session # NoSession
          PROVE  \E k \in 1..(1 + m) : u[k].of = s[i]
      <4>1. CASE i \in 1..(n - 1)
        <5>1. PICK k \in 1..m : t[k].of = s[i]
          BY <3>2, <3>6, <4>1
        <5> QED
          BY <3>4, <3>5, <5>1
      <4>2. CASE i = n
        BY <3>1, <3>4, <3>5, <4>2
      <4> QED
        BY <2>0, <4>1, <4>2
    <3>7. ASSUME NEW k \in 1..(1 + m)
          PROVE  \E i \in 1..n : u[k].of = s[i]
      <4>1. CASE k = 1
        BY <2>0, <3>1, <3>4, <4>1
      <4>2. CASE k - 1 \in 1..m /\ 1 + (k - 1) = k
        <5>1. u[k] = t[k - 1] /\ \E i \in 1..(n - 1) : t[k - 1].of = s[i]
          BY <3>2, <3>4, <4>2
        <5> QED
          BY <2>0, <5>1
      <4> QED
        BY <3>5, <4>1, <4>2
    <3>8. ASSUME NEW k \in 1..(1 + m), NEW l \in 1..(1 + m), k < l
          PROVE  u[k].of.ts >= u[l].of.ts
      <4>1. l - 1 \in 1..m /\ u[l] = t[l - 1]
        <5>1. l - 1 \in 1..m /\ 1 + (l - 1) = l
          BY <3>4, <3>8
        <5> QED
          BY <3>4, <5>1
      <4>2. CASE k = 1
        <5>1. PICK i \in 1..(n - 1) : t[l - 1].of = s[i]
          BY <3>2, <4>1
        <5>2. s[i].ts <= s[n].ts /\ s[i].ts \in Nat /\ s[n].ts \in Nat
          BY <1>0, <2>0 DEF InTurn
        <5> QED
          BY <3>1, <3>4, <4>1, <4>2, <5>1, <5>2
      <4>3. CASE k - 1 \in 1..m /\ 1 + (k - 1) = k
        <5>1. u[k] = t[k - 1] /\ k - 1 < l - 1
          BY <3>4, <3>8, <4>3
        <5> QED
          BY <3>2, <4>1, <4>3, <5>1
      <4> QED
        BY <3>5, <4>2, <4>3
    <3>9. NewestOnTop(u)
      BY <3>4, <3>8 DEF NewestOnTop
    <3> QED
      BY <3>4, <3>6, <3>7, <3>9 DEF u
  <2> QED
    BY <2>1, <2>2
<1>7. Bad \subseteq Nat /\ \A n \in 0..Len(s) : n \in Bad <=> ~Right(n)
  BY <1>0
<1>8. Right(Len(s)) => /\ f[Len(s)] \in Seq(LoginEvents) /\ NewestOnTop(f[Len(s)])
                       /\ \A i \in 1..Len(s) : s[i].session # NoSession =>
                            \E k \in 1..Len(f[Len(s)]) : f[Len(s)][k].of = s[i]
  OBVIOUS
<1>9. \A n \in Bad : n \in 0..Len(s)
  OBVIOUS
<1> HIDE DEF Right, Bad
<1>10. Bad = {}
  <2> SUFFICES ASSUME Bad # {} PROVE FALSE
    OBVIOUS
  <2>1. PICK n \in Bad : \A m \in Bad : n <= m
    BY <1>7, Least
  <2>2. n \in 1..Len(s)
    BY <1>0, <1>5, <1>7, <1>9, <2>1
  <2>3. n - 1 \in 0..Len(s) /\ n - 1 \notin Bad
    BY <1>0, <1>7, <2>1, <2>2
  <2> QED
    BY <1>6, <1>7, <1>9, <2>1, <2>2, <2>3
<1>11. Right(Len(s))
  BY <1>0, <1>7, <1>10
<1>12. ASSUME NEW r \in Sessions(s) PROVE \E k \in 1..Len(f[Len(s)]) : f[Len(s)][k].of = r
  <2>1. PICK i \in 1..Len(s) : s[i] = r /\ s[i].session # NoSession
    BY <1>0 DEF Sessions, ToSet
  <2> QED
    BY <1>8, <1>11, <2>1
<1> QED
  BY <1>1, <1>8, <1>11, <1>12 DEF OfThese

\* The end of a list, of k entries at most.
LEMMA TailOf ==
  ASSUME NEW S, NEW s \in Seq(S), NEW k \in Nat
  PROVE  LET t == SubSeq(s, Max({0, Len(s) - k}) + 1, Len(s)) IN
           /\ t \in Seq(S)
           /\ \E m \in Nat : /\ Len(t) = Len(s) - m /\ m <= Len(s)
                             /\ \A i \in 1..Len(t) : m + i \in 1..Len(s) /\ t[i] = s[m + i]
<1> DEFINE n == Len(s)
           m == Max({0, n - k})
           t == SubSeq(s, m + 1, n)
<1>1. n \in Nat
  BY LenProperties
<1>2. m \in Nat /\ m <= n
  BY <1>1, MaxOfTwo
<1> HIDE DEF n, m
<1>3. m + 1 \in 1..(n + 1) /\ n \in m..n
  BY <1>1, <1>2
<1>4. t \in Seq(S) /\ Len(t) = n - m /\ \A i \in 1..(n - m) : t[i] = s[m + i]
  <2>1. /\ t \in Seq(S) /\ Len(t) = IF m + 1 <= n THEN n - (m + 1) + 1 ELSE 0
        /\ \A i \in 1..(n - (m + 1) + 1) : t[i] = s[(m + 1) + i - 1]
    BY <1>1, <1>2, <1>3, SubSeqProperties DEF n
  <2>2. n - (m + 1) + 1 = n - m /\ \A i \in 1..(n - m) : (m + 1) + i - 1 = m + i
    BY <1>1, <1>2
  <2> QED
    BY <1>1, <1>2, <2>1, <2>2
<1>5. \A i \in 1..(n - m) : m + i \in 1..n
  BY <1>1, <1>2
<1> QED
  BY <1>2, <1>4, <1>5 DEF n, m

\* The newest of a list of logins: what the limit leaves out is no newer.
LEMMA UpToFacts ==
  ASSUME NEW w \in Seq(LoginEvents), NewestOnTop(w), NEW R, OfThese(w, R)
  PROVE  LET u == UpTo(w) IN
           /\ u \in Seq(LoginEvents)
           /\ \A i, j \in 1..Len(u) : i < j => u[i].of.ts >= u[j].of.ts
           /\ \A r \in R \ {u[i].of : i \in 1..Len(u)} :
                /\ Len(u) = LoginLimit
                /\ \A i \in 1..Len(u) : r.ts <= u[i].of.ts
<1> DEFINE u == UpTo(w)
           m == Min({Len(w), LoginLimit})
<1>1. /\ Len(w) \in Nat /\ LoginLimit \in Nat
      /\ \A i \in 1..Len(w) : w[i] \in LoginEvents /\ w[i].of.ts \in Nat
  <2>1. Len(w) \in Nat /\ \A i \in 1..Len(w) : w[i] \in LoginEvents
    BY LenProperties, ElementOfSeq
  <2> QED
    BY <2>1, LoginsAssumption DEF LoginEvents, Records
<1>2. m \in Nat /\ m <= Len(w) /\ (m < Len(w) => m = LoginLimit)
  BY <1>1, MinOfTwo
<1>3. u = SubSeq(w, 1, m)
  BY DEF UpTo
<1> HIDE DEF u, m
<1>4. u \in Seq(LoginEvents) /\ Len(u) = m /\ \A i \in 1..m : u[i] = w[i]
  <2>1. 1 \in 1..(Len(w) + 1) /\ m \in 0..Len(w) /\ \A i \in 1..m : w[i] \in LoginEvents
    BY <1>1, <1>2
  <2>2. /\ SubSeq(w, 1, m) \in Seq(LoginEvents)
        /\ Len(SubSeq(w, 1, m)) = IF 1 <= m THEN m - 1 + 1 ELSE 0
        /\ \A i \in 1..(m - 1 + 1) : SubSeq(w, 1, m)[i] = w[1 + i - 1]
    BY <1>1, <1>2, <2>1, SubSeqProperties
  <2>3. m - 1 + 1 = m /\ (~(1 <= m) => m = 0) /\ \A i \in 1..m : 1 + i - 1 = i
    BY <1>2
  <2> QED
    BY <1>3, <2>2, <2>3
<1>5. \A i \in 1..m : i \in 1..Len(w)
  BY <1>1, <1>2
<1>6. \A i, j \in 1..m : i < j => u[i].of.ts >= u[j].of.ts
  BY <1>4, <1>5 DEF NewestOnTop
<1>7. ASSUME NEW r \in R \ {u[i].of : i \in 1..m}
      PROVE  m = LoginLimit /\ \A i \in 1..m : r.ts <= u[i].of.ts
  <2>1. PICK k \in 1..Len(w) : w[k].of = r
    BY DEF OfThese
  <2>2. k \notin 1..m
    BY <1>4, <1>7, <2>1
  <2>3. m < k /\ m < Len(w)
    BY <1>1, <1>2, <2>2
  <2>4. ASSUME NEW i \in 1..m PROVE r.ts <= u[i].of.ts
    <3>1. i \in 1..Len(w) /\ i < k /\ u[i] = w[i]
      BY <1>2, <1>4, <1>5, <2>3
    <3>2. w[i].of.ts >= w[k].of.ts /\ w[i].of.ts \in Nat /\ w[k].of.ts \in Nat
      BY <1>1, <3>1 DEF NewestOnTop
    <3> QED
      BY <2>1, <3>1, <3>2
  <2> QED
    BY <1>2, <2>3, <2>4
<1> QED
  BY <1>4, <1>6, <1>7 DEF u

LoginsInv ==
  /\ LoginsTypeOK /\ LoginsNewest
  /\ InTurn(wtmp) /\ \A i \in 1..Len(wtmp) : wtmp[i].ts <= date
  /\ lpc \in {"last", "accepted"} => Len(logins) = 0

\* The end of records in turn is in turn.
LEMMA TailInTurn ==
  ASSUME NEW s \in Seq(Records), InTurn(s), NEW k \in Nat
  PROVE  LET t == SubSeq(s, Max({0, Len(s) - k}) + 1, Len(s)) IN
           t \in Seq(Records) /\ InTurn(t)
<1> DEFINE t == SubSeq(s, Max({0, Len(s) - k}) + 1, Len(s))
<1>1. t \in Seq(Records) /\ Len(s) \in Nat
  BY TailOf, LenProperties
<1>2. PICK m \in Nat : /\ Len(t) = Len(s) - m /\ m <= Len(s)
                       /\ \A i \in 1..Len(t) : m + i \in 1..Len(s) /\ t[i] = s[m + i]
  BY TailOf
<1> HIDE DEF t
<1>3. ASSUME NEW i \in 1..Len(t), NEW j \in 1..Len(t), i < j
      PROVE  t[i].ts <= t[j].ts
  <2>1. m + i < m + j
    BY <1>1, <1>2, <1>3
  <2> QED
    BY <1>2, <2>1 DEF InTurn
<1> QED
  BY <1>1, <1>3 DEF InTurn, t

\* A record of this moment comes after all others.
LEMMA RecordStep ==
  ASSUME date \in Nat, NEW n \in Nat, NEW s \in Seq(Records)
  PROVE  /\ Append(s, Record(n)) \in Seq(Records)
         /\ (InTurn(s) /\ \A i \in 1..Len(s) : s[i].ts <= date) =>
              /\ InTurn(Append(s, Record(n)))
              /\ \A i \in 1..Len(Append(s, Record(n))) : Append(s, Record(n))[i].ts <= date
<1> DEFINE t == Append(s, Record(n))
           k == Len(s)
<1>1. Record(n) \in Records /\ Record(n).ts = date
  BY DEF Record, Records
<1>2. /\ k \in Nat /\ t \in Seq(Records) /\ Len(t) = k + 1 /\ t[k + 1] = Record(n)
      /\ \A i \in 1..k : t[i] = s[i]
  BY <1>1, AppendProperties, LenProperties
<1> HIDE DEF t, k
<1>3. \A i \in 1..(k + 1) : i \in 1..k \/ i = k + 1
  BY <1>2
<1>4. ASSUME InTurn(s), \A i \in 1..k : s[i].ts <= date
      PROVE  InTurn(t) /\ \A i \in 1..(k + 1) : t[i].ts <= date
  <2>1. \A i \in 1..(k + 1) : t[i].ts <= date
    BY <1>1, <1>2, <1>3, <1>4
  <2>2. ASSUME NEW i \in 1..(k + 1), NEW j \in 1..(k + 1), i < j PROVE t[i].ts <= t[j].ts
    <3>1. i \in 1..k
      BY <1>2, <2>2
    <3>2. CASE j \in 1..k
      BY <1>2, <1>4, <2>2, <3>1, <3>2 DEF InTurn, k
    <3>3. CASE j = k + 1
      BY <1>1, <1>2, <1>4, <3>1, <3>3
    <3> QED
      BY <1>3, <3>2, <3>3
  <2> QED
    BY <1>2, <2>1, <2>2 DEF InTurn
<1> QED
  BY <1>2, <1>4 DEF t, k

\* The logins of the auth log before the sort.
LEMMA AmongLines ==
  ASSUME date \in Nat, NEW lines \in Seq(Records)
  PROVE  \E D : /\ IsFiniteSet(D) /\ LoginsAmong(lines) \in [D -> LoginEvents]
                /\ \A i \in D : /\ LoginsAmong(lines)[i] = Login(lines[i])
                                /\ lines[i] \in Sessions(lines)
                /\ \A r \in Sessions(lines) : \E i \in D : lines[i] = r
<1> DEFINE D == {j \in DOMAIN lines : lines[j].session # NoSession}
<1>1. DOMAIN lines = 1..Len(lines) /\ Len(lines) \in Nat
      /\ \A i \in 1..Len(lines) : lines[i] \in Records
  BY LenProperties, ElementOfSeq
<1>2. IsFiniteSet(D)
  <2>1. IsFiniteSet(1..Len(lines))
    BY <1>1, FS_Interval
  <2> QED
    BY <1>1, <2>1, FS_Subset
<1>3. \A i \in D : Login(lines[i]) \in LoginEvents
  BY <1>1, LoginIsEvent
<1>4. /\ LoginsAmong(lines) \in [D -> LoginEvents]
      /\ \A i \in D : LoginsAmong(lines)[i] = Login(lines[i])
  BY <1>3 DEF LoginsAmong
<1>5. /\ \A i \in D : lines[i] \in Sessions(lines)
      /\ \A r \in Sessions(lines) : \E i \in D : lines[i] = r
  BY DEF Sessions, ToSet
<1> QED
  BY <1>2, <1>4, <1>5

\* Sorting the logins of this year puts the newest on top.
LEMMA SortedFacts ==
  ASSUME date \in Nat, NEW lines \in Seq(Records), NEW t \in Sorted(LoginsAmong(lines))
  PROVE  /\ t \in Seq(LoginEvents) /\ OfThese(t, Sessions(lines))
         /\ (\A r \in Sessions(lines) : r.ts \div Year = date \div Year) => NewestOnTop(t)
<1>1. PICK D : /\ IsFiniteSet(D) /\ LoginsAmong(lines) \in [D -> LoginEvents]
               /\ \A i \in D : /\ LoginsAmong(lines)[i] = Login(lines[i])
                               /\ lines[i] \in Sessions(lines)
               /\ \A r \in Sessions(lines) : \E i \in D : lines[i] = r
  BY AmongLines
<1> DEFINE f == LoginsAmong(lines)
<1>2. /\ IsFiniteSet(D) /\ f \in [D -> LoginEvents] /\ t \in Sorted(f)
      /\ \A i \in D : f[i] = Login(lines[i])
  BY <1>1
<1> HIDE DEF f
<1>3. /\ t \in Seq(LoginEvents) /\ ToSet(t) = ToSet(f)
      /\ \A i, j \in 1..Len(t) : i < j => t[i].ts >= t[j].ts
  BY <1>2, SortedKeeps
<1>4. DOMAIN t = 1..Len(t) /\ DOMAIN f = D /\ Sessions(lines) \subseteq Records
  <2>1. DOMAIN lines = 1..Len(lines) /\ \A i \in 1..Len(lines) : lines[i] \in Records
    BY LenProperties, ElementOfSeq
  <2> QED
    BY <1>2, <1>3, <2>1, LenProperties DEF Sessions, ToSet
<1>5. OfThese(t, Sessions(lines))
  <2> SUFFICES ASSUME NEW r \in Sessions(lines) PROVE \E k \in 1..Len(t) : t[k].of = r
    BY DEF OfThese
  <2>1. PICK i \in D : lines[i] = r
    BY <1>1
  <2>2. f[i] = Login(r) /\ f[i].of = r
    BY <1>2, <1>4, <2>1, LoginIsEvent
  <2>3. f[i] \in ToSet(t)
    BY <1>3, <1>4 DEF ToSet
  <2>4. PICK k \in 1..Len(t) : t[k] = f[i]
    BY <1>4, <2>3 DEF ToSet
  <2> QED
    BY <2>2, <2>4
<1>6. ASSUME \A r \in Sessions(lines) : r.ts \div Year = date \div Year
      PROVE  NewestOnTop(t)
  <2>1. ASSUME NEW k \in 1..Len(t) PROVE t[k].ts = t[k].of.ts
    <3>1. t[k] \in ToSet(f)
      BY <1>3, <1>4 DEF ToSet
    <3>2. PICK i \in D : t[k] = f[i]
      BY <1>4, <3>1 DEF ToSet
    <3>3. lines[i] \in Records /\ lines[i].ts \div Year = date \div Year
      BY <1>1, <1>4, <1>6
    <3>4. Login(lines[i]).ts = lines[i].ts /\ Login(lines[i]).of = lines[i]
      BY <3>3, DatedThisYear, LoginIsEvent
    <3> QED
      BY <1>2, <3>2, <3>4
  <2> QED
    BY <1>3, <2>1 DEF NewestOnTop
<1> QED
  BY <1>3, <1>5, <1>6

\* What the probe leaves as logins: the newest of the records it consulted.
LEMMA NewestListed ==
  ASSUME NEW w \in Seq(LoginEvents), OfThese(w, consulted'), lastYear' \/ NewestOnTop(w),
         logins' = UpTo(w)
  PROVE  LoginsNewest'
<1> SUFFICES ASSUME ~lastYear'
             PROVE  /\ \A i, j \in 1..Len(logins') : i < j => logins'[i].of.ts >= logins'[j].of.ts
                    /\ \A r \in consulted' \ {logins'[i].of : i \in 1..Len(logins')} :
                         /\ Len(logins') = LoginLimit
                         /\ \A i \in 1..Len(logins') : r.ts <= logins'[i].of.ts
  BY DEF LoginsNewest
<1>1. NewestOnTop(w)
  OBVIOUS
<1> DEFINE R == consulted'
<1>2. OfThese(w, R)
  OBVIOUS
<1> HIDE DEF R
<1>3. LET u == UpTo(w) IN
        /\ u \in Seq(LoginEvents)
        /\ \A i, j \in 1..Len(u) : i < j => u[i].of.ts >= u[j].of.ts
        /\ \A r \in R \ {u[i].of : i \in 1..Len(u)} :
             /\ Len(u) = LoginLimit
             /\ \A i \in 1..Len(u) : r.ts <= u[i].of.ts
  BY <1>1, <1>2, UpToFacts
<1> QED
  BY <1>3 DEF R

\* The cut of a list of logins is one.
LEMMA UpToIsSeq ==
  ASSUME NEW w \in Seq(LoginEvents)
  PROVE  UpTo(w) \in Seq(LoginEvents)
<1> DEFINE m == Min({Len(w), LoginLimit})
<1>1. Len(w) \in Nat /\ LoginLimit \in Nat
  BY LenProperties, LoginsAssumption
<1>2. m \in Nat /\ m <= Len(w)
  BY <1>1, MinOfTwo
<1> HIDE DEF m
<1>3. 1 \in 1..(Len(w) + 1) /\ m \in 0..Len(w)
  BY <1>1, <1>2
<1>4. SubSeq(w, 1, m) \in Seq(LoginEvents)
  BY <1>1, <1>2, <1>3, SubSeqProperties
<1> QED
  BY <1>4 DEF UpTo, m

LEMMA LoginsStep ==
  ASSUME LoginsInv, [LoginsNext]_loginVars
  PROVE  LoginsInv'
<1> USE LoginsAssumption
<1>0. /\ date \in Nat /\ session \in Nat /\ session \in 0..MaxSessions /\ MaxSessions \in Nat
      /\ wtmp \in Seq(Records) /\ sshd \in Seq(Records)
      /\ logins \in Seq(LoginEvents) /\ consulted \subseteq Records
      /\ InTurn(wtmp) /\ \A i \in 1..Len(wtmp) : wtmp[i].ts <= date
  BY DEF LoginsInv, LoginsTypeOK, LoginEvents
<1>b. hasData \in BOOLEAN /\ lastYear \in BOOLEAN
  BY DEF LoginsInv, LoginsTypeOK
<1>s. \A s \in Seq(Records) : Sessions(s) \subseteq Records
  <2> SUFFICES ASSUME NEW s \in Seq(Records) PROVE Sessions(s) \subseteq Records
    OBVIOUS
  <2>1. DOMAIN s = 1..Len(s) /\ \A i \in 1..Len(s) : s[i] \in Records
    BY LenProperties, ElementOfSeq
  <2> QED
    BY <2>1 DEF Sessions, ToSet
<1>n. UNCHANGED probeVars => LoginsNewest'
  BY DEF LoginsInv, LoginsNewest, probeVars
<1>1. CASE PassTime
  <2>1. date' = date + 1 /\ UNCHANGED <<session, wtmp, sshd, probeVars>>
    BY <1>1 DEF PassTime
  <2>2. \A i \in 1..Len(wtmp) : wtmp[i].ts \in Nat
    <3>1. \A i \in 1..Len(wtmp) : wtmp[i] \in Records
      BY <1>0, ElementOfSeq
    <3> QED
      BY <3>1 DEF Records
  <2>3. date' \in Nat /\ \A i \in 1..Len(wtmp) : wtmp[i].ts <= date'
    BY <1>0, <2>1, <2>2
  <2> QED
    BY <2>1, <2>3, <1>n DEF LoginsInv, LoginsTypeOK, InTurn, probeVars
<1>2. CASE LogIn
  <2>1. /\ session' = session + 1 /\ session < MaxSessions
        /\ sshd' = Append(sshd, Record(session'))
        /\ UNCHANGED <<date, wtmp, probeVars>>
    BY <1>2 DEF LogIn
  <2>2. session' \in Nat /\ session' \in 0..MaxSessions
    BY <1>0, <2>1
  <2>3. sshd' \in Seq(Records)
    BY <1>0, <2>1, <2>2, RecordStep
  <2> QED
    BY <2>1, <2>2, <2>3, <1>n DEF LoginsInv, LoginsTypeOK, InTurn, probeVars
<1>3. CASE FailToLogIn
  <2>1. /\ sshd' = Append(sshd, Record(NoSession))
        /\ UNCHANGED <<date, session, wtmp, probeVars>>
    BY <1>3 DEF FailToLogIn
  <2>2. sshd' \in Seq(Records)
    BY <1>0, <2>1, RecordStep DEF NoSession
  <2> QED
    BY <2>1, <2>2, <1>n DEF LoginsInv, LoginsTypeOK, InTurn, probeVars
<1>4. CASE Register
  <2>1. PICK n \in {session, NoSession} : wtmp' = Append(wtmp, Record(n))
    BY <1>4 DEF Register
  <2>2. UNCHANGED <<date, session, sshd, probeVars>>
    BY <1>4 DEF Register
  <2>3. n \in Nat
    BY <1>0, <2>1 DEF NoSession
  <2>4. /\ wtmp' \in Seq(Records) /\ InTurn(wtmp')
        /\ \A i \in 1..Len(wtmp') : wtmp'[i].ts <= date
    BY <1>0, <2>1, <2>3, RecordStep
  <2> QED
    BY <2>2, <2>4, <1>n DEF LoginsInv, LoginsTypeOK, InTurn, probeVars
<1>5. CASE RotateRecords
  <2>1. /\ UNCHANGED <<date, session, probeVars>>
        /\ wtmp' \in {wtmp, <<>>} /\ sshd' \in {sshd, <<>>}
    BY <1>5 DEF RotateRecords
  <2>2. <<>> \in Seq(Records) /\ Len(<<>>) = 0
    BY EmptySeq
  <2>3. wtmp' \in Seq(Records) /\ sshd' \in Seq(Records)
    BY <1>0, <2>1, <2>2
  <2>4. InTurn(wtmp') /\ \A i \in 1..Len(wtmp') : wtmp'[i].ts <= date
    BY <1>0, <2>1, <2>2 DEF InTurn
  <2> QED
    BY <2>1, <2>3, <2>4, <1>n DEF LoginsInv, LoginsTypeOK, InTurn, probeVars
<1>6. CASE AskLast
  <2> DEFINE s == LastRecords(wtmp)
             w == Listed(s)
  <2>1. /\ logins' = UpTo(w) /\ consulted' = Sessions(s)
        /\ lpc' = IF logins' = <<>> THEN "accepted" ELSE "failures"
        /\ UNCHANGED <<date, session, wtmp, sshd, hasData, lastYear>>
    BY <1>6 DEF AskLast, recordVars, LastLogins
  <2>2. s \in Seq(Records) /\ InTurn(s)
    BY <1>0, TailInTurn DEF LastRecords
  <2> HIDE DEF s
  <2>3. w \in Seq(LoginEvents) /\ OfThese(w, Sessions(s)) /\ NewestOnTop(w)
    BY <1>0, <2>2, ListedFacts
  <2> HIDE DEF w
  <2>4. LoginsNewest' /\ logins' \in Seq(LoginEvents) /\ consulted' \subseteq Records
    BY <1>s, <2>1, <2>2, <2>3, NewestListed, UpToIsSeq
  <2>5. lpc' \in {"last", "accepted"} => Len(logins') = 0
    BY <2>1, EmptySeq
  <2> QED
    BY <1>0, <1>b, <2>1, <2>4, <2>5 DEF LoginsInv, LoginsTypeOK, InTurn, LoginEvents
<1>7. CASE LastFails
  <2>1. /\ lpc = "last" /\ lpc' = "accepted"
        /\ UNCHANGED <<date, session, wtmp, sshd, logins, hasData, consulted, lastYear>>
    BY <1>7 DEF LastFails, recordVars
  <2> QED
    BY <1>0, <1>b, <2>1 DEF LoginsInv, LoginsTypeOK, LoginsNewest, InTurn
<1>8. CASE ReadAccepted
  <2> DEFINE s == AuthLines(sshd)
  <2>1. /\ logins' \in Accepted(s) /\ consulted' = Sessions(s)
        /\ lastYear' = \E r \in consulted' : r.ts \div Year # date \div Year
        /\ lpc' = "failures" /\ UNCHANGED <<date, session, wtmp, sshd, hasData>>
    BY <1>8 DEF ReadAccepted, recordVars
  <2>2. s \in Seq(Records)
    BY <1>0, SshAssumption, TailOf DEF AuthLines
  <2> HIDE DEF s
  <2>3. PICK w \in Sorted(LoginsAmong(s)) : logins' = UpTo(w)
    BY <2>1 DEF Accepted
  <2>4. /\ w \in Seq(LoginEvents) /\ OfThese(w, Sessions(s))
        /\ (\A r \in Sessions(s) : r.ts \div Year = date \div Year) => NewestOnTop(w)
    BY <1>0, <2>2, SortedFacts
  <2>5. lastYear' \/ NewestOnTop(w)
    BY <2>1, <2>4
  <2>6. LoginsNewest' /\ logins' \in Seq(LoginEvents) /\ consulted' \subseteq Records
    BY <1>s, <2>1, <2>2, <2>3, <2>4, <2>5, NewestListed, UpToIsSeq
  <2>7. lastYear' \in BOOLEAN
    BY <2>1, Zenon
  <2> QED
    BY <1>0, <1>b, <2>1, <2>6, <2>7 DEF LoginsInv, LoginsTypeOK, InTurn, LoginEvents
<1>9. CASE AcceptedUnread
  <2>1. /\ lpc = "accepted" /\ lpc' = "failures" /\ consulted' = {}
        /\ UNCHANGED <<date, session, wtmp, sshd, logins, hasData, lastYear>>
    BY <1>9 DEF AcceptedUnread, recordVars
  <2>2. Len(logins) = 0
    BY <2>1 DEF LoginsInv
  <2>3. LoginsNewest'
    BY <2>1, <2>2 DEF LoginsNewest
  <2> QED
    BY <1>0, <1>b, <2>1, <2>3 DEF LoginsInv, LoginsTypeOK, InTurn, LoginEvents
<1>10. CASE ReadFailures
  <2>1. /\ lpc = "failures" /\ lpc' = "done"
        /\ UNCHANGED <<date, session, wtmp, sshd, logins, consulted, lastYear>>
    BY <1>10 DEF ReadFailures, recordVars
  <2>2. hasData' \in BOOLEAN
    BY <1>10 DEF ReadFailures
  <2>3. LoginsNewest'
    BY <2>1 DEF LoginsInv, LoginsNewest
  <2> QED
    BY <1>0, <1>b, <2>1, <2>2, <2>3 DEF LoginsInv, LoginsTypeOK, InTurn, LoginEvents
<1>11. CASE UNCHANGED loginVars
  BY <1>11 DEF loginVars, LoginsInv, LoginsTypeOK, LoginsNewest, InTurn
<1> QED
  BY <1>1, <1>2, <1>3, <1>4, <1>5, <1>6, <1>7, <1>8, <1>9, <1>10, <1>11 DEF LoginsNext

LEMMA LoginsInvariance == Spec => []LoginsInv
<1>1. Init => LoginsInv
  <2> SUFFICES ASSUME LoginsInit PROVE LoginsInv
    BY DEF Init
  <2>1. /\ date = FirstDate /\ session = 0 /\ wtmp = <<>> /\ sshd = <<>> /\ lpc = "last"
        /\ logins = <<>> /\ consulted = {}
    BY DEF LoginsInit
  <2>2. hasData \in BOOLEAN /\ lastYear \in BOOLEAN
    BY DEF LoginsInit
  <2>3. Len(logins) = 0 /\ Len(wtmp) = 0 /\ Len(sshd) = 0
    BY <2>1, EmptySeq
  <2>4. wtmp \in Seq(Records) /\ sshd \in Seq(Records) /\ logins \in Seq(LoginEvents)
    BY <2>1, EmptySeq
  <2>5. date \in Nat /\ session \in 0..MaxSessions
    BY <2>1, LoginsAssumption
  <2> QED
    BY <2>1, <2>2, <2>3, <2>4, <2>5
    DEF LoginsInv, LoginsTypeOK, LoginsNewest, InTurn, LoginEvents
<1>2. LoginsInv /\ [Next]_vars => LoginsInv'
  BY LoginsStep, AccessSteps
<1> QED
  BY <1>1, <1>2, PTL DEF Spec

\* The logins shown are the newest of the file they are from, newest first, whichever
\* of the two it is, unless the list was sorted by dates of a wrong year
\* (collectLastLogins, collectAcceptedFromAuthLog, withCurrentYear).
THEOREM LoginsAreNewest == Spec => []LoginsNewest
<1>1. LoginsInv => LoginsNewest
  BY DEF LoginsInv
<1> QED
  BY <1>1, LoginsInvariance, PTL

-----------------------------------------------------------------------------
(***************************************************************************)
(* The types of the four panels, beside what the invariants above say.     *)
(***************************************************************************)
VPNTypes ==
  /\ path \in BOOLEAN /\ ready \in BOOLEAN /\ truth.clients \subseteq Peers
  /\ sub \in {"none", "unknown", "running", "exited"}
  /\ problem \in {"none", "docker", "unconfigured", "status"}

LEMMA VPNTypesStep ==
  ASSUME VPNTypes, told \subseteq Peers, [VPNNext]_vpnVars
  PROVE  VPNTypes'
<1> USE DEF VPNTypes, serverVars, vpnPanel
<1>1. CASE (\E c \in Peers : Come(c)) \/ BeginReport \/ Truncate \/ WriteLine
  BY <1>1 DEF Come, BeginReport, Truncate, WriteLine
<1>2. CASE Configured
  BY <1>2 DEF Configured
<1>3. CASE Inspect
  BY <1>3 DEF Inspect
<1>4. CASE SudoFails
  BY <1>4 DEF SudoFails
<1>5. CASE NoPath
  BY <1>5 DEF NoPath, Noted
<1>6. CASE ReadStatus
  BY <1>6 DEF ReadStatus
<1>7. CASE SudoRefused
  BY <1>7 DEF SudoRefused, Noted
<1>8. CASE InspectFails \/ ReadRefused \/ UNCHANGED vpnVars
  BY <1>8 DEF InspectFails, ReadRefused, vpnVars
<1> QED
  BY <1>1, <1>2, <1>3, <1>4, <1>5, <1>6, <1>7, <1>8 DEF VPNNext

BanTypes ==
  /\ jails \in BanSets /\ banPanel.jails \in BanSets
  /\ banError \in {"none", "systemd", "client"}
  /\ banPanel.source = "log" => \A j \in DOMAIN banPanel.jails : banPanel.jails[j] # {}

\* Some jails, each with addresses; the log tells of jails with bans only.
LEMMA BanSet ==
  ASSUME NEW S \in SUBSET Jails, NEW f \in [S -> SUBSET Addresses]
  PROVE  f \in BanSets
  BY DEF BanSets

LEMMA ReplayedBans ==
  ASSUME NEW lines
  PROVE  /\ Replayed(lines) \in BanSets
         /\ \A j \in DOMAIN Replayed(lines) : Replayed(lines)[j] # {}
<1> DEFINE S == {k \in Jails : \E a \in Addresses : LastWord(lines, k, a) = "Ban"}
           R(j) == {a \in Addresses : LastWord(lines, j, a) = "Ban"}
<1>1. Replayed(lines) = [j \in S |-> R(j)]
  BY DEF Replayed
<1>2. S \in SUBSET Jails /\ \A j \in S : R(j) \in SUBSET Addresses /\ R(j) # {}
  OBVIOUS
<1> HIDE DEF S, R
<1>3. [j \in S |-> R(j)] \in [S -> SUBSET Addresses]
  BY <1>2
<1> QED
  BY <1>1, <1>2, <1>3, BanSet

LEMMA BanTypesStep ==
  ASSUME BanTypes, AskedInv, [BanNext]_banVars
  PROVE  BanTypes'
<1> USE DEF BanTypes
<1>0. NoJails \in BanSets
  <2>1. NoJails \in [{} -> SUBSET Addresses]
    BY DEF NoJails
  <2> QED
    BY <2>1, BanSet
<1>1. CASE \E j \in Jails, a \in Addresses : Ban(j, a) \/ Unban(j, a)
  BY <1>1 DEF Ban, Unban, LogLine, banProbeVars
<1>2. CASE AskSystemd
  BY <1>0, <1>2 DEF AskSystemd
<1>3. CASE AskJail
  <2>1. toAsk # <<>> /\ UNCHANGED <<banPanel, banError>>
    BY <1>3 DEF AskJail
  <2>2. Head(toAsk) \in Jails
    BY <2>1, HeadAndTail DEF AskedInv
  <2>3. PICK S \in SUBSET Jails : jails \in [S -> SUBSET Addresses]
    BY DEF BanSets
  <2>4. S \cup {Head(toAsk)} \in SUBSET Jails
    BY <2>2
  <2>5. jails' \in [S \cup {Head(toAsk)} -> SUBSET Addresses]
    BY <1>3, <2>2, <2>3 DEF AskJail, AskedInv
  <2> QED
    BY <2>1, <2>4, <2>5, BanSet
<1>4. CASE FromClient
  BY <1>4 DEF FromClient, Publish
<1>5. CASE ClientFails
  BY <1>5 DEF ClientFails, FirstError
<1>6. CASE FromLog
  <2>1. banPanel'.jails = Replayed(LogTail(banLog)) /\ UNCHANGED <<jails, banError>>
    BY <1>6 DEF FromLog, Publish
  <2> QED
    BY <2>1, ReplayedBans
<1>7. CASE LogFails
  BY <1>0, <1>7 DEF LogFails, Publish
<1>8. CASE RotateBanLog \/ ListJails \/ UNCHANGED banVars
  BY <1>8 DEF RotateBanLog, ListJails, banProbeVars, banVars
<1> QED
  BY <1>1, <1>2, <1>3, <1>4, <1>5, <1>6, <1>7, <1>8 DEF BanNext

\* The panels of who comes in keep their types (collectOpenVPN, CollectFail2ban,
\* CollectSSH): a list of jails from the log has none without bans.
LEMMA AccessTyped == Spec => [](VPNTypeOK /\ BanTypeOK /\ SshTypeOK /\ LoginsTypeOK)
<1>1. Init => VPNTypes /\ BanTypes
  <2> SUFFICES ASSUME VPNInit, BanInit PROVE VPNTypes /\ BanTypes
    BY DEF Init
  <2>1. VPNTypes
    BY DEF VPNInit, VPNTypes
  <2>2. NoJails \in [{} -> SUBSET Addresses]
    BY DEF NoJails
  <2>3. NoJails \in BanSets
    BY <2>2, BanSet
  <2>4. BanTypes
    BY <2>3 DEF BanInit, BanTypes, NoPanel
  <2> QED
    BY <2>1, <2>4
<1>2. FileInv /\ VPNTypes /\ [Next]_vars => VPNTypes'
  BY VPNTypesStep, AccessSteps DEF FileInv
<1>3. AskedInv /\ BanTypes /\ [Next]_vars => BanTypes'
  BY BanTypesStep, AccessSteps
<1>4. ProblemInv /\ FileInv /\ VPNTypes => VPNTypeOK
  BY DEF ProblemInv, FileInv, VPNTypes, VPNTypeOK
<1>5. LastInv /\ AskedInv /\ BanTypes => BanTypeOK
  <2> SUFFICES ASSUME LastInv, AskedInv, BanTypes PROVE BanTypeOK
    OBVIOUS
  <2>1. ToSet(toAsk) \subseteq Jails
    BY DEF AskedInv, ToSet
  <2> QED
    BY <2>1 DEF LastInv, BanLines, AskedInv, BanTypes, BanTypeOK
<1>6. SshInv => SshTypeOK
  BY DEF SshInv, SshShape, AuthRecords, SshTypeOK
<1>7. LoginsInv => LoginsTypeOK
  BY DEF LoginsInv
<1> QED
  BY <1>1, <1>2, <1>3, <1>4, <1>5, <1>6, <1>7, ProblemInvariance, FileInvariance,
    LastInvariance, AskedInvariance, SshInvariance, LoginsInvariance, PTL DEF Spec

-----------------------------------------------------------------------------
(***************************************************************************)
(* All panels.                                                             *)
(***************************************************************************)
\* A panel without its data says why, whichever of its sources failed and in
\* whichever order (CollectMongo, collectOpenVPN, CollectFail2ban).
THEOREM PanelsSayWhy == Spec => []Explained
<1>1. MongoExplained /\ VPNExplained /\ BanExplained => Explained
  BY DEF Explained
<1> QED
  BY <1>1, MongoSaysWhy, VPNSaysWhy, BanSaysWhy, PTL

\* Every panel keeps its types.
THEOREM PanelsAreTyped == Spec => []TypeOK
<1>1. /\ MongoTypeOK /\ RedisTypeOK /\ RabbitTypeOK
      /\ DploTypeOK /\ DisksTypeOK /\ GoModelTypeOK
      /\ VPNTypeOK /\ BanTypeOK /\ SshTypeOK /\ LoginsTypeOK
      => TypeOK
  BY DEF TypeOK
<1> QED
  BY <1>1, StoresTyped, HostTyped, AccessTyped, PTL
=============================================================================
