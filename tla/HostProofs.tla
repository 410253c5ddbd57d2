----------------------------- MODULE HostProofs -----------------------------
(***************************************************************************)
(* Proofs about the panels of what the host runs (DploPanel, DisksPanel,   *)
(* GoModelPanel), as they run in Probes.                                   *)
(***************************************************************************)
EXTENDS Probes, FiniteFacts

-----------------------------------------------------------------------------
\* A step of Probes is a step of the panel, or leaves its variables alone.
LEMMA HostSteps ==
  ASSUME [Next]_vars
  PROVE  [DploNext]_dploVars /\ [DisksNext]_disksVars /\ [GoModelNext]_gomodelVars
  BY DEF Next, StoresNext, HostNext, AccessNext, vars, hostVars

-----------------------------------------------------------------------------
(***************************************************************************)
(* dplo.  A run that is running and readable all along is in both lists;   *)
(* the first pass counts it when it comes by, and the second does not end  *)
(* before it without having met another running one.                       *)
(***************************************************************************)
DploShape ==
  /\ run \in [Runs -> States] /\ steady \subseteq Runs /\ listed \subseteq Runs
  /\ dpc \in {"start", "count", "busy", "search", "done"}
  /\ entry \in Nat \ {0} /\ busy \in Nat /\ active \in Nat
  /\ orphan \in BOOLEAN

SteadyInv ==
  /\ \A r \in steady : run[r] \in Running
  /\ dpc = "start" => steady = {}
  /\ dpc = "count" => steady \subseteq listed /\ \A r \in steady : r < entry => busy > 0
  /\ dpc \in {"busy", "search"} => busy > 0
  /\ dpc = "search" => steady \subseteq listed /\ \A r \in steady : r >= entry
  /\ RunningNotMissed

DploInv == DploShape /\ SteadyInv

LEMMA DploStarts == DploInit => DploInv
<1> SUFFICES ASSUME DploInit PROVE DploInv
  OBVIOUS
<1>1. orphan \in BOOLEAN
  BY Zenon DEF DploInit
<1> QED
  BY <1>1 DEF DploInit, DploInv, DploShape, SteadyInv, RunningNotMissed, States

LEMMA DploShapeStep ==
  ASSUME DploShape, [DploNext]_dploVars
  PROVE  DploShape'
<1> USE DEF DploShape
<1>1. CASE \E r \in Runs : Update(r)
  BY <1>1 DEF Update, loopVars
<1>2. CASE List("start", "count") \/ List("busy", "search")
  BY <1>2 DEF List
<1>3. CASE CountRun
  BY <1>3 DEF CountRun
<1>4. CASE Counted
  BY <1>4 DEF Counted
<1>5. CASE SearchRun
  <2>1. orphan' \in BOOLEAN
    BY <1>5, Zenon DEF SearchRun, Found
  <2> QED
    BY <1>5, <2>1 DEF SearchRun, Found
<1>6. CASE NotFound \/ ListFails \/ SkipUnread
  BY <1>6 DEF NotFound, ListFails, SkipUnread
<1>7. CASE UNCHANGED dploVars
  BY <1>7 DEF dploVars
<1> QED
  BY <1>1, <1>2, <1>3, <1>4, <1>5, <1>6, <1>7 DEF DploNext

LEMMA SteadyStep ==
  ASSUME DploInv, [DploNext]_dploVars
  PROVE  SteadyInv'
<1> USE DEF SteadyInv, RunningNotMissed
<1>0. SteadyInv /\ DploShape /\ MaxRun \in Nat /\ \A r \in Runs : r \in Nat /\ r <= MaxRun /\ r > 0
  BY RunBound DEF DploInv, Runs
<1>1. CASE \E r \in Runs : Update(r)
  BY <1>0, <1>1 DEF Update, loopVars, DploShape
<1>2. CASE List("start", "count")
  BY <1>0, <1>2 DEF List, DploShape, Running
<1>3. CASE List("busy", "search")
  BY <1>0, <1>3 DEF List, DploShape, Running
<1>4. CASE CountRun
  BY <1>0, <1>4 DEF CountRun, DploShape, Counts, Running
<1>5. CASE Counted
  BY <1>0, <1>5 DEF Counted, DploShape
<1>6. CASE SearchRun
  <2>1. CASE entry \in listed /\ run[entry] \in Running
    <3>1. dpc' = "done" /\ busy' = busy /\ busy > 0 /\ steady' = steady /\ run' = run
      BY <1>0, <1>6, <2>1 DEF SearchRun, Found
    <3>2. active' # 0 \/ orphan'
      BY <1>0, <1>6, <2>1 DEF SearchRun, Found, Running, DploShape
    <3> QED
      BY <1>0, <3>1, <3>2
  <2>2. CASE ~(entry \in listed /\ run[entry] \in Running)
    BY <1>0, <1>6, <2>2 DEF SearchRun, DploShape
  <2> QED
    BY <2>1, <2>2
<1>7. CASE NotFound
  BY <1>0, <1>7 DEF NotFound, DploShape
<1>8. CASE UNCHANGED dploVars
  BY <1>0, <1>8 DEF dploVars
<1>9. CASE ListFails
  BY <1>0, <1>9 DEF ListFails
<1>10. CASE SkipUnread
  BY <1>0, <1>10 DEF SkipUnread, DploShape
<1> QED
  BY <1>1, <1>2, <1>3, <1>4, <1>5, <1>6, <1>7, <1>8, <1>9, <1>10 DEF DploNext

\* What the passes owe a run that is running all along, in every reachable state.
LEMMA DploInvariance == Spec => []DploInv
<1>1. Init => DploInv
  BY DploStarts DEF Init
<1>2. DploInv /\ [Next]_vars => DploInv'
  BY DploShapeStep, SteadyStep, HostSteps DEF DploInv
<1> QED
  BY <1>1, <1>2, PTL DEF Spec

\* While a run was running and readable all along, the runner is busy, and a run
\* is named unless one without a project came first (CollectDplo,
\* countDploRuns and activeDploRun).
THEOREM RunningIsSeen == Spec => []RunningNotMissed
<1>1. DploInv => RunningNotMissed
  BY DEF DploInv, SteadyInv
<1> QED
  BY <1>1, DploInvariance, PTL

-----------------------------------------------------------------------------
(***************************************************************************)
(* GoModel.  Between the two answers a model that lasts is in the          *)
(* inventory, if it has a name, and still served.                          *)
(***************************************************************************)
GatewayInv ==
  /\ enabled \subseteq Catalog /\ served \subseteq Catalog /\ inventory \subseteq Catalog
  /\ gpc \in {"start", "inventory", "live", "done"}
  /\ gpc \in {"start", "inventory", "live"} => ~llm.available /\ llm.models = {}
  /\ gpc \in {"start", "inventory"} => lasting = {}
  /\ gpc = "live" =>
       lasting \subseteq served /\ \A m \in lasting : Selector(m) # <<>> => m \in inventory

GoModelInv == GatewayInv /\ ServedIsUp /\ UpWasServed

LEMMA GoModelStarts == GoModelInit => GoModelInv
  BY DEF GoModelInit, GoModelInv, GatewayInv, ServedIsUp, UpWasServed, NoModels

LEMMA GatewayStep ==
  ASSUME GatewayInv, [GoModelNext]_gomodelVars
  PROVE  GatewayInv'
<1> USE DEF GatewayInv
<1>1. CASE GatewayChanges
  BY <1>1 DEF GatewayChanges
<1>2. CASE GoModelConfigured
  BY <1>2 DEF GoModelConfigured, gatewayVars
<1>3. CASE Inventory
  BY <1>3 DEF Inventory, gatewayVars
<1>4. CASE Live
  BY <1>4 DEF Live, gatewayVars
<1>5. CASE RequestFails
  BY <1>5 DEF RequestFails, gatewayVars
<1>6. CASE UNCHANGED gomodelVars
  BY <1>6 DEF gomodelVars
<1> QED
  BY <1>1, <1>2, <1>3, <1>4, <1>5, <1>6 DEF GoModelNext

\* A model with a name that is served is up, whichever list of names is given; and
\* one that shares no name with another is only up if it is served.
LEMMA UpBecauseServed ==
  ASSUME served \subseteq Catalog, NEW live \in LiveLists, NEW m
  PROVE  /\ m \in served /\ Selector(m) # <<>> => IsUp(m, live)
         /\ IsUp(m, live) /\ (\A o \in Catalog \ {m} : Names(o) \cap Names(m) = {}) =>
              m \in served
<1>1. Selector(m) # <<>> => Names(m) # {}
  BY DEF Names
<1>2. /\ live \subseteq UNION {Names(o) : o \in served}
      /\ \A o \in served : Names(o) \cap live # {} \/ Names(o) = {}
  BY DEF LiveLists
<1>3. m \in served /\ Selector(m) # <<>> => IsUp(m, live)
  BY <1>1, <1>2 DEF IsUp
<1>4. ASSUME IsUp(m, live), \A o \in Catalog \ {m} : Names(o) \cap Names(m) = {}
      PROVE  m \in served
  <2>1. PICK x : x \in Names(m) /\ x \in live
    BY <1>4 DEF IsUp
  <2>2. PICK o \in served : x \in Names(o)
    BY <1>2, <2>1
  <2> QED
    BY <1>4, <2>1, <2>2
<1> QED
  BY <1>3, <1>4

LEMMA JoinStep ==
  ASSUME GoModelInv, [GoModelNext]_gomodelVars
  PROVE  ServedIsUp' /\ UpWasServed'
<1> USE DEF ServedIsUp, UpWasServed
<1>0. GatewayInv /\ ServedIsUp /\ UpWasServed
  BY DEF GoModelInv
<1>1. CASE GatewayChanges
  BY <1>0, <1>1 DEF GatewayChanges, GatewayInv
<1>2. CASE GoModelConfigured
  <2>1. ~llm'.available /\ llm'.models = {}
    BY <1>0, <1>2 DEF GoModelConfigured, GatewayInv, NoModels
  <2> QED
    BY <2>1
<1>3. CASE Inventory
  <2>1. ~llm'.available /\ llm'.models = {}
    BY <1>0, <1>3 DEF Inventory, GatewayInv
  <2> QED
    BY <2>1
<1>4. CASE Live
  <2>1. PICK live \in LiveLists :
          llm' = [available |-> TRUE, error |-> "none",
                  models |-> {[of |-> m, available |-> IsUp(m, live)] : m \in inventory}]
    BY <1>4 DEF Live
  <2>2. lasting' = lasting /\ asked' = served /\ gpc = "live" /\ served \subseteq Catalog
    BY <1>0, <1>4 DEF Live, GatewayInv
  <2>3. llm'.models = {[of |-> m, available |-> IsUp(m, live)] : m \in inventory}
    BY <2>1
  <2> HIDE <2>1
  <2>4. ASSUME NEW m \in lasting, Selector(m) # <<>>
        PROVE  [of |-> m, available |-> TRUE] \in llm'.models
    <3>1. m \in served /\ m \in inventory
      BY <1>0, <2>2, <2>4 DEF GatewayInv
    <3>2. IsUp(m, live) = TRUE
      BY <2>2, <2>4, <3>1, UpBecauseServed DEF IsUp
    <3> QED
      BY <2>3, <3>1, <3>2
  <2>5. ASSUME NEW r \in llm'.models, r.available,
               \A m \in Catalog \ {r.of} : Names(m) \cap Names(r.of) = {}
        PROVE  r.of \in asked'
    <3>1. PICK m \in inventory : r = [of |-> m, available |-> IsUp(m, live)]
      BY <2>3
    <3>2. r.of = m /\ IsUp(m, live)
      BY <2>5, <3>1
    <3> QED
      BY <2>2, <2>5, <3>2, UpBecauseServed
  <2> QED
    BY <2>2, <2>4, <2>5
<1>5. CASE RequestFails
  <2>1. ~llm'.available /\ llm'.models = {}
    BY <1>5 DEF RequestFails, NoModels
  <2> QED
    BY <2>1
<1>6. CASE UNCHANGED gomodelVars
  BY <1>0, <1>6 DEF gomodelVars
<1> QED
  BY <1>1, <1>2, <1>3, <1>4, <1>5, <1>6 DEF GoModelNext

\* The two answers and their join, in every reachable state.
LEMMA GoModelInvariance == Spec => []GoModelInv
<1>1. Init => GoModelInv
  BY GoModelStarts DEF Init
<1>2. GoModelInv /\ [Next]_vars => GoModelInv'
  BY GatewayStep, JoinStep, HostSteps DEF GoModelInv
<1> QED
  BY <1>1, <1>2, PTL DEF Spec

\* A model enabled and served all the while is shown as up, by whichever of its
\* names the gateway lists it (CollectGoModel, modelLive).
THEOREM ServedIsShownUp == Spec => []ServedIsUp
<1>1. GoModelInv => ServedIsUp
  BY DEF GoModelInv
<1> QED
  BY <1>1, GoModelInvariance, PTL

\* A model shown as up was served, if it shares no name with another (modelLive).
THEOREM ShownUpWasServed == Spec => []UpWasServed
<1>1. GoModelInv => UpWasServed
  BY DEF GoModelInv
<1> QED
  BY <1>1, GoModelInvariance, PTL

-----------------------------------------------------------------------------
(***************************************************************************)
(* Disks.  The mount points noted are those listed, each of them once, and *)
(* the lines behind the loop are accounted for.                            *)
(***************************************************************************)
Distinct(s) == \A i, j \in DOMAIN s : i # j => s[i] # s[j]

Accounted(k) ==
  partitions[k].kernel \/ partitions[k].mount \in ToSet(disks) \/ k \in refused

DisksShape ==
  /\ kpc \in {"start", "loop", "done"} /\ line \in Nat \ {0}
  /\ partitions \in Seq(Partitions) /\ disks \in Seq(Mounts)
  /\ noted = ToSet(disks)

AccountedInv ==
  /\ kpc = "start" => partitions = <<>> /\ disks = <<>> /\ line = 1
  /\ Distinct(disks)
  /\ kpc # "done" => \A k \in DOMAIN partitions : k < line => Accounted(k)
  /\ DisksListedOnce

DisksInv == DisksShape /\ AccountedInv

\* What Append and a permutation do to the elements of a sequence.
LEMMA AppendToSet ==
  ASSUME NEW S, NEW s \in Seq(S), NEW e \in S
  PROVE  /\ Append(s, e) \in Seq(S) /\ ToSet(Append(s, e)) = ToSet(s) \cup {e}
         /\ (Distinct(s) /\ e \notin ToSet(s)) => Distinct(Append(s, e))
<1>1. /\ Len(s) \in Nat /\ DOMAIN s = 1..Len(s)
      /\ Append(s, e) \in Seq(S) /\ DOMAIN Append(s, e) = 1..(Len(s) + 1)
      /\ \A i \in 1..Len(s) : Append(s, e)[i] = s[i]
      /\ Append(s, e)[Len(s) + 1] = e
  BY AppendProperties, LenProperties
<1>2. \A i \in 1..(Len(s) + 1) : i \in 1..Len(s) \/ i = Len(s) + 1
  BY <1>1
<1>3. Len(s) + 1 \in 1..(Len(s) + 1) /\ \A i \in 1..Len(s) : i \in 1..(Len(s) + 1)
  BY <1>1
<1> QED
  BY <1>1, <1>2, <1>3 DEF ToSet, Distinct

LEMMA InOrderKeeps ==
  ASSUME NEW s \in Seq(Mounts), NEW t \in InOrder(s)
  PROVE  /\ t \in Seq(Mounts) /\ ToSet(t) = ToSet(s)
         /\ Distinct(s) => \A i, j \in DOMAIN t : i < j => t[i] < t[j]
<1> DEFINE n == Len(s)
<1>1. n \in Nat /\ DOMAIN s = 1..n /\ \A i \in 1..n : s[i] \in Mounts
  BY LenProperties, ElementOfSeq
<1>2. PICK p \in Bijection(1..n, 1..n) :
        /\ t = [i \in 1..n |-> s[p[i]]]
        /\ \A i, j \in 1..n : i < j => s[p[i]] <= s[p[j]]
  BY DEF InOrder
<1> HIDE DEF n
<1>3. /\ p \in [1..n -> 1..n] /\ \A i, j \in 1..n : p[i] = p[j] => i = j
      /\ \A k \in 1..n : \E i \in 1..n : p[i] = k
  BY DEF Bijection, Injection, IsInjective, Surjection
<1>4. t \in [1..n -> Mounts] /\ DOMAIN t = 1..n
  BY <1>1, <1>2, <1>3
<1>5. t \in Seq(Mounts)
  BY <1>1, <1>4, SeqDef
<1>6. ToSet(t) = ToSet(s)
  <2>1. \A x \in ToSet(t) : x \in ToSet(s)
    BY <1>1, <1>2, <1>3, <1>4 DEF ToSet
  <2>2. \A x \in ToSet(s) : x \in ToSet(t)
    BY <1>1, <1>2, <1>3, <1>4 DEF ToSet
  <2> QED
    BY <2>1, <2>2
<1>7. ASSUME Distinct(s), NEW i \in 1..n, NEW j \in 1..n, i < j
      PROVE  t[i] < t[j]
  <2>1. p[i] \in 1..n /\ p[j] \in 1..n /\ p[i] # p[j]
    BY <1>1, <1>3, <1>7
  <2>2. s[p[i]] # s[p[j]] /\ s[p[i]] <= s[p[j]]
    BY <1>1, <1>2, <1>7, <2>1 DEF Distinct
  <2>3. s[p[i]] \in Nat /\ s[p[j]] \in Nat
    BY <1>1, <2>1, DisksAssumption
  <2>4. t[i] = s[p[i]] /\ t[j] = s[p[j]]
    BY <1>2
  <2> QED
    BY <2>2, <2>3, <2>4
<1> QED
  BY <1>4, <1>5, <1>6, <1>7

LEMMA DisksStart == DisksInit => DisksInv
<1> SUFFICES ASSUME DisksInit PROVE DisksInv
  OBVIOUS
<1>1. partitions = <<>> /\ disks = <<>> /\ noted = {} /\ kpc = "start" /\ line = 1
  BY DEF DisksInit
<1>2. ToSet(disks) = {}
  BY <1>1 DEF ToSet
<1> QED
  BY <1>1, <1>2, EmptySeq DEF DisksInv, DisksShape, AccountedInv, Distinct, DisksListedOnce

\* A turn of the loop leaves the lines behind it accounted for.
LEMMA TurnStep ==
  ASSUME DisksInv, NEW m \in Mounts, SkipPartition(m) \/ ReadUsage(m) \/ UsageFails(m)
  PROVE  DisksInv'
<1>1. /\ kpc = "loop" /\ line \in DOMAIN partitions /\ partitions[line].mount = m
      /\ line' = line + 1 /\ UNCHANGED <<partitions, kpc>>
      /\ line \in Nat /\ partitions \in Seq(Partitions) /\ disks \in Seq(Mounts)
      /\ noted = ToSet(disks) /\ Distinct(disks)
      /\ \A k \in DOMAIN partitions : k \in Nat
  <2>1. kpc = "loop" /\ line <= Len(partitions) /\ m = partitions[line].mount
        /\ line' = line + 1 /\ UNCHANGED <<partitions, kpc>>
    BY DEF SkipPartition, ReadUsage, UsageFails, Turn
  <2>2. /\ line \in Nat /\ partitions \in Seq(Partitions) /\ disks \in Seq(Mounts)
        /\ noted = ToSet(disks) /\ Distinct(disks)
    BY DEF DisksInv, DisksShape, AccountedInv
  <2>3. Len(partitions) \in Nat /\ DOMAIN partitions = 1..Len(partitions)
    BY <2>2, LenProperties
  <2>4. line \in DOMAIN partitions /\ \A k \in DOMAIN partitions : k \in Nat
    <3> HIDE DEF DisksInv
    <3>1. line # 0
      BY DEF DisksInv, DisksShape
    <3> QED
      BY <2>1, <2>2, <2>3, <3>1
  <2> QED
    BY <2>1, <2>2, <2>4
<1>2. \A k \in DOMAIN partitions : k < line + 1 => k = line \/ k < line
  BY <1>1
<1>3. \A k \in DOMAIN partitions : k < line => Accounted(k)
  BY <1>1 DEF DisksInv, AccountedInv
<1>4. CASE SkipPartition(m)
  <2>1. Accounted(line) /\ UNCHANGED <<noted, disks, refused>>
    BY <1>1, <1>4 DEF SkipPartition, Accounted
  <2> QED
    BY <1>1, <1>2, <1>3, <2>1 DEF DisksInv, DisksShape, AccountedInv, Accounted, DisksListedOnce
<1>5. CASE ReadUsage(m)
  <2>1. /\ m \notin ToSet(disks) /\ noted' = noted \cup {m}
        /\ disks' = Append(disks, m) /\ UNCHANGED refused
    BY <1>1, <1>5 DEF ReadUsage
  <2>2. /\ disks' \in Seq(Mounts) /\ ToSet(disks') = ToSet(disks) \cup {m}
        /\ Distinct(disks')
    BY <1>1, <2>1, AppendToSet
  <2> QED
    BY <1>1, <1>2, <1>3, <2>1, <2>2
    DEF DisksInv, DisksShape, AccountedInv, Accounted, DisksListedOnce
<1>6. CASE UsageFails(m)
  <2>1. refused' = refused \cup {line} /\ UNCHANGED <<noted, disks>>
    BY <1>6 DEF UsageFails
  <2> QED
    BY <1>1, <1>2, <1>3, <2>1
    DEF DisksInv, DisksShape, AccountedInv, Accounted, DisksListedOnce
<1> QED
  BY <1>4, <1>5, <1>6

LEMMA DisksStep ==
  ASSUME DisksInv, [DisksNext]_disksVars
  PROVE  DisksInv'
<1>0. /\ kpc = "start" => partitions = <<>> /\ disks = <<>> /\ line = 1
      /\ Distinct(disks) /\ disks \in Seq(Mounts) /\ partitions \in Seq(Partitions)
      /\ noted = ToSet(disks) /\ line \in Nat
      /\ kpc # "done" => \A k \in DOMAIN partitions : k < line => Accounted(k)
      /\ DisksListedOnce
  BY DEF DisksInv, DisksShape, AccountedInv
<1>1. CASE ListPartitions
  <2>1. kpc = "start" /\ kpc' = "loop" /\ UNCHANGED <<line, noted, disks, refused>>
    BY <1>1 DEF ListPartitions
  <2>2. PICK n \in 0..MaxPartitions : partitions' \in [1..n -> Partitions]
    BY <1>1 DEF ListPartitions
  <2>3. n \in Nat
    BY DisksAssumption
  <2>4. partitions' \in Seq(Partitions) /\ DOMAIN partitions' = 1..n
    BY <2>2, <2>3, SeqDef
  <2> QED
    BY <1>0, <2>1, <2>4
    DEF DisksInv, DisksShape, AccountedInv, Accounted, DisksListedOnce
<1>2. CASE PartitionsFail
  <2>1. kpc = "start" /\ kpc' = "done" /\ UNCHANGED <<partitions, line, noted, disks, refused>>
    BY <1>2 DEF PartitionsFail
  <2>2. partitions = <<>> /\ disks = <<>>
    BY <1>0, <2>1
  <2> QED
    BY <1>0, <2>1, <2>2
    DEF DisksInv, DisksShape, AccountedInv, Accounted, DisksListedOnce
<1>3. CASE SortDisks
  <2>1. /\ kpc = "loop" /\ line > Len(partitions) /\ kpc' = "done"
        /\ disks' \in InOrder(disks) /\ UNCHANGED <<partitions, line, noted, refused>>
    BY <1>3 DEF SortDisks
  <2>2. /\ disks' \in Seq(Mounts) /\ ToSet(disks') = ToSet(disks)
        /\ \A i, j \in DOMAIN disks' : i < j => disks'[i] < disks'[j]
    BY <1>0, <2>1, InOrderKeeps
  <2>3. \A i \in DOMAIN disks' : i \in Nat /\ disks'[i] \in Nat
    <3>1. Len(disks') \in Nat /\ DOMAIN disks' = 1..Len(disks')
      BY <2>2, LenProperties
    <3>2. \A i \in 1..Len(disks') : disks'[i] \in Mounts
      BY <2>2, ElementOfSeq
    <3>3. \A i \in 1..Len(disks') : i \in Nat
      BY <3>1
    <3>4. Mounts \subseteq Nat
      BY DisksAssumption
    <3> HIDE DEF InOrder
    <3> QED
      BY <3>1, <3>2, <3>3, <3>4
  <2>4. Distinct(disks')
    BY <2>2, <2>3 DEF Distinct
  <2>5. \A k \in DOMAIN partitions : k < line
    BY <1>0, <2>1
  <2>6. \A k \in DOMAIN partitions : Accounted(k)
    BY <1>0, <2>1, <2>5
  <2> QED
    BY <1>0, <2>1, <2>2, <2>4, <2>6
    DEF DisksInv, DisksShape, AccountedInv, Accounted, DisksListedOnce
<1>4. CASE \E m \in Mounts : SkipPartition(m) \/ ReadUsage(m) \/ UsageFails(m)
  BY <1>4, TurnStep
<1>5. CASE UNCHANGED disksVars
  BY <1>5 DEF disksVars, DisksInv, DisksShape, AccountedInv, Accounted, DisksListedOnce, Distinct
<1> QED
  BY <1>1, <1>2, <1>3, <1>4, <1>5 DEF DisksNext

\* What is noted, listed and accounted for, in every reachable state.
LEMMA DisksInvariance == Spec => []DisksInv
<1>1. Init => DisksInv
  BY DisksStart DEF Init
<1>2. DisksInv /\ [Next]_vars => DisksInv'
  BY DisksStep, HostSteps
<1> QED
  BY <1>1, <1>2, PTL DEF Spec

\* Every mount point of the table is listed, once and in order, or its file system
\* never answered (CollectDisks).
THEOREM MountsListedOnce == Spec => []DisksListedOnce
<1>1. DisksInv => DisksListedOnce
  BY DEF DisksInv, AccountedInv
<1> QED
  BY <1>1, DisksInvariance, PTL

-----------------------------------------------------------------------------
(***************************************************************************)
(* The types of the three panels.  A loop has counted no more runs than it *)
(* has passed entries, and refused no line that it has not read.           *)
(***************************************************************************)
CountInv ==
  /\ entry \in 1..(MaxRun + 1) /\ busy \in 0..MaxRun /\ active \in 0..MaxRun
  /\ dpc = "start" => busy = 0
  /\ dpc = "count" => busy < entry

LEMMA CountStep ==
  ASSUME CountInv, [DploNext]_dploVars
  PROVE  CountInv'
<1> USE RunBound DEF CountInv
<1>1. CASE \E r \in Runs : Update(r)
  BY <1>1 DEF Update, loopVars
<1>2. CASE List("start", "count") \/ List("busy", "search")
  BY <1>2 DEF List
<1>3. CASE CountRun
  <2>1. entry <= MaxRun /\ entry' = entry + 1 /\ dpc = "count" /\ UNCHANGED <<dpc, active>>
    BY <1>3 DEF CountRun
  <2>2. busy' = busy + 1 \/ busy' = busy
    BY <1>3 DEF CountRun
  <2> QED
    BY <2>1, <2>2
<1>4. CASE Counted
  BY <1>4 DEF Counted
<1>5. CASE SearchRun
  BY <1>5 DEF SearchRun, Found
<1>6. CASE NotFound \/ ListFails \/ SkipUnread
  BY <1>6 DEF NotFound, ListFails, SkipUnread
<1>7. CASE UNCHANGED dploVars
  BY <1>7 DEF dploVars
<1> QED
  BY <1>1, <1>2, <1>3, <1>4, <1>5, <1>6, <1>7 DEF DploNext

LineInv ==
  /\ kpc = "start" => line = 1
  /\ line <= Len(partitions) + 1 /\ refused \subseteq 1..(line - 1)

LEMMA LineStep ==
  ASSUME DisksShape, LineInv, DisksShape', [DisksNext]_disksVars
  PROVE  LineInv'
<1> USE DEF LineInv
<1>0. Len(partitions) \in Nat /\ Len(partitions') \in Nat /\ line \in Nat \ {0}
  BY LenProperties DEF DisksShape
<1>1. CASE ListPartitions
  BY <1>0, <1>1 DEF ListPartitions
<1>2. CASE PartitionsFail
  BY <1>2 DEF PartitionsFail
<1>3. CASE \E m \in Mounts : SkipPartition(m) \/ ReadUsage(m) \/ UsageFails(m)
  <2>1. /\ line' = line + 1 /\ partitions' = partitions /\ line <= Len(partitions)
        /\ kpc = "loop" /\ kpc' = kpc
    BY <1>3 DEF SkipPartition, ReadUsage, UsageFails, Turn
  <2>2. refused' \subseteq refused \cup {line}
    BY <1>3 DEF SkipPartition, ReadUsage, UsageFails
  <2> QED
    BY <1>0, <2>1, <2>2
<1>4. CASE SortDisks
  BY <1>4 DEF SortDisks
<1>5. CASE UNCHANGED disksVars
  BY <1>5 DEF disksVars
<1> QED
  BY <1>1, <1>2, <1>3, <1>4, <1>5 DEF DisksNext

AnswerTypes ==
  /\ asked \subseteq Catalog /\ lasting \subseteq Catalog /\ keyed \in BOOLEAN
  /\ llm.models \subseteq [of : Catalog, available : BOOLEAN]

LEMMA AnswerStep ==
  ASSUME GatewayInv, AnswerTypes, [GoModelNext]_gomodelVars
  PROVE  AnswerTypes'
<1> USE DEF AnswerTypes, gatewayVars
<1>0. served \subseteq Catalog /\ enabled \subseteq Catalog /\ inventory \subseteq Catalog
  BY DEF GatewayInv
<1>1. CASE GatewayChanges
  BY <1>1 DEF GatewayChanges
<1>2. CASE GoModelConfigured
  BY <1>2 DEF GoModelConfigured, NoModels
<1>3. CASE Inventory
  BY <1>0, <1>3 DEF Inventory
<1>4. CASE Live
  <2>1. PICK live \in LiveLists :
          llm' = [available |-> TRUE, error |-> "none",
                  models |-> {[of |-> m, available |-> IsUp(m, live)] : m \in inventory}]
    BY <1>4 DEF Live
  <2>2. \A m \in inventory : IsUp(m, live) \in BOOLEAN
    BY DEF IsUp
  <2>3. llm'.models \subseteq [of : Catalog, available : BOOLEAN]
    BY <1>0, <2>1, <2>2
  <2>4. asked' = served /\ UNCHANGED <<keyed, lasting>>
    BY <1>4 DEF Live
  <2> QED
    BY <1>0, <2>3, <2>4
<1>5. CASE RequestFails
  BY <1>5 DEF RequestFails, NoModels
<1>6. CASE UNCHANGED gomodelVars
  BY <1>6 DEF gomodelVars
<1> QED
  BY <1>1, <1>2, <1>3, <1>4, <1>5, <1>6 DEF GoModelNext

\* The panels of what the host runs keep their types (CollectDplo, CollectDisks,
\* CollectGoModel): no more runs busy than there are.
LEMMA HostTyped == Spec => [](DploTypeOK /\ DisksTypeOK /\ GoModelTypeOK)
<1>1. Init => CountInv /\ LineInv /\ AnswerTypes
  <2> SUFFICES ASSUME Init PROVE CountInv /\ LineInv /\ AnswerTypes
    OBVIOUS
  <2>1. CountInv
    BY RunBound DEF Init, DploInit, CountInv
  <2>2. LineInv
    BY DEF Init, DisksInit, LineInv
  <2>3. AnswerTypes
    BY DEF Init, GoModelInit, AnswerTypes, NoModels
  <2> QED
    BY <2>1, <2>2, <2>3
<1>2. CountInv /\ [Next]_vars => CountInv'
  BY CountStep, HostSteps
<1>3. DisksInv /\ DisksInv' /\ LineInv /\ [Next]_vars => LineInv'
  BY LineStep, HostSteps DEF DisksInv
<1>4. GoModelInv /\ AnswerTypes /\ [Next]_vars => AnswerTypes'
  BY AnswerStep, HostSteps DEF GoModelInv
<1>5. DploInv /\ CountInv => DploTypeOK
  BY DEF DploInv, DploShape, CountInv, DploTypeOK
<1>6. DisksInv /\ LineInv => DisksTypeOK
  <2> SUFFICES ASSUME DisksInv, LineInv PROVE DisksTypeOK
    OBVIOUS
  <2>1. Len(partitions) \in Nat
    BY LenProperties DEF DisksInv, DisksShape
  <2> QED
    BY <2>1 DEF DisksInv, DisksShape, LineInv, DisksTypeOK
<1>7. GoModelInv /\ AnswerTypes => GoModelTypeOK
  BY DEF GoModelInv, GatewayInv, AnswerTypes, GoModelTypeOK
<1> QED
  BY <1>1, <1>2, <1>3, <1>4, <1>5, <1>6, <1>7, DploInvariance, DisksInvariance,
    GoModelInvariance, PTL DEF Spec
=============================================================================
