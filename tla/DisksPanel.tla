----------------------------- MODULE DisksPanel -----------------------------
(***************************************************************************)
(* The storage panel (CollectDisks, internal/collector/disks.go): one turn *)
(* of a loop per line of the partition table, each of which may ask the    *)
(* file system for its usage, while file systems are mounted and           *)
(* unmounted.  A mount point may have several lines: a mount over a mount, *)
(* a bind mount.  Mount points are numbered in the order of their names;   *)
(* `kernel` lines are those that includeDiskPartition leaves out, by the   *)
(* type of the file system or by the mount point.                          *)
(***************************************************************************)
EXTENDS Integers, SequencesExt, Functions

CONSTANTS
  Mounts,        \* mount points
  MaxPartitions  \* bound: lines of the partition table

VARIABLES
  partitions,  \* disk.Partitions
  line,        \* the loop variable
  kpc,         \* CollectDisks: "start", "loop" or "done"
  noted,       \* `seen`
  disks,       \* the disks listed
  refused      \* ghost: the lines whose file system did not answer

disksVars == <<partitions, line, kpc, noted, disks, refused>>

ASSUME DisksAssumption ==
  Mounts \subseteq Nat /\ MaxPartitions \in Nat

Partitions == [mount : Mounts, kernel : BOOLEAN]

-----------------------------------------------------------------------------
DisksInit ==
  /\ partitions = <<>> /\ line = 1 /\ kpc = "start"
  /\ noted = {} /\ disks = <<>> /\ refused = {}

ListPartitions ==
  /\ kpc = "start" /\ kpc' = "loop"
  /\ partitions' \in UNION {[1..n -> Partitions] : n \in 0..MaxPartitions}
  /\ UNCHANGED <<line, noted, disks, refused>>

\* The error is dropped: no disks.
PartitionsFail ==
  /\ kpc = "start" /\ kpc' = "done"
  /\ UNCHANGED <<partitions, line, noted, disks, refused>>

\* A turn of the loop at a line of mount point m.
Turn(m) ==
  /\ kpc = "loop" /\ line <= Len(partitions) /\ m = partitions[line].mount
  /\ line' = line + 1
  /\ UNCHANGED <<partitions, kpc>>

SkipPartition(m) ==
  /\ Turn(m)
  /\ partitions[line].kernel \/ m \in noted
  /\ UNCHANGED <<noted, disks, refused>>

ReadUsage(m) ==
  /\ Turn(m)
  /\ ~partitions[line].kernel /\ m \notin noted
  /\ noted' = noted \cup {m} /\ disks' = Append(disks, m)
  /\ UNCHANGED refused

\* The file system does not answer, or has no blocks; by the next line of the
\* same mount point another may be mounted there.
UsageFails_Noted(m) ==
  /\ Turn(m)
  /\ ~partitions[line].kernel /\ m \notin noted
  /\ noted' = noted \cup {m} /\ refused' = refused \cup {line}
  /\ UNCHANGED disks

UsageFails(m) ==
  /\ Turn(m)
  /\ ~partitions[line].kernel /\ m \notin noted
  /\ refused' = refused \cup {line}
  /\ UNCHANGED <<noted, disks>>

\* sort.Slice by mount point.
InOrder(s) ==
  LET n == Len(s) IN
    {[i \in 1..n |-> s[p[i]]] :
       p \in {q \in Bijection(1..n, 1..n) :
                \A i, j \in 1..n : i < j => s[q[i]] <= s[q[j]]}}

SortDisks ==
  /\ kpc = "loop" /\ line > Len(partitions) /\ kpc' = "done"
  /\ disks' \in InOrder(disks)
  /\ UNCHANGED <<partitions, line, noted, refused>>

DisksNext ==
  \/ ListPartitions \/ PartitionsFail \/ SortDisks
  \/ \E m \in Mounts : SkipPartition(m) \/ ReadUsage(m) \/ UsageFails(m)
-----------------------------------------------------------------------------
DisksTypeOK ==
  /\ partitions \in Seq(Partitions) /\ line \in 1..(Len(partitions) + 1)
  /\ kpc \in {"start", "loop", "done"}
  /\ noted = ToSet(disks) /\ refused \subseteq 1..(line - 1)

\* In the end every mount point of the table is on the panel, once and in order,
\* or its file system was asked at each of its lines and never answered
\* (CollectDisks notes a mount point only when it has read its usage).
DisksListedOnce ==
  kpc = "done" =>
    /\ \A i, j \in DOMAIN disks : i < j => disks[i] < disks[j]
    /\ \A k \in DOMAIN partitions :
         partitions[k].kernel \/ partitions[k].mount \in ToSet(disks) \/ k \in refused
=============================================================================
