----------------------------- MODULE DploPanel -----------------------------
(***************************************************************************)
(* The dplo panel (CollectDplo, internal/collector/dplo.go): one pass over *)
(* the directory of runs counts those queued or running, and if there are  *)
(* any a second pass looks for one that is running.  dplo works on in the  *)
(* meantime, its meta.json may be caught half written, and listing the     *)
(* directory or reading a file may fail at any time.  Projects, sizes and  *)
(* the health check are single reads and left out.                         *)
(***************************************************************************)
EXTENDS Integers

CONSTANT MaxRun  \* bound: runs are numbered in the order of the directory

ASSUME RunBound == MaxRun \in Nat

VARIABLES
  run,     \* dplo: the state of each run
  dpc,     \* CollectDplo
  entry,   \* the loop variable
  listed,  \* the entries ReadDir returned for this loop
  busy,    \* RunningCount
  active,  \* ActiveRunID, or 0
  orphan,  \* activeDploRun returned a run and no project
  steady   \* ghost: the runs that were running, not written to and
           \* readable since the first ReadDir

dploVars == <<run, dpc, entry, listed, busy, active, orphan, steady>>
loopVars == <<dpc, entry, listed, busy, active, orphan>>

Runs == 1..MaxRun

-----------------------------------------------------------------------------
DploInit ==
  /\ run = [r \in Runs |-> "none"] /\ steady = {}
  /\ dpc = "start" /\ entry = 1 /\ listed = {}
  /\ busy = 0 /\ active = 0 /\ orphan = FALSE

\* What a meta.json says of its run; "torn" is no JSON, "unowned" is running
\* with no projectId.
States == {"none", "torn", "queued", "running", "unowned", "finished"}
Running == {"running", "unowned"}

\* dplo adds or removes a run, or writes its meta.json.
Update(r) ==
  /\ \E s \in States : run' = [run EXCEPT ![r] = s]
  /\ steady' = steady \ {r}
  /\ UNCHANGED loopVars

\* os.ReadDir, before each loop.
List(from, to) ==
  /\ dpc = from /\ dpc' = to
  /\ listed' = {r \in Runs : run[r] # "none"} /\ entry' = 1
  /\ steady' = IF from = "start" THEN {r \in Runs : run[r] \in Running} ELSE steady
  /\ UNCHANGED <<run, busy, active, orphan>>

\* The directory cannot be listed: no run counts, and none is named.
ListFails ==
  /\ dpc \in {"start", "busy"} /\ dpc' = "done"
  /\ steady' = {}
  /\ UNCHANGED <<run, entry, listed, busy, active, orphan>>

\* A listed file that cannot be read is skipped by both loops.
SkipUnread ==
  /\ dpc \in {"count", "search"} /\ entry <= MaxRun
  /\ entry \in listed /\ entry' = entry + 1
  /\ steady' = steady \ {entry}
  /\ UNCHANGED <<run, dpc, listed, busy, active, orphan>>

\* countDploRuns
Counts == Running \cup {"queued"}

CountRun ==
  /\ dpc = "count" /\ entry <= MaxRun
  /\ entry' = entry + 1
  /\ busy' = IF entry \in listed /\ run[entry] \in Counts THEN busy + 1 ELSE busy
  /\ UNCHANGED <<run, dpc, listed, active, orphan, steady>>

Counted ==
  /\ dpc = "count" /\ entry > MaxRun
  /\ dpc' = IF busy > 0 THEN "busy" ELSE "done"
  /\ UNCHANGED <<run, entry, listed, busy, active, orphan, steady>>

\* activeDploRun returned the run r and its project: with none, nothing is named.
Found(r) ==
  /\ dpc' = "done"
  /\ orphan' = (run[r] = "unowned")
  /\ active' = IF run[r] = "running" THEN r ELSE 0

\* activeDploRun: the first entry that is running; a queued one is passed over.
SearchRun_First ==
  /\ dpc = "search" /\ entry <= MaxRun
  /\ IF entry \in listed
       THEN Found(entry) /\ UNCHANGED entry
       ELSE entry' = entry + 1 /\ UNCHANGED <<dpc, active, orphan>>
  /\ UNCHANGED <<run, listed, busy, steady>>

SearchRun ==
  /\ dpc = "search" /\ entry <= MaxRun
  /\ IF entry \in listed /\ run[entry] \in Running
       THEN Found(entry) /\ UNCHANGED entry
       ELSE entry' = entry + 1 /\ UNCHANGED <<dpc, active, orphan>>
  /\ UNCHANGED <<run, listed, busy, steady>>

NotFound ==
  /\ dpc = "search" /\ entry > MaxRun /\ dpc' = "done"
  /\ UNCHANGED <<run, entry, listed, busy, active, orphan, steady>>

DploNext ==
  \/ \E r \in Runs : Update(r)
  \/ ListFails \/ SkipUnread
  \/ List("start", "count") \/ CountRun \/ Counted
  \/ List("busy", "search") \/ SearchRun \/ NotFound
-----------------------------------------------------------------------------
DploTypeOK ==
  /\ run \in [Runs -> States] /\ steady \subseteq Runs /\ listed \subseteq Runs
  /\ dpc \in {"start", "count", "busy", "search", "done"}
  /\ entry \in 1..(MaxRun + 1) /\ busy \in 0..MaxRun /\ active \in 0..MaxRun
  /\ orphan \in BOOLEAN

\* While a run was running and readable all along, the runner is busy and a
\* run is named, or a run without a project came first, although the two
\* passes see different states of dplo and skip what they cannot read
\* (CollectDplo).
RunningNotMissed ==
  (dpc = "done" /\ steady # {}) => (busy > 0 /\ (active # 0 \/ orphan))
=============================================================================
