----------------------------- MODULE MCHistory -----------------------------
(* Small instances of History for TLC. *)
EXTENDS History

RightClock == {0}
OffClock == {0, -2}
LegacyFile == {-2, -1}  \* one millisecond, when it has two ticks
============================================================================
