--------------------------- MODULE DigestPromise ---------------------------
(***************************************************************************)
(* What mogotor promises about its daily digest (README.md, digest_test.go *)
(* TestShouldSendDailyAtNineBerlinOnce), with no process, file or webhook  *)
(* in sight: digests reach the channel in the order of their days, none for a *)
(* day that has not come, and no second one for a day unless mogotor lost  *)
(* track of the first, by a slip, in between.                              *)
(***************************************************************************)
EXTENDS Naturals, Sequences

VARIABLES
  today,    \* the Berlin date, as a count of days
  digests,  \* what the channel received, with the slips until then, in order
  slips     \* the failures so far that lose track of a digest

Init == today = 0 /\ digests = <<>> /\ slips = 0

NewDay == today' = today + 1 /\ UNCHANGED <<digests, slips>>

Slip == slips' = slips + 1 /\ UNCHANGED <<today, digests>>

\* The slip may be this very delivery: received, but not known to be.
Deliver ==
  /\ \E d \in 0..today :
       /\ \A i \in 1..Len(digests) : digests[i].day <= d
       /\ \A i \in 1..Len(digests) : digests[i].slips = slips => digests[i].day < d
       /\ digests' = Append(digests, [day |-> d, slips |-> slips])
  /\ slips' \in {slips, slips + 1}
  /\ UNCHANGED today

Next == NewDay \/ Slip \/ Deliver

Spec == Init /\ [][Next]_<<today, digests, slips>>
=============================================================================
