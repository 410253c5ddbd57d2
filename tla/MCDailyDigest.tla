--------------------------- MODULE MCDailyDigest ---------------------------
(* Small instances of DailyDigest for TLC: a day has an hour before the     *)
(* digest and two hours after it began.                                     *)
EXTENDS DailyDigest
=============================================================================
