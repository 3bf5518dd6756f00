--------------------------- MODULE MC_HoldingTime ---------------------------
(* A second of eight nanoseconds. *)
EXTENDS HoldingTime

(* None, less than a second, one and two seconds, and a negative time,     *)
(* which a vector may ask for.                                             *)
MC_ExecTimes == {-3, 0, 3, 8, 16}

(* A wait, and the clock set forward or back by more than a second *)
MC_WallSteps == {-9, 1, 9}

=============================================================================
