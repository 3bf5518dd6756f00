-------------------------- MODULE MC_AccessPattern --------------------------
(* Mappings for the model checker. *)
EXTENDS AccessPattern, TLC

CONSTANTS m1, m2, m3

(* Lengths for pages of 16 bytes: one page, whose half is shorter than a   *)
(* page; one and a half page a half; and two whole pages a half.           *)
MC_Small == (m1 :> 16) @@ (m2 :> 48) @@ (m3 :> 64)

=============================================================================
