---------------------------- MODULE MC_Allocator ----------------------------
(* Small drives for the model checker. *)
EXTENDS Allocator, TLC

(* Two classes of sizes 1 and 2, as file_gen.sh writes for two items. *)
MC_Size == (0 :> 1) @@ (1 :> 2)
MC_PathCnt == (0 :> 2) @@ (1 :> 2)

(* One class, as in files.h, with paths enough for two phases.             *)
MC_OneSize == (0 :> 1)
MC_ManyPaths == (0 :> 11)

=============================================================================
