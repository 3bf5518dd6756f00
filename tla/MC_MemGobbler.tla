--------------------------- MODULE MC_MemGobbler ----------------------------
(* Small drives and vectors for the model checker. *)
EXTENDS MemGobbler, TLC

(* The drive of files.h has one class, of one page. *)
MC_OneSize == (0 :> 1)
MC_ThreePaths == (0 :> 3)

(* A negative time, which skips every job, and one of a few turns. *)
MC_ExecArgs == {-1, 3}

MC_Line(c, w) == [count |-> c, wcet |-> w, whole |-> TRUE]

(* Vectors of different counts and times, with a job that is skipped, a    *)
(* phase without mappings, and a blank line at the end.                    *)
MC_Vectors ==
    {<<MC_Line(2, 1), MC_Line(0, 1), MC_Line(1, 2)>>,
     <<MC_Line(1, -1), MC_Line(2, 0)>>,
     <<MC_Line(2, 1), [count |-> 0, wcet |-> 0, whole |-> FALSE]>>}

=============================================================================
