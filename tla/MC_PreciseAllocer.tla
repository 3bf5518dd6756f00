-------------------------- MODULE MC_PreciseAllocer --------------------------
(* A drive of two classes that outlasts the five phases of the tracker, as *)
(* the one of files.h does, short traces, and lengths of four bits.        *)
EXTENDS PreciseAllocer, TLC

MC_Sizes == (0 :> 1) @@ (1 :> 3)
MC_Paths == (0 :> 2) @@ (1 :> 3)

MC_Line(c, w) == [count |-> c, wcet |-> w, whole |-> TRUE]

(* Counts that cut a mapping, that do not, and that wrap to no cap; times  *)
(* of none, one and two units; traces as long as the tracker and longer; a *)
(* blank last line                                                         *)
MC_FiveLines ==
    <<MC_Line(2, 1), MC_Line(0, 0), MC_Line(2, 2), MC_Line(4, 1), MC_Line(5, 1)>>
MC_Vectors ==
    {MC_FiveLines, MC_FiveLines \o <<MC_Line(1, -1)>>,
     <<MC_Line(1, 1), [count |-> 0, wcet |-> 0, whole |-> FALSE]>>}

(* An execution time nobody has set *)
MC_Junk == {-1, 2}

MC_OldLengths == <<3, 6>>

=============================================================================
