---------------------------- MODULE MC_Randomizer ---------------------------
(* Every generator that gives, in each of two seconds, two of three        *)
(* numbers of 0..7: one that all calls accept, one that rand_lim rejects,  *)
(* and one that rand_intr rejects too.                                     *)
EXTENDS Randomizer

MC_Numbers == {1, 5, 7}
MC_Generators == [0..1 -> [0..1 -> MC_Numbers]]

(* Those whose two numbers differ and are accepted when a type is drawn,   *)
(* which is 0 and 1 then, and when a class of three is, which is 1 and 0.  *)
MC_Alternating ==
    {g \in [0..1 -> [0..1 -> {1, 3}]] : \A s \in 0..1 : g[s][0] # g[s][1]}

(* type_max and MAX_LOOP *)
MC_Limits == {2, 3}

(* The classes, and a count of mappings that does not begin at 0 *)
MC_Intervals == {<<0, 2>>, <<1, 4>>}

=============================================================================
