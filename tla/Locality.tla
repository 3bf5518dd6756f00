------------------------------ MODULE Locality ------------------------------
(***************************************************************************)
(* What the program promises: a sequence of localities.  A locality is a   *)
(* transition, which maps new segments of memory, and a holding time,      *)
(* which references segments of this locality and maps nothing (README.md, *)
(* "It is suffice to define Locality with just: holding and transition").  *)
(* No segment is ever given back, and no segment joins two localities.     *)
(***************************************************************************)
CONSTANT Segment    \* what a transition can map

VARIABLES
    state,          \* where the program is
    mapped,         \* segments mapped so far
    current,        \* segments of the current locality
    referenced      \* those of them that have been referenced

lvars == <<state, mapped, current, referenced>>

Init ==
    /\ state = "idle"
    /\ mapped = {}
    /\ current = {}
    /\ referenced = {}

(* The next locality begins, with an empty working set. *)
Begin ==
    /\ state = "idle"
    /\ state' = "transition"
    /\ current' = {}
    /\ referenced' = {}
    /\ UNCHANGED mapped

(* A segment is mapped, and perhaps referenced at once. *)
Map(x) ==
    /\ state = "transition"
    /\ x \notin mapped
    /\ mapped' = mapped \cup {x}
    /\ current' = current \cup {x}
    /\ referenced' \in {referenced, referenced \cup {x}}
    /\ UNCHANGED state

Hold ==
    /\ state = "transition"
    /\ state' = "holding"
    /\ UNCHANGED <<mapped, current, referenced>>

Reference(x) ==
    /\ state = "holding"
    /\ x \in current
    /\ referenced' = referenced \cup {x}
    /\ UNCHANGED <<state, mapped, current>>

(* The holding time is over. *)
End ==
    /\ state = "holding"
    /\ state' = "idle"
    /\ UNCHANGED <<mapped, current, referenced>>

(* The program stops: between two localities, or because it failed. *)
Stop ==
    /\ state # "over"
    /\ state' = "over"
    /\ UNCHANGED <<mapped, current, referenced>>

Next ==
    \/ Begin
    \/ \E x \in Segment : Map(x) \/ Reference(x)
    \/ Hold
    \/ End
    \/ Stop

Spec == Init /\ [][Next]_lvars

=============================================================================
