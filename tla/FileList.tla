------------------------------ MODULE FileList ------------------------------
(***************************************************************************)
(* The drive of files the gobbler maps.  files.h (written by               *)
(* file_gen/file_gen.sh) gives file_lst[0 .. max-1], one list of paths per *)
(* file size, and the program takes the first path that is not in use from *)
(* the smallest class that is large enough.                                *)
(*                                                                         *)
(* Sizes are in pages.  Every size of files.h and every cap the program    *)
(* puts on a length is a multiple of the 4096-byte page, so nothing is     *)
(* lost.  The alloc flags of the paths are the set of the paths in use and *)
(* the filled flags of the classes the set of the classes flagged.         *)
(***************************************************************************)
EXTENDS Integers, FiniteSets

CONSTANTS
    max,        \* number of size classes, the last member of file_len_t
    Size,       \* Size[i]: pages of a file of class i
    PathCnt,    \* PathCnt[i]: paths before the NULL that ends class i
    NULL        \* the null pointer: "no path"

Class == 0..(max - 1)

(* A path of class i is the pair of the class and its place in the list. *)
Node == UNION {{i} \X (1..PathCnt[i]) : i \in Class}

(* The generator doubles the size from one class to the next. *)
ASSUME FileListAssumption ==
    /\ max \in Nat \ {0}
    /\ Size \in [Class -> Nat \ {0}]
    /\ PathCnt \in [Class -> Nat]
    /\ \A i, j \in Class : i < j => Size[i] < Size[j]
    /\ NULL \notin Node

-----------------------------------------------------------------------------

(* The paths find_avail_node may return for some class that is tried. *)
Fits(taken, len) == {n \in Node \ taken : Size[n[1]] >= len}

(* The scan order: class by class, and within a class path by path. *)
ScannedBefore(m, n) == m[1] < n[1] \/ (m[1] = n[1] /\ m[2] <= n[2])

(* Mutated form: the alloc flags are not looked at. *)
get_file_path_reused(taken, len) ==
    {n \in Fits({}, len) : \A m \in Fits({}, len) : ScannedBefore(n, m)}

(* The result of get_file_path: the set of the one path found, {} for NULL. *)
get_file_path(taken, len) ==
    {n \in Fits(taken, len) : \A m \in Fits(taken, len) : ScannedBefore(n, m)}

(* Mutated form: the class that still had the path is flagged as well. *)
ScannedFull_eager(taken, len) ==
    {i \in Class : Size[i] >= len /\ \A m \in Fits(taken, len) : i <= m[1]}

(* The classes flagged filled on the way: tried, and nothing left in them. *)
ScannedFull(taken, len) ==
    {i \in Class : Size[i] >= len /\ \A m \in Fits(taken, len) : i < m[1]}

=============================================================================
