--------------------------- MODULE PreciseAllocer ---------------------------
(***************************************************************************)
(* The refactored program: precise_allocer.c on top of alloc_manager.c,    *)
(* file_manager.c, job_manager.c, pattern_manager.c and vector_manager.c.  *)
(* A locality maps one segment and touches one byte of it over and over.   *)
(*                                                                         *)
(* The program is not built, and does not compile: functions are called by *)
(* names that differ from those they are defined with (Init and init,      *)
(* get_nxt_alloc and vector_mgr_get_nxt, stabilise and stablilise), and    *)
(* reset_max_alloc_per_phase with the cap it sets is the one of            *)
(* mem_gobbler.c.  The model takes the one function that can be meant.     *)
(*                                                                         *)
(* Lengths are in pages.  max_limit is 1 page and the smallest class is    *)
(* not smaller, so that every length asked for is that of class 0.  The    *)
(* segment of phase p is never unmapped, so p also names its address.      *)
(***************************************************************************)
EXTENDS FileList, StmaLtma, Sequences

CONSTANTS
    MAX_ALLOC,      \* phases alloc_track has room for         (60000)
    FILE_RATIO,     \* one mapping in FILE_RATIO is anonymous  (4)
    PAGE_WRAP,      \* pages whose bytes wrap to 0 in an lt_t  (2^52)
    FILE_MAX,       \* descriptors set_file_cnt asks for       (500000)
    RLIMIT_DEFAULT, \* descriptors granted when it is refused
    Vectors,        \* contents of the file named by -V
    Junk            \* values of an execution time nobody has set

(* A line of a vector: the count and the time that atol and atof find; a   *)
(* line of fewer than two fields is not whole.                             *)
Line == [count : Nat, wcet : Int, whole : BOOLEAN]

ASSUME PreciseAssumption ==
    /\ MAX_ALLOC \in Nat \ {0}
    /\ FILE_RATIO \in Nat \ {0}
    /\ PAGE_WRAP \in Nat \ {0}
    /\ FILE_MAX \in Nat /\ RLIMIT_DEFAULT \in Nat
    /\ Vectors \subseteq Seq(Line)
    /\ Junk \subseteq Int
    /\ NULL \notin Vectors

VARIABLES
    pc,                         \* where the program is
    vector,                     \* -V: the lines, NULL without -V
    vpos,                       \* lines read
    ipfvt,                      \* -I
    wcet_ms,                    \* the execution time of the job
    max_alloc_per_phase_byte,   \* cap of a mapping (in pages), 0 for none
    rlimit, fds,                \* descriptors: the limit, and those open
    taken, filled,              \* paths and classes that are flagged
    curr, alloc_track,          \* the current phase, the entries of all
    file_cnt, anon_cnt,         \* pages mapped, by type
    type_cnt,                   \* the static cnt of randomize_alloc_type
    fix_head,                   \* addresses pattern_fix keeps, newest first
    elapsed                     \* CPU time since stabilise began

options  == <<vector, ipfvt, stma, ltma>>
settings == <<wcet_ms, vpos, max_alloc_per_phase_byte>>
descrs   == <<rlimit, fds>>
tracker  == <<taken, filled, curr, alloc_track, file_cnt, anon_cnt, type_cnt>>
holding  == <<fix_head, elapsed>>
vars == <<lengths, pc, vector, ipfvt, settings, descrs, tracker, holding>>

Phase == 0..(MAX_ALLOC - 1)
MemType == {"file", "anon"}
Entry == [addr : Node \cup {NULL}, len : Nat \ {0}, type : MemType]

(* "returned": main returns; "exited": an error that PR_ERROR reports or   *)
(* mmapper exits for; "crashed": a NULL is read through, or a phase past   *)
(* the end of alloc_track is written                                       *)
Ended == {"returned", "exited", "crashed"}
Running == pc \notin Ended

Init ==
    /\ LInit
    /\ pc = "opts"
    /\ vector = NULL /\ vpos = 0 /\ ipfvt = FALSE
    /\ wcet_ms \in Junk
    /\ max_alloc_per_phase_byte = 0
    /\ rlimit = RLIMIT_DEFAULT /\ fds = 3
    /\ taken = {} /\ filled = {}
    /\ curr = -1 /\ alloc_track = [p \in Phase |-> <<>>]
    /\ file_cnt = 0 /\ anon_cnt = 0 /\ type_cnt = 0
    /\ fix_head = <<>> /\ elapsed = 0

-----------------------------------------------------------------------------
(* main: the command line, and Init of the code *)

Frame == UNCHANGED <<settings, tracker, holding>>

opt_V(v) ==
    /\ pc = "opts" /\ vector = NULL
    /\ vector' = v
    /\ fds' = fds + 1
    /\ UNCHANGED <<lengths, pc, ipfvt, rlimit>> /\ Frame

opt_I ==
    /\ pc = "opts"
    /\ ipfvt' = TRUE
    /\ UNCHANGED <<lengths, pc, vector, descrs>> /\ Frame

opt_lengths ==
    /\ pc = "opts"
    /\ \E v \in LengthArgs : opt_S(v) \/ opt_L(v)
    /\ UNCHANGED <<pc, vector, ipfvt, descrs>> /\ Frame

(* -h, an unknown option, a vector that does not open, no memory for       *)
(* alloc_track                                                             *)
opt_rejected ==
    /\ pc = "opts"
    /\ pc' = "exited"
    /\ UNCHANGED <<lengths, vector, ipfvt, descrs>> /\ Frame

(* setrlimit may be refused. *)
start ==
    /\ pc = "opts"
    /\ pc' = "init"
    /\ rlimit' \in {FILE_MAX, rlimit}
    /\ UNCHANGED <<lengths, vector, ipfvt, fds>> /\ Frame

init_reset ==
    /\ pc = "init"
    /\ ResetStep
    /\ pc' = CASE reset' = "exit"  -> "exited"
               [] reset' = "crash" -> "crashed"
               [] OTHER            -> "init"
    /\ UNCHANGED <<vector, ipfvt, descrs>> /\ Frame

init_end ==
    /\ pc = "init"
    /\ ResetDone
    /\ pc' = "main"
    /\ UNCHANGED <<lengths, vector, ipfvt, descrs>> /\ Frame

-----------------------------------------------------------------------------
(* A turn of main's loop *)

LineLeft == vector # NULL /\ vpos < Len(vector)

(* With a vector, a line gives the execution time and the cap; without     *)
(* one, both stay as they are.                                             *)
main_job ==
    /\ pc = "main"
    /\ \/ vector = NULL /\ UNCHANGED settings
       \/ /\ LineLeft /\ vector[vpos + 1].whole
          /\ wcet_ms' = vector[vpos + 1].wcet
          /\ max_alloc_per_phase_byte' =
                (IF ipfvt THEN 1 ELSE vector[vpos + 1].count) % PAGE_WRAP
          /\ vpos' = vpos + 1
    /\ pc' = "job"
    /\ UNCHANGED <<lengths, vector, ipfvt, descrs, tracker, holding>>

(* The vector is at its end, or atof gets the NULL of strtok. *)
main_vector_end ==
    /\ pc = "main" /\ vector # NULL
    /\ \/ ~LineLeft /\ pc' = "returned"
       \/ LineLeft /\ ~vector[vpos + 1].whole /\ pc' = "crashed"
    /\ UNCHANGED <<lengths, vector, ipfvt, descrs>> /\ Frame

-----------------------------------------------------------------------------
(* job: transition *)

Unchanged == UNCHANGED <<lengths, options, settings, rlimit, holding>>

(* Mutated form: later localities are recorded in the first phase. *)
go_to_nxt_phase_once ==
    /\ pc = "job"
    /\ pc' = "alloc"
    /\ curr' = 0
    /\ UNCHANGED <<fds, taken, filled, alloc_track, file_cnt, anon_cnt, type_cnt>>
    /\ Unchanged

(* Mutated form: a trace has to be a line shorter than the tracker. *)
go_to_nxt_phase_from_one ==
    /\ pc = "job"
    /\ IF curr >= MAX_ALLOC
       THEN pc' = "exited" /\ UNCHANGED curr
       ELSE pc' = "alloc" /\ curr' = IF curr = -1 THEN 1 ELSE curr + 1
    /\ UNCHANGED <<fds, taken, filled, alloc_track, file_cnt, anon_cnt, type_cnt>>
    /\ Unchanged

(* The test comes before the increment, and lets curr reach MAX_ALLOC. *)
go_to_nxt_phase ==
    /\ pc = "job"
    /\ IF curr >= MAX_ALLOC
       THEN pc' = "exited" /\ UNCHANGED curr
       ELSE pc' = "alloc" /\ curr' = curr + 1
    /\ UNCHANGED <<fds, taken, filled, alloc_track, file_cnt, anon_cnt, type_cnt>>
    /\ Unchanged

(* Mutated form: the very first mapping is not excepted. *)
randomize_alloc_type_first ==
    IF type_cnt % FILE_RATIO = 0 THEN "anon" ELSE "file"

randomize_alloc_type ==
    IF type_cnt % FILE_RATIO = 0 /\ type_cnt # 0 THEN "anon" ELSE "file"

(* Mutated forms: 0 is a cap too; there is no cap. *)
Capped_zero(len) ==
    IF len > max_alloc_per_phase_byte THEN max_alloc_per_phase_byte ELSE len
Capped_never(len) == len

Capped(len) ==
    IF max_alloc_per_phase_byte # 0 /\ len > max_alloc_per_phase_byte
    THEN max_alloc_per_phase_byte
    ELSE len

(* What file_mgr_get_file finds for a file mapping *)
Paths == IF randomize_alloc_type = "file" THEN get_file_path(taken, Size[0]) ELSE {NULL}

Draw ==
    /\ pc = "alloc"
    /\ type_cnt' = type_cnt + 1
    /\ filled' = IF randomize_alloc_type = "file"
                 THEN filled \cup ScannedFull(taken, Size[0]) ELSE filled

Opens == fds' = IF randomize_alloc_type = "file" THEN fds + 1 ELSE fds

(* No path is left, or open fails; mmap or madvise fails: the program      *)
(* exits.                                                                  *)
alloc_failed ==
    /\ Draw
    /\ \/ randomize_alloc_type = "file" /\ UNCHANGED fds
       \/ Paths # {} /\ (randomize_alloc_type = "file" => fds < rlimit) /\ Opens
    /\ pc' = "exited"
    /\ UNCHANGED <<taken, curr, alloc_track, file_cnt, anon_cnt>> /\ Unchanged

(* The mapping is recorded under the phase, and counted. A phase past the  *)
(* last one is outside alloc_track.                                        *)
alloc_added ==
    /\ Draw
    /\ randomize_alloc_type = "file" => fds < rlimit
    /\ Opens
    /\ \E n \in Paths :
         LET t   == randomize_alloc_type
             len == Capped(IF t = "file" THEN Size[n[1]] ELSE Size[0])
         IN IF curr \in Phase
            THEN /\ pc' = "mapped"
                 /\ alloc_track' = [alloc_track EXCEPT ![curr] =
                        Append(@, [addr |-> n, len |-> len, type |-> t])]
                 /\ file_cnt' = file_cnt + (IF t = "file" THEN len ELSE 0)
                 /\ anon_cnt' = anon_cnt + (IF t = "anon" THEN len ELSE 0)
                 /\ taken' = IF t = "file" THEN taken \cup {n} ELSE taken
            ELSE /\ pc' = "crashed"
                 /\ UNCHANGED <<alloc_track, file_cnt, anon_cnt, taken>>
    /\ UNCHANGED curr /\ Unchanged

-----------------------------------------------------------------------------
(* job: stabilise *)

NotHolding == UNCHANGED <<lengths, options, settings, descrs, tracker>>

stabilise_begin ==
    /\ pc = "mapped"
    /\ pc' = "hold"
    /\ elapsed' = 0
    /\ NotHolding /\ UNCHANGED fix_head

fix_exists(a) == \E i \in DOMAIN fix_head : fix_head[i] = a

(* Mutated form: the start is read anew in every turn. *)
touch_once_curr_restarts ==
    /\ pc = "hold" /\ elapsed < wcet_ms
    /\ elapsed' = 0
    /\ IF fix_exists(curr)
       THEN UNCHANGED <<pc, fix_head>>
       ELSE fix_head' = <<curr>> \o fix_head /\ UNCHANGED pc
    /\ NotHolding

(* touch_once_curr: the byte in the middle of the segment is touched; its  *)
(* address is put at the head of the list if it is not in it.              *)
touch_once_curr ==
    /\ pc = "hold" /\ elapsed < wcet_ms
    /\ IF fix_exists(curr)
       THEN UNCHANGED <<pc, fix_head>>
       ELSE \/ fix_head' = <<curr>> \o fix_head /\ UNCHANGED pc
            \/ pc' = "crashed" /\ UNCHANGED fix_head
    /\ NotHolding /\ UNCHANGED elapsed

stabilise_end ==
    /\ pc = "hold" /\ elapsed >= wcet_ms
    /\ pc' = "held"
    /\ elapsed' = 0
    /\ NotHolding /\ UNCHANGED fix_head

(* stabilise returns nothing: what job returns to main is indeterminate,   *)
(* and main goes on with the next job, or returns.                         *)
job_returns ==
    /\ pc = "held"
    /\ pc' \in {"main", "returned"}
    /\ NotHolding /\ UNCHANGED holding

(* The CPU clock of the process advances. *)
tick ==
    /\ pc = "hold" /\ elapsed < wcet_ms
    /\ elapsed' = elapsed + 1
    /\ NotHolding /\ UNCHANGED <<pc, fix_head>>

-----------------------------------------------------------------------------

ended == ~Running /\ UNCHANGED vars

Program ==
    \/ start \/ init_reset \/ init_end
    \/ main_job \/ main_vector_end
    \/ go_to_nxt_phase \/ alloc_failed \/ alloc_added
    \/ stabilise_begin \/ touch_once_curr \/ stabilise_end \/ job_returns

Next ==
    \/ \E v \in Vectors : opt_V(v)
    \/ opt_I \/ opt_lengths \/ opt_rejected
    \/ Program \/ tick \/ ended

Spec == Init /\ [][Next]_vars

(* The only thread is scheduled, and its CPU clock advances. *)
FairSpec == Spec /\ WF_vars(Program) /\ WF_vars(tick)

-----------------------------------------------------------------------------
(* Properties *)

TypeOK ==
    /\ LTypeOK
    /\ pc \in {"opts", "init", "main", "job", "alloc", "mapped", "hold", "held"}
               \cup Ended
    /\ vector \in Vectors \cup {NULL} /\ vpos \in Nat /\ ipfvt \in BOOLEAN
    /\ wcet_ms \in Int /\ max_alloc_per_phase_byte \in Nat
    /\ rlimit \in Nat /\ fds \in Nat
    /\ taken \in SUBSET Node /\ filled \in SUBSET Class
    /\ curr \in -1..MAX_ALLOC /\ alloc_track \in [Phase -> Seq(Entry)]
    /\ file_cnt \in Nat /\ anon_cnt \in Nat /\ type_cnt \in Nat
    /\ fix_head \in Seq(Phase) /\ elapsed \in Nat

(* A trace is replayed line by line: the locality that is held is the one  *)
(* of the line read last, one mapping not longer than its count, and held  *)
(* for its time.                                                           *)
TraceReplayed ==
    pc = "hold" =>
        /\ Len(alloc_track[curr]) = 1
        /\ vector # NULL =>
              LET line  == vector[vpos]
                  count == IF ipfvt THEN 1 ELSE line.count
              IN /\ vpos = curr + 1
                 /\ wcet_ms = line.wcet
                 /\ count % PAGE_WRAP # 0 => alloc_track[curr][1].len <= count

(* The test of go_to_nxt_phase does not keep curr inside alloc_track, but  *)
(* a trace does, as long as it has no more lines than there are phases.    *)
TraceFits == vector # NULL /\ Len(vector) <= MAX_ALLOC => curr < MAX_ALLOC

(* No path is recorded under two phases, and each path flagged is recorded. *)
FilesUsedOnce ==
    \A n \in Node :
        Cardinality({p \in Phase : Len(alloc_track[p]) > 0 /\ alloc_track[p][1].addr = n})
            = IF n \in taken THEN 1 ELSE 0

Localities(t) == {p \in Phase : Len(alloc_track[p]) > 0 /\ alloc_track[p][1].type = t}

(* Over any number of localities, FILE_RATIO - 1 are of file memory for    *)
(* each anonymous one, and no anonymous one is missing.                    *)
RatioExact ==
    LET files == Cardinality(Localities("file"))
        anons == Cardinality(Localities("anon"))
    IN /\ (FILE_RATIO - 1) * anons <= files
       /\ files + anons > 0 => anons = (files + anons - 1) \div FILE_RATIO

L == INSTANCE Locality WITH
        Segment    <- Phase \X {1},
        state      <- CASE ~Running                 -> "over"
                        [] pc = "hold"              -> "holding"
                        [] pc \in {"alloc", "mapped"} -> "transition"
                        [] OTHER                    -> "idle",
        mapped     <- UNION {{p} \X DOMAIN alloc_track[p] : p \in Phase},
        current    <- IF curr \in Phase THEN {curr} \X DOMAIN alloc_track[curr] ELSE {},
        referenced <- {<<fix_head[i], 1>> : i \in {i \in DOMAIN fix_head : fix_head[i] = curr}}

(* The refactored program keeps the promise of the one it replaces: a      *)
(* sequence of localities, each with a working set of its own.             *)
ImplementsLocality == L!Spec

(* main's condition is indeterminate and nothing counts the jobs, and yet  *)
(* every run ends: each job takes a phase, and phases run out.             *)
Terminates == <>~Running

=============================================================================
