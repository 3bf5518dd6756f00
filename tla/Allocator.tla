----------------------------- MODULE Allocator ------------------------------
(***************************************************************************)
(* The allocator of mem_gobbler.c: the transition half of a locality.      *)
(*                                                                         *)
(* trans_rand_alloc opens a new phase of alloc_track, decides how much to  *)
(* allocate (cnt) and calls random_allocator_one until cnt is used up; each *)
(* call picks file or anonymous memory and a length, takes a path from the *)
(* file list, maps it, records the mapping under the current phase and     *)
(* adds its pages to the statistics.  Nothing is ever unmapped or closed.  *)
(*                                                                         *)
(* Abstractions.  Lengths and limits are in pages; a byte quantity of      *)
(* pages * PAGE_SIZE in a 64-bit lt_t wraps when the pages reach           *)
(* PAGE_WRAP (2^52).  An address is the path mapped there, NULL for        *)
(* anonymous memory.  rand_lim and rand_intr are a choice from their       *)
(* range.  A failed process is one whose "failed" names the cause.         *)
(***************************************************************************)
EXTENDS FileList, Sequences

Fn == INSTANCE Functions

CONSTANTS
    MAX_ALLOC,         \* phases alloc_track has room for        (60000)
    MAX_ALLOC_PER_SE,  \* mappings one phase has room for        (500)
    MAX_TRANSITION_CNT,\* default of max_alloc_per_phase         (150)
    TRANS_LO,          \* least and largest number of mappings of a phase
    TRANS_HI,          \*   whose budget is random               (5 and 18)
    FILE_RATIO,        \* one mapping in FILE_RATIO is anonymous (4)
    PAGE_WRAP,         \* pages whose bytes wrap to 0 in an lt_t (2^52)
    MAX_LIMIT,         \* default of max_limit                   (100000000)
    FILE_MAX,          \* descriptors set_file_cnt asks for      (500000)
    RLIMIT_DEFAULT,    \* descriptors granted when it is refused
    LimitArgs,         \* arguments of -l that are tried
    PerPhaseArgs,      \* arguments of -M and counts of vector lines
    SpeedArgs          \* arguments of -s

ASSUME AllocatorAssumption ==
    /\ MAX_ALLOC \in Nat \ {0}
    /\ MAX_ALLOC_PER_SE \in Nat \ {0}
    /\ MAX_TRANSITION_CNT \in Nat \ {0}
    /\ TRANS_LO \in Nat \ {0}
    /\ TRANS_HI \in TRANS_LO..MAX_ALLOC_PER_SE
    /\ FILE_RATIO \in Nat \ {0}
    /\ PAGE_WRAP \in Nat \ {0}
    /\ MAX_LIMIT \in Nat
    /\ FILE_MAX \in Nat /\ RLIMIT_DEFAULT \in Nat
    /\ LimitArgs \subseteq Nat
    /\ PerPhaseArgs \subseteq Nat
    /\ SpeedArgs \subseteq Nat

(* stdin, stdout and stderr *)
STD_FDS == 3

(* The limit the program asks for covers the whole drive, the standard     *)
(* streams and the stream of a vector.                                     *)
ASSUME DescriptorsAssumption == Cardinality(Node) + STD_FDS + 1 <= FILE_MAX

VARIABLES
    max_limit,                  \* -l, pages the program may map
    speed,                      \* -s, largest size class asked for
    alloc_precision,            \* -M, -A, -V: cnt counts pages, not mappings
    max_alloc_per_phase,        \* budget of a phase when it is precise
    max_alloc_per_phase_byte,   \* cap of one mapping (in pages), 0 for none
    rlimit,                     \* RLIMIT_NOFILE
    fds,                        \* descriptors the process has open
    taken,                      \* paths whose alloc flag is set
    filled,                     \* classes whose filled flag is set
    curr,                       \* current phase, -1 before the first
    alloc_track,                \* the mappings of every phase
    file_cnt, anon_cnt,         \* pages mapped, by type
    total_alloc_pages,
    type_cnt,                   \* the static cnt of randomize_alloc_type
    in_transition,
    cnt, anon_slice,            \* locals of trans_rand_alloc
    failed                      \* why the process exited, "no" if it did not

settings == <<max_limit, speed, alloc_precision, max_alloc_per_phase,
              max_alloc_per_phase_byte>>
pool     == <<taken, filled>>
tracker  == <<curr, alloc_track>>
counters == <<file_cnt, anon_cnt, total_alloc_pages>>
trans    == <<in_transition, cnt, anon_slice>>
avars    == <<settings, rlimit, fds, pool, tracker, counters, type_cnt, trans,
              failed>>

Phase == 0..(MAX_ALLOC - 1)
MemType == {"file", "anon"}
Entry == [addr : Node \cup {NULL}, len : Nat \ {0}, type : MemType]
Failure == {"no", "phases", "open", "emfile", "mmap", "tracker", "overrun"}

AInit ==
    /\ max_limit = MAX_LIMIT
    /\ speed = max - 1
    /\ alloc_precision = FALSE
    /\ max_alloc_per_phase = MAX_TRANSITION_CNT
    /\ max_alloc_per_phase_byte = 0
    /\ rlimit = RLIMIT_DEFAULT
    /\ fds = STD_FDS
    /\ taken = {}
    /\ filled = {}
    /\ curr = -1
    /\ alloc_track = [p \in Phase |-> <<>>]
    /\ file_cnt = 0
    /\ anon_cnt = 0
    /\ total_alloc_pages = 0
    /\ type_cnt = 0
    /\ in_transition = FALSE
    /\ cnt = 0
    /\ anon_slice = -1
    /\ failed = "no"

-----------------------------------------------------------------------------
(* What main sets.  Each operation is what the code does whenever it is    *)
(* called; when it may be called is the contract, further down.            *)

(* -l *)
set_max_limit(l) ==
    /\ max_limit' = l
    /\ UNCHANGED <<speed, alloc_precision, max_alloc_per_phase,
                   max_alloc_per_phase_byte, rlimit, fds, pool, tracker,
                   counters, type_cnt, trans, failed>>

(* -s: clamped to the last class of the file list *)
set_speed(s) ==
    /\ speed' = IF s >= max THEN max - 1 ELSE s
    /\ UNCHANGED <<max_limit, alloc_precision, max_alloc_per_phase,
                   max_alloc_per_phase_byte, rlimit, fds, pool, tracker,
                   counters, type_cnt, trans, failed>>

(* -A: alloc_precision alone, the budget stays at its default *)
set_precise ==
    /\ alloc_precision' = TRUE
    /\ UNCHANGED <<max_limit, speed, max_alloc_per_phase,
                   max_alloc_per_phase_byte, rlimit, fds, pool, tracker,
                   counters, type_cnt, trans, failed>>

(* -M, and every line of a vector *)
reset_max_alloc_per_phase(n) ==
    /\ max_alloc_per_phase' = n
    /\ alloc_precision' = TRUE
    /\ max_alloc_per_phase_byte' = n % PAGE_WRAP
    /\ UNCHANGED <<max_limit, speed, rlimit, fds, pool, tracker, counters,
                   type_cnt, trans, failed>>

(* -V keeps the stream of the vector open.  Bound: one -V on a command     *)
(* line.                                                                   *)
locality_vector_init ==
    /\ fds = STD_FDS
    /\ fds' = fds + 1
    /\ UNCHANGED <<settings, rlimit, pool, tracker, counters, type_cnt, trans,
                   failed>>

(* setrlimit may be refused: the code goes on with what it has. *)
set_file_cnt ==
    /\ rlimit' \in {FILE_MAX, rlimit}
    /\ UNCHANGED <<settings, fds, pool, tracker, counters, type_cnt, trans,
                   failed>>

-----------------------------------------------------------------------------
(* trans_rand_alloc *)

(* Mutated form: the turn of the very first mapping is not excepted. *)
randomize_alloc_type_first_anon ==
    IF anon_slice < 0
    THEN {IF type_cnt % FILE_RATIO = 0 THEN "anon" ELSE "file"}
    ELSE IF anon_slice > 0 THEN MemType ELSE {"file"}

(* The type: fixed one-in-FILE_RATIO turn without a slice, else random      *)
(* while the slice lasts, else file.                                       *)
randomize_alloc_type ==
    IF anon_slice < 0
    THEN {IF type_cnt % FILE_RATIO = 0 /\ type_cnt # 0 THEN "anon" ELSE "file"}
    ELSE IF anon_slice > 0 THEN MemType ELSE {"file"}

(* The length asked for.  The ten tries only make a class above max_limit  *)
(* less likely: the last try is returned whatever its size.                *)
randomize_alloc_len ==
    IF max_limit % PAGE_WRAP <= Size[0]
    THEN {Size[0]}
    ELSE {Size[i] : i \in 0..speed}

Capped(len) ==
    IF max_alloc_per_phase_byte # 0 /\ len > max_alloc_per_phase_byte
    THEN max_alloc_per_phase_byte
    ELSE len

(* Mutated forms: the subtraction wraps below 0; a mapping always costs 1. *)
CntAfter_unclamped(len) == IF alloc_precision THEN cnt - len ELSE cnt - 1
CntAfter_by_mapping(len) == cnt - 1

(* What is left of cnt after a mapping of len pages *)
CntAfter(len) ==
    IF alloc_precision
    THEN IF len > cnt THEN 0 ELSE cnt - len
    ELSE cnt - 1

(* Mutated form: later phases are recorded in the first one. *)
go_to_nxt_phase_once == curr' = IF curr = -1 THEN 0 ELSE curr

go_to_nxt_phase == curr' = curr + 1

(* The test of go_to_nxt_phase lets curr reach MAX_ALLOC and only refuses  *)
(* the phase after that.                                                   *)
trans_begin ==
    /\ curr < MAX_ALLOC
    /\ go_to_nxt_phase
    /\ \/ /\ alloc_precision
          /\ cnt' = max_alloc_per_phase
          /\ anon_slice' = -1
       \/ /\ ~alloc_precision
          /\ cnt' \in TRANS_LO..TRANS_HI
          /\ anon_slice' = cnt' \div FILE_RATIO
    /\ in_transition' = TRUE
    /\ UNCHANGED <<settings, rlimit, fds, pool, alloc_track, counters,
                   type_cnt, failed>>

trans_refused ==
    /\ curr >= MAX_ALLOC
    /\ failed' = "phases"
    /\ UNCHANGED <<settings, rlimit, fds, pool, tracker, counters, type_cnt,
                   trans>>

(* One turn of the loop: random_allocator_one. *)
InLoop == failed = "no" /\ in_transition /\ cnt > 0

(* The type and the length are drawn, and a search for a path flags the    *)
(* classes it finds full.                                                  *)
Draw(t, l) ==
    /\ InLoop
    /\ t \in randomize_alloc_type
    /\ l \in randomize_alloc_len
    /\ type_cnt' = type_cnt + 1
    /\ filled' = IF t = "file" THEN filled \cup ScannedFull(taken, l) ELSE filled

Paths(t, l) == IF t = "file" THEN get_file_path(taken, l) ELSE {NULL}

(* The mapping made: a whole file, or the anonymous length, up to the cap. *)
Mapping(t, l, n) ==
    [addr |-> n, len |-> Capped(IF t = "file" THEN Size[n[1]] ELSE l), type |-> t]

(* Mutated form: the path is opened a second time for ftruncate. *)
Opens_twice(t) == fds' = IF t = "file" THEN fds + 2 ELSE fds

(* A file mapping opens its path and never closes it. *)
Opens(t) == fds' = IF t = "file" THEN fds + 1 ELSE fds

(* Mutated form: anonymous pages are left out of the total. *)
Count_files_only(e) ==
    /\ total_alloc_pages' =
          IF e.type = "file" THEN total_alloc_pages + e.len ELSE total_alloc_pages
    /\ file_cnt' = IF e.type = "file" THEN file_cnt + e.len ELSE file_cnt
    /\ anon_cnt' = IF e.type = "anon" THEN anon_cnt + e.len ELSE anon_cnt

(* The page statistics *)
Count(e) ==
    /\ total_alloc_pages' = total_alloc_pages + e.len
    /\ file_cnt' = IF e.type = "file" THEN file_cnt + e.len ELSE file_cnt
    /\ anon_cnt' = IF e.type = "anon" THEN anon_cnt + e.len ELSE anon_cnt

(* No class has a path left: the attempt is given up and costs one of cnt. *)
file_refused ==
    /\ \E l \in randomize_alloc_len : Draw("file", l) /\ Fits(taken, l) = {}
    /\ cnt' = cnt - 1
    /\ UNCHANGED <<settings, rlimit, fds, taken, tracker, counters,
                   in_transition, anon_slice, failed>>

(* open fails: no descriptor is left, or the drive is not mounted. *)
open_failed ==
    /\ \E l \in randomize_alloc_len : Draw("file", l) /\ Fits(taken, l) # {}
    /\ failed' \in IF fds >= rlimit THEN {"emfile"} ELSE {"open"}
    /\ UNCHANGED <<settings, rlimit, fds, taken, tracker, counters, trans>>

(* mmap or madvise fails. *)
map_failed ==
    /\ \E t \in MemType, l \in randomize_alloc_len :
         Draw(t, l) /\ Paths(t, l) # {} /\ (t = "file" => fds < rlimit) /\ Opens(t)
    /\ failed' = "mmap"
    /\ UNCHANGED <<settings, rlimit, taken, tracker, counters, trans>>

(* The mapping is made and add_new_alloc is called for it. *)
Mapped(t, l, n) ==
    /\ Draw(t, l)
    /\ n \in Paths(t, l)
    /\ t = "file" => fds < rlimit
    /\ Opens(t)

(* curr is past the last phase: add_new_alloc reads outside alloc_track. *)
track_overrun ==
    /\ curr \notin Phase
    /\ \E t \in MemType, l \in randomize_alloc_len : \E n \in Paths(t, l) :
         Mapped(t, l, n)
    /\ failed' = "overrun"
    /\ UNCHANGED <<settings, rlimit, taken, tracker, counters, trans>>

(* The phase is full: the pages are counted, the mapping is recorded       *)
(* nowhere and the program exits.                                          *)
track_full ==
    /\ curr \in Phase
    /\ Len(alloc_track[curr]) >= MAX_ALLOC_PER_SE
    /\ \E t \in MemType, l \in randomize_alloc_len : \E n \in Paths(t, l) :
         Mapped(t, l, n) /\ Count(Mapping(t, l, n))
    /\ failed' = "tracker"
    /\ UNCHANGED <<settings, rlimit, taken, tracker, trans>>

(* The mapping is recorded, counted, and its path taken. *)
track_added ==
    /\ curr \in Phase
    /\ Len(alloc_track[curr]) < MAX_ALLOC_PER_SE
    /\ \E t \in MemType, l \in randomize_alloc_len : \E n \in Paths(t, l) :
         LET e == Mapping(t, l, n) IN
         /\ Mapped(t, l, n)
         /\ alloc_track' = [alloc_track EXCEPT ![curr] = Append(@, e)]
         /\ Count(e)
         /\ taken' = IF t = "file" THEN taken \cup {n} ELSE taken
         /\ cnt' = CntAfter(e.len)
         /\ anon_slice' = IF t = "anon" THEN anon_slice - 1 ELSE anon_slice
    /\ UNCHANGED <<settings, rlimit, curr, in_transition, failed>>

(* cnt is used up: the transition is over. *)
trans_end ==
    /\ failed = "no"
    /\ in_transition
    /\ cnt = 0
    /\ in_transition' = FALSE
    /\ UNCHANGED <<settings, rlimit, fds, pool, tracker, counters, type_cnt,
                   cnt, anon_slice, failed>>

(* A process that has exited stays so. *)
exited == failed # "no" /\ UNCHANGED avars

-----------------------------------------------------------------------------
(* The contract: what the allocator expects of the program that calls it.  *)
(* The guards are here and not in the operations, so that a caller that    *)
(* breaks one does something that ANext does not allow.                    *)

(* No transition is under way: the next one may begin. *)
Between == failed = "no" /\ ~in_transition

(* The settings are made before the first phase, *)
Configuring == Between /\ curr = -1

(* and the budget between phases, but once there have been phases on       *)
(* random budgets it is too late for a precise one: the two modes take     *)
(* turns of their own between file and anonymous memory.                   *)
Budgeting == Between /\ (curr = -1 \/ alloc_precision)

ANext ==
    \/ \E l \in LimitArgs : Configuring /\ set_max_limit(l)
    \/ \E s \in SpeedArgs : Configuring /\ set_speed(s)
    \/ Configuring /\ set_precise
    \/ \E n \in PerPhaseArgs : Budgeting /\ reset_max_alloc_per_phase(n)
    \/ Configuring /\ locality_vector_init
    \/ Configuring /\ set_file_cnt
    \/ Between /\ trans_begin
    \/ Between /\ trans_refused
    \/ file_refused
    \/ open_failed
    \/ map_failed
    \/ track_overrun
    \/ track_full
    \/ track_added
    \/ trans_end
    \/ exited

ASpec == AInit /\ [][ANext]_avars

-----------------------------------------------------------------------------
(* Properties *)

(* Every variable keeps its C type. *)
ATypeOK ==
    /\ max_limit \in Nat
    /\ speed \in Class
    /\ alloc_precision \in BOOLEAN
    /\ max_alloc_per_phase \in Nat
    /\ max_alloc_per_phase_byte \in Nat
    /\ rlimit \in Nat
    /\ fds \in Nat
    /\ taken \in SUBSET Node
    /\ filled \in SUBSET Class
    /\ curr \in -1..MAX_ALLOC
    /\ alloc_track \in [Phase -> Seq(Entry)]
    /\ file_cnt \in Nat
    /\ anon_cnt \in Nat
    /\ total_alloc_pages \in Nat
    /\ type_cnt \in Nat
    /\ in_transition \in BOOLEAN
    /\ cnt \in Nat
    /\ anon_slice \in Int
    /\ failed \in Failure

(* The alloc flags are exactly the paths recorded in the tracker, and no   *)
(* path is recorded twice, in one phase or in two: a file is mapped once.  *)
FilesUsedOnce ==
    /\ taken = {n \in Node : \E p \in Phase : \E i \in DOMAIN alloc_track[p] :
                               alloc_track[p][i].addr = n}
    /\ \A p, q \in Phase :
         \A i \in DOMAIN alloc_track[p], j \in DOMAIN alloc_track[q] :
           alloc_track[p][i].addr = alloc_track[q][j].addr
             => alloc_track[p][i].addr = NULL \/ (p = q /\ i = j)

(* A class flagged filled has no path left, whatever length the search     *)
(* that flagged it was for.                                                *)
FilledMeansFull == \A n \in Node : n[1] \in filled => n \in taken

PagesOf(s) == Fn!SumFunction([i \in DOMAIN s |-> s[i].len])
TrackedPages == Fn!SumFunction([p \in Phase |-> PagesOf(alloc_track[p])])

(* The statistics agree with the tracker: what was counted is what the     *)
(* phases hold.  The one exception is the exit on a full phase, where a    *)
(* mapping has been made and counted that no phase holds.                  *)
Accounting ==
    /\ total_alloc_pages = file_cnt + anon_cnt
    /\ failed # "tracker" => total_alloc_pages = TrackedPages
    /\ failed = "tracker" => total_alloc_pages > TrackedPages

LongestMapping == Capped(Size[max - 1])

(* A precise budget is overshot by less than one mapping: as long as the   *)
(* loop goes on, the pages of the phase and what is left of cnt stay       *)
(* within max_alloc_per_phase.  It is what the code keeps of the maximum   *)
(* that the documentation promises, see MaximumPerPhase.                   *)
PhaseBudget ==
    in_transition /\ alloc_precision /\ curr \in Phase =>
        LET pages == PagesOf(alloc_track[curr]) IN
        /\ cnt > 0 => pages + cnt <= max_alloc_per_phase
        /\ pages < max_alloc_per_phase + LongestMapping

Mappings(t) == {m \in Phase \X (1..MAX_ALLOC_PER_SE) :
                  /\ m[2] <= Len(alloc_track[m[1]])
                  /\ alloc_track[m[1]][m[2]].type = t}

(* Until a class runs out, every completed transition leaves at least      *)
(* FILE_RATIO - 1 file mappings for each anonymous one, whether the types  *)
(* were drawn from a slice or took turns.                                  *)
RatioKept ==
    filled = {} /\ ~in_transition =>
        (FILE_RATIO - 1) * Cardinality(Mappings("anon"))
            <= Cardinality(Mappings("file"))

(* A phase overflows its 500 entries only when a budget above that was     *)
(* asked for: never on the random budgets, whatever the sizes drawn.       *)
FullOnlyWhenAsked ==
    failed = "tracker" =>
        alloc_precision /\ max_alloc_per_phase > MAX_ALLOC_PER_SE

(* Although no descriptor is ever closed, the program runs out of them     *)
(* only where its setrlimit was refused.                                   *)
DescriptorsSuffice == failed = "emfile" => rlimit < FILE_MAX

-----------------------------------------------------------------------------
(* What the documentation says and the code does not do *)

(* -M is the "Maximum allocation in pages per phase": a phase has no more  *)
(* pages than that.  The code tests cnt before a mapping and cuts the      *)
(* mapping to the whole budget, not to what is left of it.                 *)
MaximumPerPhase ==
    in_transition /\ alloc_precision /\ curr \in Phase =>
        PagesOf(alloc_track[curr]) <= max_alloc_per_phase

=============================================================================
