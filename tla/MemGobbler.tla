----------------------------- MODULE MemGobbler -----------------------------
(***************************************************************************)
(* The program of mem_gobbler.c: main reads the command line, then runs    *)
(* one job per locality.  A job is a transition, which the allocator does, *)
(* and a holding time, in which loop_for touches the mappings of the       *)
(* current phase until the CPU clock has advanced by the execution time.   *)
(*                                                                         *)
(* Abstractions.  Time is counted in units of the clock main selected.     *)
(* What a touch does inside a mapping is left to the access patterns; here *)
(* a touch names its mapping.  Statistics lines and getrusage are left     *)
(* out, and so is phase_cnt, which nothing reads.  A kill by the OOM       *)
(* reaper ends a behaviour early and needs no step of its own.             *)
(***************************************************************************)
EXTENDS Allocator

CONSTANTS
    MAX_LOOP,     \* bound of the touches after each allocation (3)
    DEFAULT_WCET, \* execution time without -e (55)
    MAX_LAG,      \* bound: clock units that may pass in one turn of loop_for
    PhaseArgs,    \* arguments of -p that are tried
    ExecArgs,     \* arguments of -e
    TotalArgs,    \* arguments of -A
    Vectors       \* contents of the file named by -V: sequences of lines

(* A line of a vector: the count and the time that atol and atof find; a   *)
(* line of fewer than two fields is not whole.                             *)
Line == [count : PerPhaseArgs, wcet : Int, whole : BOOLEAN]

ASSUME GobblerAssumption ==
    /\ MAX_LOOP \in Nat \ {0}
    /\ DEFAULT_WCET \in Nat \ {0}
    /\ MAX_LAG \in Nat \ {0}
    /\ PhaseArgs \subseteq Nat
    /\ ExecArgs \subseteq Int
    /\ TotalArgs \subseteq Nat
    /\ \A v \in Vectors : v \in Seq(Line)
    /\ Vectors # {} => 1 \in PerPhaseArgs
    /\ NULL \notin Vectors /\ NULL \notin Nat

VARIABLES
    pc,             \* where main is
    max_phase,      \* -p
    wcet_ms,        \* -e, or the time of the last vector line
    alloc_size,     \* -A, NULL when not given
    vector,         \* -V: the lines of the stream, NULL without -V
    vpos,           \* lines read
    ipfvt,          \* -I
    cur_job,
    alloc_nomore,
    loops,          \* the local i of trans_rand_alloc
    touched,        \* mappings touched since the phase began
    next,           \* the local i of loop_for: mappings still to touch
    run,            \* the local run of loop_for: time accounted for
    lag             \* time since loop_for last read the clock

options == <<max_phase, alloc_size, vector, ipfvt>>
progress == <<wcet_ms, vpos, cur_job, alloc_nomore>>
locals  == <<loops, touched, next, run, lag>>
gvars   == <<pc, options, progress, locals>>
vars    == <<avars, gvars>>

(* "returned": main returned 0; "rejected": exit before the first job;     *)
(* "crashed": the code reads through NULL or outside alloc_track.          *)
Ended == {"returned", "rejected", "crashed"}
Running == failed = "no" /\ pc \notin Ended

Init ==
    /\ AInit
    /\ pc = "opts"
    /\ max_phase = MAX_ALLOC
    /\ wcet_ms = 0
    /\ alloc_size = NULL
    /\ vector = NULL
    /\ vpos = 0
    /\ ipfvt = FALSE
    /\ cur_job = 0
    /\ alloc_nomore = FALSE
    /\ loops = 0
    /\ touched = {}
    /\ next = 0
    /\ run = 0
    /\ lag = 0

-----------------------------------------------------------------------------
(* The command line: options in any order, any of them repeated. *)

Opts == Running /\ pc = "opts"

opt_p(v) ==
    /\ Opts
    /\ max_phase' = v
    /\ UNCHANGED <<avars, pc, alloc_size, vector, ipfvt, progress, locals>>

opt_e(v) ==
    /\ Opts
    /\ wcet_ms' = v
    /\ UNCHANGED <<avars, pc, options, vpos, cur_job, alloc_nomore, locals>>

opt_l(v) == Opts /\ set_max_limit(v) /\ UNCHANGED gvars
opt_s(v) == Opts /\ set_speed(v) /\ UNCHANGED gvars

opt_M(v) == Opts /\ reset_max_alloc_per_phase(v) /\ UNCHANGED gvars

(* -A keeps its argument in alloc_size, which nothing reads. *)
opt_A(v) ==
    /\ Opts
    /\ set_precise
    /\ alloc_size' = v
    /\ UNCHANGED <<pc, max_phase, vector, ipfvt, progress, locals>>

opt_V(v) ==
    /\ Opts
    /\ locality_vector_init
    /\ vector' = v
    /\ UNCHANGED <<pc, max_phase, alloc_size, ipfvt, progress, locals>>

opt_I ==
    /\ Opts
    /\ ipfvt' = TRUE
    /\ UNCHANGED <<avars, pc, max_phase, alloc_size, vector, progress, locals>>

(* -h, an unknown option, a bad access type, a vector that does not open,  *)
(* -S or -L in a build for a common kernel (on a customised one they are   *)
(* those of StmaLtma), or no memory for alloc_track                        *)
opt_rejected ==
    /\ Opts
    /\ pc' = "rejected"
    /\ UNCHANGED <<avars, options, progress, locals>>

(* The end of the command line; an execution time of 0 means the default. *)
start ==
    /\ Opts
    /\ set_file_cnt
    /\ wcet_ms' = IF wcet_ms # 0 THEN wcet_ms ELSE DEFAULT_WCET
    /\ pc' = "main"
    /\ UNCHANGED <<options, vpos, cur_job, alloc_nomore, locals>>

-----------------------------------------------------------------------------
(* One turn of main's loop, up to the call of job. *)

AtMain == Running /\ pc = "main"
LineLeft == vector # NULL /\ vpos < Len(vector)

(* Mutated form: the line is read after the job and not before, so that    *)
(* the first job runs without one.                                         *)
get_nxt_alloc_late ==
    \/ /\ vector = NULL \/ cur_job = 0
       /\ UNCHANGED <<avars, wcet_ms, vpos>>
    \/ /\ LineLeft /\ cur_job > 0
       /\ reset_max_alloc_per_phase(vector[vpos + 1].count)
       /\ wcet_ms' = vector[vpos + 1].wcet
       /\ vpos' = vpos + 1

get_nxt_alloc ==
    \/ /\ vector = NULL
       /\ UNCHANGED <<avars, wcet_ms, vpos>>
    \/ /\ LineLeft
       /\ LET line == vector[vpos + 1] IN
          /\ line.whole
          /\ reset_max_alloc_per_phase(IF ipfvt THEN 1 ELSE line.count)
          /\ wcet_ms' = line.wcet
          /\ vpos' = vpos + 1

(* Mutated form: only the file pages count against the limit. *)
LimitReached_by_files == max_limit < file_cnt

LimitReached == max_limit < file_cnt + anon_cnt

(* Mutated form: the job after the last one is run as well. *)
LastJob_late(job) == max_phase < job

LastJob(job) == max_phase <= job

main_next ==
    /\ AtMain
    /\ get_nxt_alloc
    /\ alloc_nomore' = (alloc_nomore \/ LimitReached)
    /\ cur_job' = cur_job + 1
    /\ pc' = IF LastJob(cur_job') \/ alloc_nomore' THEN "returned" ELSE "job"
    /\ UNCHANGED <<options, locals>>

(* The vector is at its end. *)
main_vector_end ==
    /\ AtMain
    /\ vector # NULL /\ ~LineLeft
    /\ pc' = "returned"
    /\ UNCHANGED <<avars, options, progress, locals>>

(* atol or atof gets the NULL that strtok returns for a missing field. *)
main_vector_torn ==
    /\ AtMain
    /\ LineLeft /\ ~vector[vpos + 1].whole
    /\ pc' = "crashed"
    /\ UNCHANGED <<avars, options, progress, locals>>

-----------------------------------------------------------------------------
(* job *)

AtJob == Running /\ pc = "job"

(* Mutated form: a skipped job is taken off the count again. *)
job_skip_uncounted ==
    /\ AtJob /\ ~in_transition
    /\ pc' = "main"
    /\ cur_job' = cur_job - 1
    /\ UNCHANGED <<avars, options, wcet_ms, vpos, alloc_nomore, locals>>

(* The wall clock passed program_end between two readings: it was set      *)
(* forward, or the execution time is negative.  main goes on.              *)
job_skip ==
    /\ AtJob /\ ~in_transition
    /\ pc' = "main"
    /\ UNCHANGED <<avars, options, progress, locals>>

(* The transition of a locality.  alloc_nomore is never set here: main     *)
(* breaks as soon as it sets it.                                           *)
job_transition ==
    /\ AtJob /\ ~in_transition
    /\ \/ trans_begin /\ loops' \in 0..(MAX_LOOP - 1) /\ touched' = {}
       \/ trans_refused /\ UNCHANGED <<loops, touched>>
    /\ UNCHANGED <<pc, options, progress, next, run, lag>>

(* A mapping is added; loop_n then touches it, if loops is not 0. *)
job_alloc ==
    /\ AtJob
    /\ track_added
    /\ touched' = IF loops = 0 THEN touched
                  ELSE touched \cup {<<curr, Len(alloc_track'[curr])>>}
    /\ UNCHANGED <<pc, options, progress, loops, next, run, lag>>

job_alloc_fails ==
    /\ AtJob
    /\ file_refused \/ open_failed \/ map_failed \/ track_overrun \/ track_full
    /\ UNCHANGED gvars

(* The transition ends and loop_for begins; both read the list_count of    *)
(* the current phase, outside alloc_track when curr is past the last one.  *)
job_hold ==
    /\ AtJob
    /\ trans_end
    /\ IF curr \in Phase
       THEN pc' = "hold" /\ next' = Len(alloc_track[curr])
       ELSE pc' = "crashed" /\ UNCHANGED next
    /\ run' = 0
    /\ lag' = 0
    /\ UNCHANGED <<options, progress, loops, touched>>

-----------------------------------------------------------------------------
(* loop_for *)

Holding == Running /\ pc = "hold"

(* Mutated forms: the start-over is missing; the index is one too high; the *)
(* start-over comes one mapping early.                                     *)
touch_next_unbounded ==
    touched' = touched \cup {<<curr, next>>} /\ next' = next - 1
touch_next_off ==
    IF next > 0
    THEN touched' = touched \cup {<<curr, next + 1>>} /\ next' = next - 1
    ELSE next' = Len(alloc_track[curr]) /\ UNCHANGED touched
touch_next_short ==
    IF next > 1
    THEN touched' = touched \cup {<<curr, next>>} /\ next' = next - 1
    ELSE next' = Len(alloc_track[curr]) /\ UNCHANGED touched

(* Touch the next mapping, from the last to the first, or start over. *)
touch_next ==
    IF next > 0
    THEN touched' = touched \cup {<<curr, next>>} /\ next' = next - 1
    ELSE next' = Len(alloc_track[curr]) /\ UNCHANGED touched

(* Mutated form: the time of the turn is measured but not added up. *)
read_clock_lost == run' = run /\ lag' = 0

(* cputime: the time since the last reading goes to run. *)
read_clock == run' = run + lag /\ lag' = 0

hold_turn ==
    /\ Holding
    /\ wcet_ms > run
    /\ touch_next
    /\ read_clock
    /\ UNCHANGED <<avars, pc, options, progress, loops>>

hold_end ==
    /\ Holding
    /\ wcet_ms <= run
    /\ pc' = "main"
    /\ UNCHANGED <<avars, options, progress, locals>>

(* The CPU clock advances while the program touches memory. *)
tick ==
    /\ Holding
    /\ lag < MAX_LAG
    /\ lag' = lag + 1
    /\ UNCHANGED <<avars, pc, options, progress, loops, touched, next, run>>

-----------------------------------------------------------------------------

ended == ~Running /\ UNCHANGED vars

Option ==
    \/ \E v \in PhaseArgs : opt_p(v)
    \/ \E v \in ExecArgs : opt_e(v)
    \/ \E v \in LimitArgs : opt_l(v)
    \/ \E v \in SpeedArgs : opt_s(v)
    \/ \E v \in PerPhaseArgs : opt_M(v)
    \/ \E v \in TotalArgs : opt_A(v)
    \/ \E v \in Vectors : opt_V(v)
    \/ opt_I
    \/ opt_rejected

Program ==
    \/ start
    \/ main_next \/ main_vector_end \/ main_vector_torn
    \/ job_skip \/ job_transition \/ job_alloc \/ job_alloc_fails \/ job_hold
    \/ hold_turn \/ hold_end

Next == Option \/ Program \/ tick \/ ended

Spec == Init /\ [][Next]_vars

(* The one thread of the program is scheduled, and its CPU clock advances. *)
Fairness == WF_vars(Program) /\ WF_vars(tick)

FairSpec == Spec /\ Fairness

-----------------------------------------------------------------------------
(* Properties *)

(* Every variable keeps its C type. *)
TypeOK ==
    /\ ATypeOK
    /\ pc \in {"opts", "main", "job", "hold"} \cup Ended
    /\ max_phase \in Nat
    /\ wcet_ms \in Int
    /\ alloc_size \in Nat \cup {NULL}
    /\ vector \in Seq(Line) \cup {NULL}
    /\ vpos \in Nat
    /\ ipfvt \in BOOLEAN
    /\ cur_job \in Nat
    /\ alloc_nomore \in BOOLEAN
    /\ loops \in Nat
    /\ touched \in SUBSET (Int \X Nat)
    /\ next \in Nat
    /\ run \in Nat
    /\ lag \in 0..MAX_LAG

(* Whatever the command line, the vector, the clock and the kernel do,     *)
(* main keeps the contract of the allocator: it makes its settings before  *)
(* the first phase, sets a budget only between phases, never goes over to  *)
(* precise budgets after a phase on a random one, and begins no phase      *)
(* inside another or after a failure.                                      *)
ImplementsAllocator == ASpec

(* The entries of a phase in the tracker, as segments of its locality *)
SegmentsOf(p) ==
    IF p \in Phase THEN {p} \X DOMAIN alloc_track[p] ELSE {}

L == INSTANCE Locality WITH
        Segment    <- Phase \X (1..MAX_ALLOC_PER_SE),
        state      <- IF ~Running THEN "over"
                      ELSE IF pc = "hold" THEN "holding"
                      ELSE IF in_transition THEN "transition"
                      ELSE "idle",
        mapped     <- UNION {SegmentsOf(p) : p \in Phase},
        current    <- SegmentsOf(curr),
        referenced <- touched

(* Whatever the options, the clocks and the failures, the program is a     *)
(* sequence of localities: a transition adds segments that no phase had, a *)
(* holding time adds none and references those of its own phase only, and  *)
(* each locality starts with an empty working set.                         *)
ImplementsLocality == L!Spec

(* Unless -p asks for more than MAX_ALLOC + 1 localities, skipped jobs and *)
(* all, a phase never leaves alloc_track and go_to_nxt_phase never refuses *)
(* one: main breaks before the job that would.                             *)
PhasesFit ==
    max_phase <= MAX_ALLOC + 1 =>
        curr < MAX_ALLOC /\ failed \notin {"phases", "overrun"}

(* The limit of -l is tested between jobs only, so it can be overshot, but *)
(* by no more than the current phase: the pages of all the earlier phases  *)
(* are within it.                                                          *)
OvershootByOnePhase ==
    curr \in Phase /\ failed # "tracker" =>
        total_alloc_pages - PagesOf(alloc_track[curr]) <= max_limit

(* A vector never gets out of step: the locality that runs has the budget  *)
(* and the time of its own line, and a skipped job skips its line.         *)
TraceInStep ==
    vector # NULL /\ pc \in {"job", "hold"} =>
        /\ vpos = cur_job
        /\ max_alloc_per_phase = IF ipfvt THEN 1 ELSE vector[cur_job].count
        /\ wcet_ms = vector[cur_job].wcet

(* A holding time of as many turns as the phase has mappings references    *)
(* the whole locality, even when every turn takes as long as it can.       *)
WorkingSetCovered ==
    [][pc = "hold" /\ pc' = "main"
         /\ wcet_ms >= MAX_LAG * Len(alloc_track[curr])
       => \A i \in DOMAIN alloc_track[curr] : <<curr, i>> \in touched]_vars

(* Every run of the program ends, by itself or in a failure: no phase is   *)
(* held for ever and no transition loops on an exhausted drive.            *)
Terminates == <>~Running

-----------------------------------------------------------------------------
(* What the documentation says and the code does not do *)

(* go_to_nxt_phase stops at MAX_ALLOC ("reached maximum phase              *)
(* transitions"), so curr should stay an index of alloc_track.             *)
PhasesWithinTracker == curr < MAX_ALLOC

=============================================================================
