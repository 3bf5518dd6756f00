---------------------------- MODULE HoldingTime -----------------------------
(***************************************************************************)
(* How long a locality is held: job and loop_for of mem_gobbler.c, seen    *)
(* through the clocks they read.  What a turn touches, and the transition, *)
(* are in MemGobbler, which counts time in whole units of an ideal clock;  *)
(* here the clocks are those of TimeManager and the units those main       *)
(* selects: seconds, or nanoseconds with -I.                               *)
(*                                                                         *)
(* An execution time is a double number of units.  It is kept in           *)
(* nanoseconds, exec_time of the code times the unit, so that half a       *)
(* second, which a vector may ask for, is a value too.                     *)
(***************************************************************************)
EXTENDS TimeManager

CONSTANTS
    SECS_STEP,  \* distance of doubles at the wall clock in seconds, in
                \*   nanoseconds: a part of a second      (2^-22 s, 238)
    ExecTimes,  \* execution times of jobs, in nanoseconds
    WallSteps,  \* bound: by how much the wall clock may be moved
    LAST_SET,   \* bound: how far the wall clock may be set
    MAX_TURN,   \* bound: nanoseconds of CPU one turn of loop_for takes
    LAST_START, \* bound: no job begins when the CPU clock is past it
    END_OF_TIME \* bound: the CPU clock stops there, past the end of all jobs

ASSUME HoldingAssumption ==
    /\ SECS_STEP \in Nat \ {0} /\ SECOND % SECS_STEP = 0
    /\ ExecTimes \subseteq Int
    /\ WallSteps \subseteq Int
    /\ LAST_SET \in Nat
    /\ MAX_TURN \in Nat \ {0}
    /\ LAST_START \in Nat
    /\ END_OF_TIME \in Nat

VARIABLES
    pc,             \* where the program is
    time_g,         \* the unit
    exec_time,      \* of this job, in nanoseconds
    program_end,    \* the end job computes on the wall clock, in nanoseconds
    now, run,       \* the locals of loop_for, in units
    lag,            \* CPU time since loop_for last read the clock
    wall_began,     \* history: the wall clock when job read it first
    cpu_began       \* history: the CPU clock when loop_for read it first

job_vars  == <<exec_time, program_end, wall_began>>
loop_vars == <<now, run, lag, cpu_began>>
vars == <<clocks, pc, time_g, job_vars, loop_vars>>

(* Locals of a function that is not running, and history that is no longer *)
(* needed, are kept at 0.                                                  *)
NoJob == exec_time' = 0 /\ program_end' = 0 /\ wall_began' = 0
NoLoop == now' = 0 /\ run' = 0 /\ lag' = 0 /\ cpu_began' = 0

(* A reading in nanoseconds *)
Nanos(r) == r * Unit[time_g]

Init ==
    /\ ClocksStart
    /\ pc = "opts"
    /\ time_g = "T_SECS"
    /\ exec_time = 0 /\ program_end = 0 /\ wall_began = 0
    /\ now = 0 /\ run = 0 /\ lag = 0 /\ cpu_began = 0

(* The command line: -I, or another option, is read, or all have been. *)
opt_I ==
    /\ pc = "opts"
    /\ time_g' = "T_nanoSECS"
    /\ UNCHANGED <<clocks, pc, job_vars, loop_vars>>

start ==
    /\ pc = "opts"
    /\ pc' = "main"
    /\ UNCHANGED <<clocks, time_g, job_vars, loop_vars>>

(* The sum of a reading of the wall clock and a time is rounded again. *)
EndStep == IF time_g = "T_nanoSECS" THEN NANOS_STEP ELSE SECS_STEP

(* job reads the wall clock for the end of the job, *)
job_begin(e) ==
    /\ pc = "main"
    /\ cpu <= LAST_START
    /\ pc' = "job"
    /\ exec_time' = e
    /\ program_end' = Rounded(Nanos(wctime(time_g)) + e, EndStep)
    /\ wall_began' = wall
    /\ UNCHANGED <<clocks, time_g, loop_vars>>

(* Mutated form: the end is compared with the CPU clock. *)
PastEnd_cpu == Nanos(cputime(time_g)) > program_end

(* and a second time to see whether it is past it already: *)
PastEnd == Nanos(wctime(time_g)) > program_end

job_skip ==
    /\ pc = "job"
    /\ PastEnd
    /\ pc' = "main"
    /\ NoJob
    /\ UNCHANGED <<clocks, time_g, loop_vars>>

job_transition ==
    /\ pc = "job"
    /\ ~PastEnd
    /\ pc' = "transition"
    /\ program_end' = 0 /\ wall_began' = 0
    /\ UNCHANGED <<clocks, time_g, exec_time, loop_vars>>

loop_begin ==
    /\ pc = "transition"
    /\ pc' = "hold"
    /\ now' = cputime(time_g)
    /\ run' = 0
    /\ lag' = 0
    /\ cpu_began' = cpu
    /\ UNCHANGED <<clocks, time_g, job_vars>>

(* Mutated form: a turn is measured from the beginning of the loop, and    *)
(* the measures are added up all the same.                                 *)
read_clock_first ==
    /\ now' = now
    /\ run' = run + (cputime(time_g) - now)

(* The time since the last reading is added to run. *)
read_clock ==
    /\ now' = cputime(time_g)
    /\ run' = run + (now' - now)

TimeLeft == exec_time > Nanos(run)

hold_turn ==
    /\ pc = "hold"
    /\ TimeLeft
    /\ read_clock
    /\ lag' = 0
    /\ UNCHANGED <<clocks, pc, time_g, job_vars, cpu_began>>

hold_end ==
    /\ pc = "hold"
    /\ ~TimeLeft
    /\ pc' = "main"
    /\ NoJob
    /\ NoLoop
    /\ UNCHANGED <<clocks, time_g>>

(* The clocks advance, within a turn of loop_for by MAX_TURN at most.      *)
tick ==
    /\ pc # "returned"
    /\ IF pc = "hold" THEN lag < MAX_TURN /\ cpu < END_OF_TIME
       ELSE cpu < LAST_START
    /\ lag' = IF pc = "hold" THEN lag + 1 ELSE lag
    /\ ClocksTick
    /\ UNCHANGED <<pc, time_g, job_vars, now, run, cpu_began>>

(* Only the readings of job look at the wall clock. *)
wall_moves ==
    /\ pc \in {"main", "job"}
    /\ \E d \in WallSteps : WallMoves(d) /\ wall' <= LAST_SET
    /\ UNCHANGED <<pc, time_g, job_vars, loop_vars>>

(* main returns: at the end of a vector, at a limit. *)
main_returns ==
    /\ pc = "main"
    /\ pc' = "returned"
    /\ UNCHANGED <<clocks, time_g, job_vars, loop_vars>>

ended == pc = "returned" /\ UNCHANGED vars

Program ==
    \/ start
    \/ \E e \in ExecTimes : job_begin(e)
    \/ job_skip \/ job_transition
    \/ loop_begin \/ hold_turn \/ hold_end \/ main_returns

Next == opt_I \/ Program \/ tick \/ wall_moves \/ ended

Spec == Init /\ [][Next]_vars

(* The thread is scheduled, and its CPU clock advances while it runs. *)
FairSpec == Spec /\ WF_vars(Program) /\ WF_vars(tick)

-----------------------------------------------------------------------------
(* Properties *)

TypeOK ==
    /\ cpu \in Nat /\ wall \in Nat
    /\ pc \in {"opts", "main", "job", "transition", "hold", "returned"}
    /\ time_g \in {"T_SECS", "T_nanoSECS"}
    /\ exec_time \in Int /\ program_end \in Int /\ wall_began \in Nat
    /\ now \in Nat /\ run \in Nat /\ lag \in 0..MAX_TURN /\ cpu_began \in Nat

(* The CPU time between the first and the last reading of loop_for *)
Held == cpu - lag - cpu_began

(* x in whole granules g, rounded down and up *)
WholeDown(x, g) == (x \div g) * g
WholeUp(x, g) == WholeDown(x + g - 1, g)

(* The turns of loop_for are measured in truncated units, most of them as  *)
(* 0 units, and added up; yet a locality is held for its execution time in *)
(* whole granules of the clock, less a granule at most, however many turns *)
(* that takes, and not a turn longer.                                      *)
HeldAsAsked ==
    LET asked == WholeUp(exec_time, CpuGranule(time_g)) IN
    pc = "hold" /\ ~TimeLeft /\ exec_time > 0 =>
        /\ Held > asked - CpuGranule(time_g)
        /\ Held < asked + MAX_TURN

(* How far below the wall clock's own value its first reading may be: half *)
(* a step of the doubles, besides the granule that truncation takes.       *)
ReadingError == IF time_g = "T_nanoSECS" THEN NANOS_STEP \div 2 ELSE 0

(* A job is skipped only if its execution time passed, or was set, on the  *)
(* wall clock between two statements of job, but for what the readings     *)
(* lose: whole seconds are never lost, and of nanoseconds half a step of   *)
(* the doubles and what is left of a microsecond.                          *)
SkipsOnlyLate ==
    [][pc = "job" /\ pc' = "main"
         => wall - wall_began
              > WholeDown(exec_time - ReadingError, WallGranule(time_g))]_vars

(* Although a clock in seconds stands still through almost every turn,     *)
(* every holding time ends.                                                *)
HoldingEnds == pc = "hold" ~> pc = "main"

-----------------------------------------------------------------------------
(* What the documentation says and the code does not do *)

(* -e is the "execution time of each locality in Ms": a locality of n is   *)
(* held for n milliseconds, give or take one and a turn.                   *)
ExecTimeInMs ==
    LET Ms == Unit["T_milliSECS"]
        n  == exec_time \div Unit[time_g]
    IN pc = "hold" /\ time_g = "T_SECS" /\ n > 0
         => Held <= n * Ms + Ms + MAX_TURN

=============================================================================
