---------------------------- MODULE TimeManager -----------------------------
(***************************************************************************)
(* The clocks of the program and its units of time.                        *)
(*                                                                         *)
(* The kernel keeps a wall clock, read by gettimeofday in seconds and      *)
(* microseconds, and a CPU clock of the thread, read by clock_gettime in   *)
(* seconds and nanoseconds.  wctime and cputime turn a reading into a      *)
(* number of units with the table converter, whose entries are integers:   *)
(* the fractions 1E-3, 1E-6 and 1E-9 it is written with become 0.          *)
(*                                                                         *)
(* Both clocks count nanoseconds here, the wall clock from some whole      *)
(* second on.  A reading is a double: the CPU time is below 2^53 and       *)
(* exact, and so are the seconds of the wall clock, but its nanoseconds    *)
(* since 1970 lie, from 2006 to 2043, between 2^60 and 2^61, where doubles *)
(* are 256 apart, and are rounded to the nearest.  A whole second is a     *)
(* multiple of 512, so counting from one does not change what is near.     *)
(***************************************************************************)
EXTENDS Integers

CONSTANTS
    KILO,           \* milliseconds in a second, and so on    (1000)
    NANOS_STEP      \* distance of doubles at the wall clock in nanoseconds (256)

ASSUME TimeAssumption ==
    /\ KILO \in Nat /\ KILO > 1
    /\ NANOS_STEP \in Nat \ {0}

VARIABLES
    cpu,        \* CLOCK_THREAD_CPUTIME_ID, in nanoseconds
    wall        \* the clock of gettimeofday, in nanoseconds

clocks == <<cpu, wall>>

MILLION == KILO * KILO
SECOND == KILO * KILO * KILO

(* Nanoseconds in a unit *)
Unit ==
    [T_SECS |-> SECOND, T_milliSECS |-> MILLION, T_microSECS |-> KILO,
     T_nanoSECS |-> 1]

time_granularity == DOMAIN Unit

(* What a second, a microsecond and a nanosecond count in each unit *)
converter ==
    [T_SECS      |-> [secs |-> 1,       microsecs |-> 0,    nanosecs |-> 0],
     T_milliSECS |-> [secs |-> KILO,    microsecs |-> 0,    nanosecs |-> 0],
     T_microSECS |-> [secs |-> MILLION, microsecs |-> 1,    nanosecs |-> 0],
     T_nanoSECS  |-> [secs |-> SECOND,  microsecs |-> KILO, nanosecs |-> 1]]

(* The multiple of s that is nearest to x; of two, the one that is an even *)
(* multiple.                                                               *)
Rounded(x, s) ==
    LET q == x \div s
        r == x % s
    IN IF 2 * r > s \/ (2 * r = s /\ q % 2 = 1) THEN (q + 1) * s ELSE q * s

wctime(t) ==
    LET tv_sec  == wall \div SECOND
        tv_usec == (wall % SECOND) \div KILO
        time    == tv_sec * converter[t].secs + tv_usec * converter[t].microsecs
    IN Rounded(time, IF t = "T_nanoSECS" THEN NANOS_STEP ELSE 1)

(* Mutated forms: the seconds are left out; the nanoseconds are added      *)
(* unconverted.                                                            *)
cputime_fraction(t) == (cpu % SECOND) * converter[t].nanosecs
cputime_raw(t) == (cpu \div SECOND) * converter[t].secs + (cpu % SECOND)

cputime(t) ==
    LET tv_sec  == cpu \div SECOND
        tv_nsec == cpu % SECOND
    IN tv_sec * converter[t].secs + tv_nsec * converter[t].nanosecs

(* Nanoseconds from a reading of a clock to the next greater one *)
WallGranule(t) == IF t \in {"T_SECS", "T_milliSECS"} THEN SECOND ELSE KILO
CpuGranule(t) == IF t = "T_nanoSECS" THEN 1 ELSE SECOND

-----------------------------------------------------------------------------

ClocksStart == cpu = 0 /\ wall = 0

(* The thread runs: both clocks advance. *)
ClocksTick ==
    /\ cpu' = cpu + 1
    /\ wall' = wall + 1

(* The thread waits for d, or the wall clock is set, forward or back. *)
WallMoves(d) ==
    /\ wall + d >= 0
    /\ wall' = wall + d
    /\ UNCHANGED cpu

=============================================================================
