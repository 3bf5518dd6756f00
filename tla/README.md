# A verification project for the phase-based memory gobbler

`memgobble` (src/mem_gobbler.c) is a stress tool for the memory management of
an operating system. It runs *localities* one after another; each one is a
*transition*, which maps new file or anonymous memory, and a *holding
time*, which touches what the transition mapped. Nothing it maps is ever given
back: memory runs out, a limit is reached, the asked number of localities is
done, the trace ends, or the kernel kills it.

Only mem_gobbler.c is compiled (src/Makefile.am). The other C files are an
unfinished split of the program into managers, which does not compile. It is a
program of its own, with simpler localities, and is modelled as such.

## Inventory

| component | state | operations | hard behaviour |
|---|---|---|---|
| file list (mem_gobbler.c:125-134, 815-854; files.h) | the size classes `file_lst`, an `alloc` flag per path, a `filled` flag per class | find_avail_node, get_file_path | classes that run out one after another; the flag of a path is set by another function, after the mapping |
| allocator (300-305, 932-1202) | `curr`, `alloc_track`, `file_cnt`, `anon_cnt`, `total_alloc_pages`, the static counter of the types, the locals `cnt` and `anon_slice`, the settings | go_to_nxt_phase, randomize_alloc_type/len/count, alloc, mmapper, add_new_alloc, random_allocator_one, trans_rand_alloc | budgets in mappings or pages, unsigned subtraction, full tracker, open, mmap and setrlimit that fail, descriptors that are never closed |
| main, job, holding loop (1204-1261, 1313-1456) | `cur_job`, `max_phase`, `wcet_ms`, `alloc_nomore`, the index of loop_for, its clock | the options, job, loop_for | when the loop breaks, skipped jobs, wall clock and CPU clock, a loop that ends only by time it adds up itself |
| vector of localities (309-359) | the stream `vector_stream` | locality_vector_init, get_nxt_alloc | a line is consumed before it is known whether its job runs; torn lines |
| access patterns (489-801) | the list of pages of the fix pattern | touch_simple, fix, stride, sequential, repeat, random | offsets at the ends of a mapping |
| randomizer (442-488) | the seed | rand_lim, rand_intr | reseeded with whole CPU seconds on every call |
| time manager (362-440) | the unit `time_g`, the table `converter` | wctime, cputime | fractions truncated to 0 |
| STMA / LTMA reset (217-298) | two kernel parameters | reset_stma_ltma | derived values, write and read back |
| output (1263-1311) | none | usage, statistics | none |
| refactored managers (precise_allocer.c, alloc_manager.c, file_manager.c, job_manager.c, pattern_manager.c, vector_manager.c, time_manager.c) | a vector, `curr`, `alloc_track`, the counter of the types, the fix list | one mapping per job, touched until its time is over | a missing return value; nothing counts the jobs; malloc answers that are not looked at |
| drive generator, build | | | no behaviour of the program |

The program has one thread. What it cannot foresee is the command line, the
trace, the clocks, the random draws, and what open, mmap, madvise, setrlimit and
malloc answer; those are the nondeterministic choices of the model. The
components interact through calls and global variables: main sets the allocator
up, job calls trans_rand_alloc and loop_for, trans_rand_alloc takes paths from
the file list and appends to the tracker, loop_for reads the tracker.

What makes each component correct:

- **file list**: a path is given out once; a class flagged filled is full.
- **allocator**: the statistics agree with the tracker; a budget is overshot by
  less than one mapping; anonymous and file mappings keep their ratio; a phase
  overflows only if asked to; the descriptors last; cnt never wraps.
- **main**: it uses the allocator as the allocator expects; the phases stay
  within the tracker; the limit is overshot by one phase at most; a trace stays
  in step with the jobs; a holding time of enough turns references the whole
  locality; every run is a sequence of localities, and ends.
- **time**: a locality is held for the time asked for, in whole readings of the
  clock; a job is skipped only when its time is over, but for what readings lose.
- **randomizer**: a draw lies in its range, and is made in the end; draws are random.
- **STMA / LTMA**: the program goes on only if the kernel has what was asked for.
- **refactored program**: a trace is replayed line by line and stays within the
  tracker; the ratio of the types is exact; it is a sequence of localities, too.

## Modules

    FileList  <-- Allocator <----- MemGobbler ......> Locality
       ^             ^                 ^                 :
       |      MC_Allocator        MC_MemGobbler          :
       |                                                 :
       +--------- PreciseAllocer ........................:
    StmaLtma <----+     ^
                   MC_PreciseAllocer

    AccessPattern <-- MC_AccessPattern

    TimeManager <-- HoldingTime <-- MC_HoldingTime
         ^--------- Randomizer  <-- MC_Randomizer

and the proofs, each of which extends the module it is about:

    ArithmeticLemmas <-- AllocatorProofs <-- AccountingProofs <-- MemGobblerProofs
       ^-- HoldingTimeProofs, RandomizerProofs, PreciseAllocerProofs
    AccessPatternProofs

A solid arrow is EXTENDS, a dotted one INSTANCE ... WITH, a refinement.

### FileList

Constants give the drive: `max` classes, `Size` in pages, `PathCnt`. The alloc
flags are the set of taken paths, so `get_file_path(taken, len)` is a function of
that set: the first path in scan order that is free and long enough, as the set
of at most one path. `ScannedFull` are the classes the same scan flags as
filled. `FileListAssumption` is what file_gen.sh writes: sizes that double, one
list per class, ended by NULL.

### Allocator

The variables are the globals of the code under their own names, and the locals
`cnt` and `anon_slice` of trans_rand_alloc. One action per outcome of a turn of its
loop:

| action | code |
|---|---|
| set_max_limit, set_speed, set_precise, reset_max_alloc_per_phase, locality_vector_init, set_file_cnt | what main calls or assigns |
| trans_begin, trans_refused | go_to_nxt_phase and the choice of the budget; the refusal of a phase |
| file_refused | no path is left: the attempt costs one of cnt |
| open_failed, map_failed | open, mmap or madvise fails: exit |
| track_overrun | curr is past alloc_track: undefined behaviour, the model stops |
| track_full | the phase has no room: counted, then exit |
| track_added | the mapping is recorded and counted, the path flagged, cnt reduced |
| trans_end | cnt is 0 |

A step is atomic from one turn of the loop to the next; the program has one
thread and no handler, so nothing can come in between. Lengths are in
pages, since files.h and the cap both hold multiples of 4096; the wrap of
pages * 4096 in 64 bits is kept (`PAGE_WRAP`). `rand_lim` and `rand_intr` are any value
of their range, whatever the seed. An address is the path mapped there.

`failed` says why the process exited; an exited process does nothing.

What the allocator expects of its caller is not a guard of the operations, which the code does not
have either, but stated apart, as conjuncts of `ANext`: settings change before the first phase
(`Configuring`), a budget between phases and never to a precise one after phases on random budgets
(`Budgeting`), and a transition begins when none is under way (`Between`). A caller that breaks one of them
takes a step that `ANext` does not allow.

### MemGobbler

Extends the allocator by main, job and loop_for. `pc` is where main is: reading
options, at the top of its loop, in a job's transition, in a holding time, or
ended. The options are actions that may come in any order, any number of times.
`hold_turn` is one turn of loop_for: it touches a mapping and adds the time since
its last reading of the clock, which `tick` advances independently, by at most
`MAX_LAG` units a turn. `job_skip` is the job that finds the wall clock past its
end. `touched` records which mappings of the phase have been referenced.

`ImplementsAllocator` is the refinement: the program, seen through the variables of the
allocator, is a behaviour of `ASpec`. What it says beyond the operations, which the program shares, is that main keeps
the contract: with a vector, a line sets a budget between two localities, when phases have
been used, and what makes that right is that a line is read before the first locality too, so that there never is a
phase on a random budget. (A program that reads its line after the job breaks the contract; it is the mutated
form.) So what holds of the allocator on its own, under a most general client, holds of the program.

### Locality

The abstract specification of what both programs promise, and the only module
that translates no code: a program is idle, in a transition, holding, or over.
A transition maps segments that no locality has mapped before; a holding time maps
nothing and references segments of its own locality only; a locality begins with
nothing mapped and nothing referenced. A transition may reference what it has just mapped, as
trans_rand_alloc does (1191). `ImplementsLocality` of MemGobbler and of
PreciseAllocer instantiates it: a segment is an entry of the tracker, `mapped` is the
whole tracker, `current` what is in phase `curr`, `referenced` what has been touched.

### TimeManager and HoldingTime

TimeManager has the two clocks, in nanoseconds, and the functions that read them in
a unit, with the table `converter` as the compiler makes it: integers, the
fractions 0. A thousand is the constant `KILO`, so that a second can be short
enough to check.

A reading is a double. The CPU time is exact, up to 2^53 ns or 104 days of it; so are the seconds of the wall
clock. Its nanoseconds since 1970 are not: from 2006 to 2043 they lie between 2^60 and 2^61, where doubles are 256
apart, so `wctime` under -I gives the nearest multiple of `NANOS_STEP` (`Rounded`, ties to the even one), and
`job_begin` rounds again the sum of a reading and the execution time, to `NANOS_STEP` or, in seconds, to `SECS_STEP`
(2^-22 s from 2004 to 2038). The model's wall clock counts from some whole second, which is a multiple of 512 ns and so
changes no rounding.

HoldingTime is job and loop_for once more, seen through those clocks; it is where
MemGobbler's ideal clock, one unit of CPU time per tick, is justified. `job_begin` reads
the wall clock for the end of the job, `job_skip` and `job_transition` read it again, and
it may be set between the two (`wall_moves`). `read_clock` is the end of a turn: the
difference of two truncated readings is added to `run`. `wall_began` and
`cpu_began` are history, for the properties. An execution time is a number of
nanoseconds, so that a fraction of a unit, which a vector may ask for, is there too.

### Randomizer

`srand` and `rand` are those of the C library: after a seed the generator gives
a fixed sequence, which one is any of `Generators`. rand_lim and rand_intr seed it with the CPU time in
whole seconds and draw, a number a step (`lim_draw`, `intr_draw`);
`len_begin`, `len_again` and `len_end` are the loop of randomize_alloc_len around rand_intr.
`tick` lets CPU time pass at any moment. The history variable `last` is the call before the last
one, which SequenceIsRandom compares with the last one.

### StmaLtma

reset_stma_ltma, a step per call of stdio that can fail: the old lengths are
read, the new ones written, then read back. A write is lost or cut short at fclose
without a word; a read that fails leaves zeros; the third fopen is not checked.
The same text is in mem_gobbler.c and in vector_manager.c.

### PreciseAllocer

The refactored program, of main in precise_allocer.c and the managers:

| action | code |
|---|---|
| opt_V, opt_I, opt_lengths, opt_rejected, start | the option loop of main; file_mgr_set_file_cnt |
| init_reset, init_end | Init of precise_allocer.c, with the steps of StmaLtma |
| main_job, main_vector_end | vector_mgr_get_nxt and the cap of a mapping |
| go_to_nxt_phase, alloc_added, alloc_failed | trans_rand_alloc: a phase, and the one mapping of it |
| stabilise_begin, touch_once_curr, stabilise_end | stabilise, with pattern_fix |
| job_returns | job: the value stabilise does not return |

It does not compile, because functions are called by names that differ from those they
are defined with; the model takes the one that can be meant. `wcet_ms` without a
vector is never set, so it starts as any value of `Junk`. Without `return` in stabilise, main's loop goes
on or ends as it happens.

### AccessPattern

What one call of touch does inside a mapping, for the access type of the run
(-t). A step is one turn of the innermost loop of the pattern: `stride_turn`,
`seq_turn`, `repeat_turn`, `random_touch_page`; `random_next_page` and
`random_next_slice` are the turns of the loops around it. `at` is the range of bytes
that the last step touched, `fix_head` the bookkeeping of fix, which outlives the
calls, `visited` the windows that random has touched. The numbers the code has
hard-wired (4096, 1000, 20, 10, 50, ...) are constants, and `PatternAssumption`
says how they must relate for the code to work; the real ones satisfy it. The
ceiling in repeat_get_count is on doubles; on the distances it is used for it is
the integer one.

The holding loop of MemGobbler calls touch for a mapping of the current phase,
and a call depends on nothing of the phase but the address and the length, so
the two modules are checked apart: `call` takes any mapping, in a transition or
not.

## Runs

| run | instance | shows |
|---|---|---|
| allocator_drive | two classes of 1 and 2 pages, two paths each; two phases of 3 mappings; budgets 3, 4 (a wrap of the cap to 0) and 5; limits at which the length is forced and free; 5 or 8 descriptors for a drive of 4 files | ATypeOK, FilesUsedOnce, FilledMeansFull, Accounting, PhaseBudget, FullOnlyWhenAsked, DescriptorsSuffice |
| allocator_ratio | one class as in files.h with 11 paths, the real FILE_RATIO 4, random budgets of 5 and 6, precise ones too, two phases | RatioKept |
| gobbler | one class of 3 paths, two phases of 3 mappings; -p 3 or 4, -e -1 or 3, -l 1, -M 0, 1, 2 or 4, -s 0, -A 1, -I, and -V with one of three vectors of two and three lines, with a negative time, a count of 0 and a torn line | TypeOK, PhasesFit, OvershootByOnePhase, TraceInStep, ImplementsAllocator, ImplementsLocality, WorkingSetCovered, Terminates |
| patterns | the five patterns on mappings of 1, 3 and 4 pages (halves shorter than a page, of one and a half, of two); all constants shrunk to a page of 16 bytes; a STRIDE_CUT above one page, so that the piece is halved | TypeOK, InBounds, FixNodeUnique, FixStays, BothHalves, Returns |
| clocks | seconds of 8 ns (KILO 2); execution times of none, less than a second, one and two, and a negative one; turns of up to 3 ns; a wall clock that is set forward and back; doubles 4 ns apart | TypeOK, HeldAsAsked, SkipsOnlyLate, HoldingEnds |
| randomizer | all generators of two seeds and two numbers each, out of one that every range accepts, one that rand_lim rejects and one that rand_intr rejects too; limits 2 and 3, intervals that begin at 0 and at 1; three tries, three draws | TypeOK, DrawInRange, DrawsEnd |
| precise | five phases; traces of five, six and two lines, with counts that cut a mapping, that do not and that wrap, and with a torn line; lengths of four bits; every failure | TypeOK, KernelAsAsked, TraceReplayed, TraceFits, FilesUsedOnce, RatioExact, ImplementsLocality, Terminates |
| gobbler_phases | the instance of gobbler, with -p 4 and -M 1 | a disagreement, below |
| pattern_pages | the mappings of patterns | one more |
| clock_unit | the instance of clocks | one more |
| allocator_budget | the instance of allocator_drive | one more |
| randomizer_sequence | the instance of randomizer, with generators that alternate between two numbers all draws of a type or a class accept | one more |

**Bounds.** `MAX_ALLOC` (2 phases instead of 60000), `MAX_ALLOC_PER_SE` (3 or
6 mappings instead of 500) and the drives are small so that both tracker and
drive run out, in either order; every failure of the code is reached in
allocator_drive. `TRANS_LO..TRANS_HI` shrink the random budgets of 5 to 18, except in allocator_ratio,
where the size of the slice matters. A locality takes one of the execution
times of `ExecArgs`, at most three units, which is as many turns as the largest
phase has mappings. One -V per command line is a bound; a second one would only leave one
more descriptor open.

The access patterns are bounded by the mappings alone; everything else is
finite. Whether a window lies inside its mapping depends on how half of the
length divides into pages, and the three lengths give the three cases.

In clocks, what matters is how an execution time, a turn and a second
compare: a turn is shorter than a second and longer than a nanosecond, and a job may last
less than a second, just one or more, from any phase of a second on. `LAST_START` ends
the jobs after the first second, which leaves all CPU clocks below 32, short of the `END_OF_TIME`
of 36 at which a clock would stop, and `LAST_SET` the settings of the wall clock after two and a
half. With `NANOS_STEP` and `SECS_STEP` 4 the doubles are further apart than the microseconds of 2 ns and nearer than
a second, so that readings are rounded up, down and from the middle; SkipsOnlyLate fails there without the
`ReadingError` of half a step.

In randomizer, `END_OF_TIME` lets CPU time pass through seconds 0, 1 and 2, and with
`SEED_WRAP` 2 the third has the seed of the first. `PERIOD` 2 gives a generator that hits a
range at once, at its second number, or never. The three numbers of `MC_Numbers` are the
kinds that the acceptance tests tell apart.

In precise, five phases are what it takes for an anonymous mapping (the fifth is the first one)
and a trace longer than the tracker. The drive has five paths, one more than the file mappings of the
five phases, as that of files.h has, whose 50,000 paths outlast the file
mappings of 60,000 phases; so here, as there, the tracker is overrun before go_to_nxt_phase
could refuse a phase, and its exit is never taken.

**Fairness.** `WF(Program)`: the only thread is scheduled. `WF(tick)`: its CPU clock,
CLOCK_THREAD_CPUTIME_ID (CLOCK_PROCESS_CPUTIME_ID in time_manager.c), advances
while it runs. No fairness is assumed of the options,
the draws or the failures. Terminates needs both, and it needs no fairness
of the choice between them: a turn that adds no time leaves the model's clock
to tick. The same two hold HoldingEnds up, although the clock in seconds stands still through most turns.
Returns, of the access patterns, and DrawsEnd, of the randomizer, assume
`WF(Turn)` and `WF(Step)`: the thread that called a function runs on. For rand_lim, whose loop
has no bound, DrawsEnd also assumes that the generator gives a number it
accepts, which the loop needs and the code takes for granted.

### Where code and documentation disagree

- **PhasesWithinTracker** (mem_gobbler.c:866): the index is tested before it is
  incremented, so with -p above MAX_ALLOC + 1 it reaches MAX_ALLOC and the
  tracker is used one element past its end. `PhasesFit` shows that no smaller
  -p can do it.
- **EveryPageVisited** (761): random skips the last page of an interval of two or
  more whole pages. A comment (754) says there is a bug here; this is it.
- **MaximumPerPhase** (1147, 1295, README.md:85): -M is the "maximum allocation in pages per
  phase", but the last mapping is made at its full length: a budget of 3 is filled by two mappings of 2.
  `PhaseBudget` shows what is true: less than one mapping more. With the class of one page of files.h the two agree.
- **SequenceIsRandom** (461, README.md:30-44): rand_lim and rand_intr seed the generator with the
  CPU time in seconds before each draw, so that all draws of a second with the same range are one draw: of types, sizes, counts,
  and of the indexes that random touches. The ten tries for a class within -l (972) are one try, too, and the class of
  the last is used, within the limit or not. With srand called once, TLC finds the property true.
- **ExecTimeInMs** (216, 1294, README.md:84): the unit is a second unless -I is
  given, so -e n holds a locality for n seconds and not n "Ms".

Seen while reading, and in need of no run: the limit of -l is compared between jobs
and with a strict inequality (1442), though it is the "maximum allocation" (204;
`OvershootByOnePhase` shows what is true of it); the total of -A is stored and printed only
(1357); a holding time touches the current phase only (1006), though it "sometimes" should touch older ones (30, README.md:50-51); the filled flags are never read, so phases go on when "all the files in
all list are exhausted" (31); repeat_get_count gives distances from 1000 on
two turns and those from 800 to 999 one (690), against its comment (684).

## Proofs

All theorems hold for every value of the constants that satisfies the named
assumptions. `FileListAssumption` is what the generator of the drive guarantees;
`AllocatorAssumption`, `GobblerAssumption`, `PatternAssumption`, `RandomAssumption`,
`LengthAssumption`, `PreciseAssumption`, `TimeAssumption` and `HoldingAssumption` are types, signs and the
relations of the hard-wired numbers, and `DescriptorsAssumption` says that the
limit set at start covers the drive and the standard streams. Each run evaluates those of its modules.

Every invariant and every action property that a passing run checks is proved, and so are the
three refinements.

| theorem | property | inductive invariant, and why the property needs it |
|---|---|---|
| *AllocatorProofs* | | |
| AllocatorTypeCorrect | ATypeOK | itself; cnt >= 0 rests on the clamp of CntAfter |
| EachFileMappedOnce | FilesUsedOnce | with ATypeOK: a path is chosen outside `taken`, and `taken` is what the tracker holds |
| FilledFlagsRight | FilledMeansFull | with ATypeOK: `taken` only grows, and a class is flagged by a scan that found none free |
| PhaseNeverOverflows | FullOnlyWhenAsked | `RoomLeft`: entries of the phase plus cnt never exceed the budget; later phases are empty |
| DescriptorsLast | DescriptorsSuffice | `FdsCounted`: open descriptors are at most the paths taken and four more |
| SearchIsBestFit | | a lemma about get_file_path: the scan has a first path if any fits, one only, and of the smallest size |
| *AccountingProofs* | | |
| StatisticsRight | Accounting | itself, with the steps of the sums: a mapping adds its length to the sum of its phase and to no other |
| BudgetOvershotByOneMapping | PhaseBudget | itself, with `RoomLeft`: a phase begins empty, and each turn moves pages from cnt to the phase |
| RatioOfTypesKept | RatioKept | `Balanced`: with a slice, what is left of cnt makes up for what is left of the slice; without one, the counter of randomize_alloc_type is the number of mappings |
| *MemGobblerProofs* | | |
| ProgramImplementsAllocator | ImplementsAllocator | `KeepsContract`: options are read before the first phase, no transition is under way outside a job, and phases on random budgets have no vector; so each call of the program is one the allocator expects |
| ProgramAllocatesSafely | those of the allocator | the refinement, and the theorems of the allocator |
| ProgramTypeCorrect | TypeOK | with `KeepsContract` and `HoldsAPhase`: a phase that is held is one of the tracker |
| PhasesStayInTracker | PhasesFit | `JobsCounted`: jobs are counted before they begin a phase, and begin one at most |
| LimitOvershotByOnePhase | OvershootByOnePhase | `OneOver`: a job that has not begun its phase found the total within the limit |
| TraceStaysInStep | TraceInStep | `LinesCounted`: lines read and jobs counted agree at every pc |
| HoldingCoversPhase | WorkingSetCovered | `Sweep`: all above `next` is touched, and until all is, the time added up is bounded by the turns made |
| ProgramImplementsLocality | ImplementsLocality | `InItsPhase`, with RoomLeft, JobsCounted and Sweep: what is touched belongs to the current phase, and the next phase is empty when it begins |
| *AccessPatternProofs* | | |
| PatternTypeCorrect, PatternsStayInside | TypeOK, InBounds | `PInv`: with `NodesInside`, the bytes fix has decided on lie in their mappings |
| FixNodeOnce, FixTouchesItsByte | FixNodeUnique, FixStays | with PInv; the second, an action property, follows from the first |
| RandomTouchesBothHalves | BothHalves | `FirstPageFirst`: a half that was left has had its first page touched, because the first page of a half always has a window |
| *HoldingTimeProofs* | | |
| HoldingTypeCorrect, LocalityHeldAsAsked | TypeOK, HeldAsAsked | `Measured`: the truncated differences add up to the difference of the last and the first reading, and the reading before the last still left time |
| JobsSkippedLate | SkipsOnlyLate | `EndIsSet`: the end of a job is its first reading of the wall clock plus its time, rounded; `RoundedMonotone`: a rounded reading past a rounded end comes from a clock past the end (`PastRounded`), and a reading is below its clock by half a step at most |
| *RandomizerProofs* | | |
| RandomizerTypeCorrect, DrawsInRange | TypeOK, DrawInRange | `Ranged`: what a call may ask for; the number that rand_intr gives up on is in range like one it accepts |
| *PreciseAllocerProofs* | | |
| PreciseTypeCorrect | TypeOK | `Typed`: with `CurrOK`, a phase that is held is one of the tracker |
| ResetIsVerified | KernelAsAsked | `LengthsAreSet`: past the derivation neither length is 0, so that the zeros of a failed read are found out |
| TraceIsReplayed, TraceFitsTracker | TraceReplayed, TraceFits | `InStep` and `OnePerPhase`: line and phase go together from main to the end of a job, and a phase is empty until its transition |
| FileUsedOnce | FilesUsedOnce | `FlaggedIsRecorded`: a flagged path has a phase, and one only |
| RatioIsExact | RatioExact | `TypesCounted`: as long as nothing fails, the counter is the number of localities; `NextTurn` is the arithmetic |
| PreciseImplementsLocality | ImplementsLocality | `FixedBefore`: the list of pattern_fix has phases up to the current one only, and that one not before it is held |

TLC finds the inductive invariants true on the instances of the runs too.

The proofs rest on lemmas about the operators: `LargestPiece` and `StrideInside`
(the stride is between 1 and the length), `RepeatCountPositive`, `WindowInside`
(what random touches lies in the mapping), `FirstPath`, `CappedType`, `CntAfterType`,
`HeldBounds`, `RoundedBounds`, `RoundedMonotone`, and those of ArithmeticLemmas. There the sums over the entries of a
phase, folds in the model, are shown to exist, not to depend on the order of the fold,
and to grow by an entry that joins. Such a fact needs an induction, and the induction theorems
of the library take an operator, which the provers cannot instantiate. It is done as a descent: the sizes of
the finite sets for which the fact fails are a set of natural numbers, which would have a least element
(`LeastNat`, from WFMin), and the set of that size without one element is a smaller exception. The quotients and
rests are there because no prover finds the bounds of a product of two unknowns on
its own.

Left to the model checker: the liveness properties, Terminates of both programs, Returns,
HoldingEnds and DrawsEnd, which are out of the
prover's reach, and the runs that show a document to be wrong.

## Not modelled

Output is left out
because no property is about it. The bytes of a mapping, page faults and the OOM
reaper are the kernel's. `loop_once` only burns time; the overflow of its int
counters is undefined behaviour whose result nobody reads. timer_start, timer_end
and lt_sleep are called by nobody. The drive generator is a script that runs before the
program; what it guarantees is FileListAssumption. files.h is its output, a table of 50,000
paths: FileList has it as constants.

In PreciseAllocer, the redraws of randomize_alloc_len are dead code, since max_limit is 1 page, and
so is the room of a phase, of which one mapping is used. Not modelled are
CPU times above 2^53 ns, wall clocks before 2006 or after 2038, and the exit codes.

What the properties leave aside, though it is modelled: a derived LTMA that wraps in 64 bits to a value other than 0 (`-S` from
2^63 + 1 on; KernelAsAsked speaks of the lengths given and of 0), the crash of pattern_fix without memory and that on a torn line, which
count as ends of the program. The unset time of PreciseAllocer is any integer of `Junk`; an indeterminate double may be
infinite, and a holding time then would not end, which Terminates leaves aside.

## Plan

1. FileList, Allocator, MemGobbler, AccessPattern, TimeManager, HoldingTime, Randomizer,
   StmaLtma, PreciseAllocer and Locality: done, as above.
2. Proofs: every safety property and refinement that a run checks, done. What can
   still be stated are the measures behind the liveness properties, as action
   properties: what goes down in each turn of loop_for, of rand_intr and of a transition.
