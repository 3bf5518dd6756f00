----------------------------- MODULE Randomizer -----------------------------
(***************************************************************************)
(* The randomizer of mem_gobbler.c: rand_lim and rand_intr, which draw a   *)
(* number of a range from the generator of the C library, and the one      *)
(* caller that draws in a loop, randomize_alloc_len.                       *)
(*                                                                         *)
(* After srand(s) the generator gives the numbers gen[s][0], gen[s][1] and *)
(* so on, and in the end repeats itself.  Which function gen is, is the    *)
(* library's affair: any of Generators, the same through a run.  Every     *)
(* call of rand_lim and rand_intr seeds it anew with the CPU time in whole *)
(* seconds.                                                                *)
(***************************************************************************)
EXTENDS TimeManager

CONSTANTS
    RAND_MAX,       \* largest number of rand()                (2^31 - 1)
    PERIOD,         \* numbers until the generator repeats itself
    SEED_WRAP,      \* values of an unsigned int               (2^32)
    Generators,     \* the generators the library may have
    UPPER,          \* redraws of rand_intr                    (128)
    TRIES,          \* tries of randomize_alloc_len            (10)
    speed,          \* the largest class it may draw, option -s
    Limits,         \* arguments of rand_lim: type_max, MAX_LOOP, len - 20
    Intervals,      \* arguments of rand_intr, pairs
    END_OF_TIME     \* bound: the CPU clock stands still then

Seed == 0..(SEED_WRAP - 1)
Index == 0..(PERIOD - 1)

(* No caller of rand_lim passes 0, which it would draw for for ever.       *)
ASSUME RandomAssumption ==
    /\ RAND_MAX \in Nat /\ PERIOD \in Nat \ {0} /\ SEED_WRAP \in Nat \ {0}
    /\ Generators \subseteq [Seed -> [Index -> 0..RAND_MAX]]
    /\ UPPER \in Nat /\ TRIES \in Nat \ {0} /\ END_OF_TIME \in Nat
    /\ speed \in 0..(RAND_MAX - 1)
    /\ Limits \subseteq 1..(RAND_MAX - 1)
    /\ Intervals \subseteq {i \in Nat \X Nat : i[1] <= i[2] /\ i[2] < RAND_MAX}

VARIABLES
    gen,            \* the generator
    seed, drawn,    \* its state: the last seed, and the place after it
    busy,           \* rand_lim or rand_intr is running
    fn, lo, hi,     \* the last call of one of them, and its range
    upper,          \* draws that rand_intr has left
    result,         \* what the last call returned
    retrying,       \* randomize_alloc_len is running
    l,              \* its local: tries left
    fits,           \* its guard: the largest class within max_limit
    last            \* history: the call before the last

generator == <<gen, seed, drawn>>
call == <<busy, fn, lo, hi, upper, result>>
client == <<retrying, l, fits>>
vars == <<clocks, generator, call, client, last>>

LastCall == [fn |-> fn, lo |-> lo, hi |-> hi, seed |-> seed, result |-> result]

Init ==
    /\ ClocksStart
    /\ gen \in Generators
    /\ seed = 1 % SEED_WRAP /\ drawn = 0
    /\ busy = FALSE /\ fn = "none" /\ lo = 0 /\ hi = 0
    /\ upper = 0 /\ result = 0
    /\ retrying = FALSE /\ l = 0 /\ fits = 0
    /\ last = LastCall

-----------------------------------------------------------------------------
(* rand_lim and rand_intr *)

(* Mutated form: the seconds are not cut to an unsigned int. *)
srand_uncut == seed' = cputime("T_SECS") /\ drawn' = 0

srand == seed' = cputime("T_SECS") % SEED_WRAP /\ drawn' = 0

rand(k) == gen[seed][k]
next == (drawn + 1) % PERIOD

Begin(f, b, e, draws) ==
    /\ ~busy
    /\ srand
    /\ busy' = TRUE
    /\ fn' = f /\ lo' = b /\ hi' = e /\ upper' = draws
    /\ last' = LastCall
    /\ UNCHANGED <<clocks, gen, result>>

Return(r) ==
    /\ busy' = FALSE
    /\ result' = r
    /\ upper' = 0
    /\ UNCHANGED <<fn, lo, hi>>

rand_lim(limit) ==
    /\ ~retrying
    /\ Begin("rand_lim", 0, limit - 1, 0)
    /\ UNCHANGED client

rand_intr(begin, end) ==
    /\ ~retrying
    /\ Begin("rand_intr", begin, end, UPPER + 1)
    /\ UNCHANGED client

(* What rand_lim makes of the k-th number: hi + 1 is its limit. *)
lim_value(k) == rand(k) \div (RAND_MAX \div (hi + 2))

(* Mutated form: a value equal to the limit is accepted. *)
lim_accepts_limit(k) == lim_value(k) <= hi + 1

lim_accepts(k) == lim_value(k) <= hi

lim_draw ==
    /\ busy /\ fn = "rand_lim"
    /\ drawn' = next
    /\ IF lim_accepts(drawn) THEN Return(lim_value(drawn)) ELSE UNCHANGED call
    /\ UNCHANGED <<clocks, gen, seed, client, last>>

range == (hi - lo) + 1

intr_value(k) == (rand(k) % range) + lo

(* The number lies in one of the buckets of the range. *)
intr_accepts(k) == rand(k) < RAND_MAX - (RAND_MAX % range)

(* Mutated form: it draws until it hits a bucket. *)
intr_draw_unbounded ==
    /\ busy /\ fn = "rand_intr"
    /\ drawn' = next
    /\ IF intr_accepts(drawn) THEN Return(intr_value(drawn)) ELSE UNCHANGED call
    /\ UNCHANGED <<clocks, gen, seed, client, last>>

(* When no draw is left, the last number is taken whatever it is. *)
intr_draw ==
    /\ busy /\ fn = "rand_intr"
    /\ drawn' = next
    /\ IF intr_accepts(drawn) \/ upper = 1
       THEN Return(intr_value(drawn))
       ELSE upper' = upper - 1 /\ UNCHANGED <<busy, fn, lo, hi, result>>
    /\ UNCHANGED <<clocks, gen, seed, client, last>>

-----------------------------------------------------------------------------
(* randomize_alloc_len, with a max_limit above the smallest class: a class *)
(* is drawn up to TRIES times, until one is within max_limit.              *)

len_begin(f) ==
    /\ ~retrying
    /\ retrying' = TRUE
    /\ l' = TRIES - 1
    /\ fits' = f
    /\ Begin("rand_intr", 0, speed, UPPER + 1)

len_again ==
    /\ retrying /\ ~busy
    /\ result > fits /\ l > 0
    /\ l' = l - 1
    /\ Begin("rand_intr", 0, speed, UPPER + 1)
    /\ UNCHANGED <<retrying, fits>>

len_end ==
    /\ retrying /\ ~busy
    /\ result <= fits \/ l = 0
    /\ retrying' = FALSE
    /\ l' = 0 /\ fits' = 0
    /\ UNCHANGED <<clocks, generator, call, last>>

-----------------------------------------------------------------------------

(* CPU time passes at any moment. *)
tick ==
    /\ cpu < END_OF_TIME
    /\ ClocksTick
    /\ UNCHANGED <<generator, call, client, last>>

Step == lim_draw \/ intr_draw \/ len_again \/ len_end

Next ==
    \/ \E limit \in Limits : rand_lim(limit)
    \/ \E i \in Intervals : rand_intr(i[1], i[2])
    \/ \E f \in 0..speed : len_begin(f)
    \/ Step
    \/ tick

Spec == Init /\ [][Next]_vars

(* The thread that called a function of the randomizer runs on. *)
FairSpec == Spec /\ WF_vars(Step)

-----------------------------------------------------------------------------
(* Properties *)

TypeOK ==
    /\ cpu \in Nat /\ wall \in Nat
    /\ gen \in Generators /\ seed \in Seed /\ drawn \in Index
    /\ busy \in BOOLEAN /\ fn \in {"none", "rand_lim", "rand_intr"}
    /\ lo \in Nat /\ hi \in Nat /\ upper \in 0..(UPPER + 1) /\ result \in Nat
    /\ retrying \in BOOLEAN /\ l \in 0..(TRIES - 1) /\ fits \in 0..speed
    /\ DOMAIN last = DOMAIN LastCall

(* Whatever the generator gives, and even when rand_intr runs out of       *)
(* redraws, a draw lies in its range: a class below max, a type that is    *)
(* file or anon, an index inside the window.                               *)
DrawInRange == ~busy => result \in lo..hi

(* rand_intr, and randomize_alloc_len with it, returns whatever generator  *)
(* the library has; rand_lim if the generator gives any number it accepts. *)
DrawsEnd ==
    /\ retrying ~> ~retrying
    /\ busy /\ fn = "rand_intr" ~> ~busy
    /\ busy /\ fn = "rand_lim" /\ (\E k \in Index : lim_accepts(k)) ~> ~busy

-----------------------------------------------------------------------------
(* What the documentation says and the code does not do *)

(* What the call makes of the k-th number, and whether it takes it *)
value(k) == IF fn = "rand_lim" THEN lim_value(k) ELSE intr_value(k)
accepts(k) == IF fn = "rand_lim" THEN lim_accepts(k) ELSE intr_accepts(k)

(* "Sequence of selection between anon and file is made random", and so    *)
(* are "size" and "touch": two draws of one range after the same seed, one *)
(* after the other, are made of numbers that follow one another in the     *)
(* sequence of the generator.  (When every number is accepted each draw    *)
(* takes one.)                                                             *)
SequenceIsRandom ==
    /\ ~busy /\ fn # "none"
    /\ last = [LastCall EXCEPT !.result = last.result]
    /\ \A k \in Index : accepts(k)
    => \E k \in Index : last.result = value(k) /\ result = value((k + 1) % PERIOD)

=============================================================================
