-------------------------- MODULE RandomizerProofs --------------------------
(***************************************************************************)
(* Theorems about the randomizer, for every generator of the library,      *)
(* every range and every number of redraws: a draw lies in its range.      *)
(***************************************************************************)
EXTENDS Randomizer, ArithmeticLemmas

(* A second is a positive number of nanoseconds. *)
LEMMA SecondType == SECOND \in Nat \ {0}
  <1>1. ASSUME NEW a \in Nat \ {0}, NEW b \in Nat \ {0}
        PROVE  a * b \in Nat \ {0}
    OBVIOUS
  <1> QED BY <1>1, TimeAssumption DEF SECOND

(* The seed is the whole seconds of the CPU clock, cut to an unsigned int. *)
LEMMA SeedType ==
    ASSUME cpu \in Nat
    PROVE  cputime("T_SECS") % SEED_WRAP \in Seed
  <1> DEFINE q == cpu \div SECOND
             r == cpu % SECOND
  <1>1. q \in Int /\ r \in Int
    BY SecondType
  <1>2. converter["T_SECS"] = [secs |-> 1, microsecs |-> 0, nanosecs |-> 0]
    BY DEF converter
  <1>3. cputime("T_SECS") = q * 1 + r * 0
    BY <1>2 DEF cputime
  <1> HIDE DEF q, r
  <1>4. cputime("T_SECS") \in Int
    BY <1>1, <1>3
  <1> QED BY <1>4, RandomAssumption DEF Seed

(* What the range of a call is when it is made, and until the next one *)
CallOK ==
    /\ fn = "rand_lim" => lo = 0 /\ hi <= RAND_MAX - 2
    /\ fn = "none" => ~busy /\ lo = 0 /\ hi = 0 /\ result = 0
    /\ busy /\ fn = "rand_intr" => upper >= 1
    /\ lo <= hi

(* The number drawn is one of 0..RAND_MAX, whatever the generator. *)
LEMMA RandType ==
    ASSUME TypeOK
    PROVE  rand(drawn) \in 0..RAND_MAX
  BY RandomAssumption DEF TypeOK, rand

(* The place after a place of the generator is a place of it. *)
LEMMA NextType ==
    ASSUME TypeOK
    PROVE  next \in Index
  BY RandomAssumption DEF TypeOK, next, Index

(* What rand_lim accepts, and all that rand_intr may take, is in range. *)
LEMMA LimInRange ==
    ASSUME TypeOK, CallOK, fn = "rand_lim", lim_accepts(drawn)
    PROVE  lim_value(drawn) \in lo..hi
  <1> DEFINE d == RAND_MAX \div (hi + 2)
             n == rand(drawn)
  <1>1. hi \in Nat /\ hi + 2 <= RAND_MAX /\ RAND_MAX \in Nat /\ lo = 0
    BY RandomAssumption DEF CallOK, TypeOK
  <1>2. d \in Nat \ {0}
    <2> DEFINE m == hi + 2
    <2>1. m \in Nat \ {0} /\ m <= RAND_MAX
      BY <1>1
    <2> HIDE DEF m
    <2>2. /\ RAND_MAX \div m \in Nat
          /\ RAND_MAX < (RAND_MAX \div m) * m + m
      BY <1>1, <2>1, QuotientBounds
    <2>3. RAND_MAX \div m # 0
      BY <1>1, <2>1, <2>2
    <2> QED BY <2>2, <2>3 DEF m
  <1>3. n \in Nat
    BY RandType, RandomAssumption
  <1> HIDE DEF d, n
  <1>4. n \div d \in Nat
    BY <1>2, <1>3, QuotientBounds
  <1> QED BY <1>1, <1>4 DEF lim_value, lim_accepts, d, n

(* Any number rand_intr may return, accepted or given up on, is in range. *)
LEMMA IntrInRange ==
    ASSUME TypeOK, CallOK
    PROVE  intr_value(drawn) \in lo..hi
  <1>1. lo \in Nat /\ hi \in Nat /\ lo <= hi /\ range \in Nat \ {0}
        /\ range = (hi - lo) + 1
    BY DEF CallOK, TypeOK, range
  <1>2. rand(drawn) \in Nat
    BY RandType, RandomAssumption
  <1>3. rand(drawn) % range \in 0..(range - 1)
    BY <1>1, <1>2
  <1> QED BY <1>1, <1>3 DEF intr_value

(* The types, the ranges and the results go together. *)
Ranged == TypeOK /\ CallOK /\ DrawInRange

(* A step keeps the types and the ranges. *)
LEMMA StepRanged ==
    ASSUME Ranged, [Next]_vars
    PROVE  Ranged'
  <1> USE DEF clocks, generator, call, client
  <1>0. TypeOK /\ CallOK /\ DrawInRange
    BY DEF Ranged
  <1>1. /\ UPPER \in Nat /\ TRIES \in Nat \ {0} /\ speed \in Nat
        /\ Limits \subseteq 1..(RAND_MAX - 1) /\ RAND_MAX \in Nat
        /\ PERIOD \in Nat \ {0} /\ 0 \in Index
    BY RandomAssumption DEF Index
  <1>2. ASSUME NEW f \in {"rand_lim", "rand_intr"}, NEW b \in Nat, NEW e \in Nat,
               NEW draws \in 0..(UPPER + 1), Begin(f, b, e, draws), b <= e,
               f = "rand_lim" => b = 0 /\ e <= RAND_MAX - 2,
               f = "rand_intr" => draws >= 1,
               retrying' \in BOOLEAN, l' \in 0..(TRIES - 1), fits' \in 0..speed
        PROVE  Ranged'
    <2>1. seed' \in Seed /\ drawn' \in Index
      BY <1>0, <1>1, <1>2, SeedType DEF Begin, srand, TypeOK
    <2>2. TypeOK'
      BY <1>0, <1>2, <2>1 DEF Begin, TypeOK, LastCall
    <2> QED BY <1>2, <2>2 DEF Begin, Ranged, CallOK, DrawInRange
  <1>3. ASSUME NEW limit \in Limits, rand_lim(limit)
        PROVE  Ranged'
    <2>1. limit - 1 \in Nat /\ limit - 1 <= RAND_MAX - 2 /\ 0 \in 0..(UPPER + 1)
      BY <1>1
    <2>2. UNCHANGED client /\ Begin("rand_lim", 0, limit - 1, 0)
      BY <1>3 DEF rand_lim
    <2> QED BY <1>0, <1>2, <2>1, <2>2 DEF TypeOK
  <1>4. ASSUME NEW i \in Intervals, rand_intr(i[1], i[2])
        PROVE  Ranged'
    <2>1. i[1] \in Nat /\ i[2] \in Nat /\ i[1] <= i[2]
      BY RandomAssumption
    <2>2. UNCHANGED client /\ Begin("rand_intr", i[1], i[2], UPPER + 1)
      BY <1>4 DEF rand_intr
    <2> QED BY <1>0, <1>1, <1>2, <2>1, <2>2 DEF TypeOK
  <1>5. ASSUME NEW f \in 0..speed, len_begin(f)
        PROVE  Ranged'
    BY <1>0, <1>1, <1>2, <1>5 DEF len_begin
  <1>6. CASE len_again
    <2>1. l' \in 0..(TRIES - 1) /\ UNCHANGED <<retrying, fits>>
          /\ Begin("rand_intr", 0, speed, UPPER + 1)
      BY <1>0, <1>1, <1>6 DEF len_again, TypeOK
    <2> QED BY <1>0, <1>1, <1>2, <2>1 DEF TypeOK
  <1>7. CASE len_end
    <2>1. 0 \in 0..(TRIES - 1) /\ 0 \in 0..speed
      BY <1>1
    <2> QED BY <1>0, <1>7, <2>1
            DEF len_end, Ranged, TypeOK, CallOK, DrawInRange, LastCall
  <1>8. ASSUME NEW r \in lo..hi, Return(r), busy, fn # "none", drawn' \in Index,
               UNCHANGED <<clocks, gen, seed, client, last>>
        PROVE  Ranged'
    <2>1. busy' = FALSE /\ result' = r /\ upper' = 0 /\ UNCHANGED <<fn, lo, hi>>
      BY <1>8 DEF Return
    <2>2. r \in Nat /\ 0 \in 0..(UPPER + 1) /\ busy' \in BOOLEAN
      <3>1. lo \in Nat /\ hi \in Nat
        BY <1>0 DEF TypeOK
      <3>2. r \in Nat
        BY <3>1
      <3>3. 0 \in 0..(UPPER + 1)
        BY <1>1
      <3>4. busy' \in BOOLEAN
        BY <2>1
      <3> QED BY <3>2, <3>3, <3>4
    <2>3. TypeOK'
      BY <1>0, <1>8, <2>1, <2>2 DEF TypeOK, LastCall
    <2>4. CallOK' /\ DrawInRange'
      BY <1>0, <1>8, <2>1 DEF CallOK, DrawInRange
    <2> QED BY <2>3, <2>4 DEF Ranged
  <1>9. CASE lim_draw
    <2>1. drawn' \in Index
      BY <1>0, <1>9, NextType DEF lim_draw
    <2>2. CASE lim_accepts(drawn)
      <3>1. lim_value(drawn) \in lo..hi
        BY <1>0, <1>9, <2>2, LimInRange DEF lim_draw
      <3> QED BY <1>8, <1>9, <2>1, <2>2, <3>1 DEF lim_draw
    <2>3. CASE ~lim_accepts(drawn)
      BY <1>0, <1>9, <2>1, <2>3
      DEF lim_draw, Ranged, TypeOK, CallOK, DrawInRange, LastCall
    <2> QED BY <2>2, <2>3
  <1>10. CASE intr_draw
    <2>1. drawn' \in Index
      BY <1>0, <1>10, NextType DEF intr_draw
    <2>2. CASE intr_accepts(drawn) \/ upper = 1
      <3>1. intr_value(drawn) \in lo..hi
        BY <1>0, IntrInRange
      <3> QED BY <1>8, <1>10, <2>1, <2>2, <3>1 DEF intr_draw
    <2>3. CASE ~(intr_accepts(drawn) \/ upper = 1)
      <3>1. /\ upper' = upper - 1 /\ UNCHANGED <<busy, fn, lo, hi, result>>
            /\ UNCHANGED <<clocks, gen, seed, client, last>>
            /\ busy /\ fn = "rand_intr"
        BY <1>10, <2>3 DEF intr_draw
      <3>2. upper \in 0..(UPPER + 1) /\ upper >= 1 /\ upper # 1
        BY <1>0, <2>3, <3>1 DEF CallOK, TypeOK
      <3> QED BY <1>0, <1>1, <2>1, <3>1, <3>2
              DEF Ranged, TypeOK, CallOK, DrawInRange, LastCall
    <2> QED BY <2>2, <2>3
  <1>11. CASE tick
    BY <1>0, <1>11 DEF tick, ClocksTick, Ranged, TypeOK, CallOK, DrawInRange, LastCall
  <1>12. CASE UNCHANGED vars
    BY <1>0, <1>12 DEF vars, Ranged, TypeOK, CallOK, DrawInRange, LastCall
  <1> QED
    BY <1>3, <1>4, <1>5, <1>6, <1>7, <1>9, <1>10, <1>11, <1>12
    DEF Next, Step

(* So they always hold. *)
LEMMA RangesKept == Spec => []Ranged
  <1>1. Init => Ranged
    <2> SUFFICES ASSUME Init PROVE Ranged
      OBVIOUS
    <2>1. /\ 1 % SEED_WRAP \in Seed /\ 0 \in Index /\ 0 \in 0..speed
          /\ 0 \in 0..(TRIES - 1) /\ 0 \in 0..(UPPER + 1)
      BY RandomAssumption DEF Seed, Index
    <2>2. TypeOK
      <3>1. DOMAIN last = DOMAIN LastCall
        BY DEF Init
      <3>2. /\ cpu \in Nat /\ wall \in Nat
            /\ gen \in Generators /\ seed \in Seed /\ drawn \in Index
            /\ fn \in {"none", "rand_lim", "rand_intr"}
            /\ lo \in Nat /\ hi \in Nat /\ upper \in 0..(UPPER + 1) /\ result \in Nat
            /\ l \in 0..(TRIES - 1) /\ fits \in 0..speed
        BY <2>1 DEF Init, ClocksStart
      <3>3. busy \in BOOLEAN /\ retrying \in BOOLEAN
        BY DEF Init
      <3> QED BY <3>1, <3>2, <3>3 DEF TypeOK
    <2>3. CallOK /\ DrawInRange
      BY DEF Init, CallOK, DrawInRange
    <2> QED BY <2>2, <2>3 DEF Ranged
  <1>2. Ranged /\ [Next]_vars => Ranged'
    BY StepRanged
  <1> QED BY <1>1, <1>2, PTL DEF Spec

(* The type invariant of the randomizer: the redraws that are left do not  *)
(* go below 0.                                                             *)
THEOREM RandomizerTypeCorrect == Spec => []TypeOK
  BY RangesKept, PTL DEF Ranged

(* Whatever the generator gives, and even when rand_intr runs out of       *)
(* redraws, a draw lies in its range.                                      *)
THEOREM DrawsInRange == Spec => []DrawInRange
  BY RangesKept, PTL DEF Ranged

=============================================================================
