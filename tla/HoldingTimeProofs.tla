------------------------- MODULE HoldingTimeProofs --------------------------
(***************************************************************************)
(* Theorems about the clocks of the program, for every length of a second, *)
(* every execution time, every turn and every step of the wall clock: how  *)
(* long a locality is held, and which jobs are skipped.                    *)
(***************************************************************************)
EXTENDS HoldingTime, ArithmeticLemmas

-----------------------------------------------------------------------------
(* Whole granules *)

(* A time lies between its whole granules and one more. *)
LEMMA WholeDownBounds ==
    ASSUME NEW x \in Int, NEW g \in Nat \ {0}
    PROVE  /\ x \div g \in Int
           /\ WholeDown(x, g) <= x
           /\ x < WholeDown(x, g) + g
           /\ x >= 0 => x \div g \in Nat
  BY QuotientBounds DEF WholeDown

(* Rounding up gives the least number of granules that is not below. *)
LEMMA WholeUpLeast ==
    ASSUME NEW x \in Int, NEW g \in Nat \ {0}, NEW k \in Int
    PROVE  /\ WholeUp(x, g) \in Int
           /\ x <= k * g => WholeUp(x, g) <= k * g
           /\ k * g < x => k * g + g <= WholeUp(x, g)
  <1> DEFINE y == x + g - 1
             q == y \div g
  <1>1. /\ y \in Int /\ q \in Int /\ q * g <= y /\ y < q * g + g
        /\ WholeUp(x, g) = q * g
    BY WholeDownBounds DEF WholeUp, WholeDown
  <1>2. y = x + g - 1
    OBVIOUS
  <1> HIDE DEF q, y
  <1>3. /\ q * g \in Int /\ k * g \in Int
        /\ (q + 1) * g = q * g + g /\ (k + 1) * g = k * g + g
    BY <1>1, MultiplesOrdered
  <1>4. x <= k * g => WholeUp(x, g) <= k * g
    <2> SUFFICES ASSUME x <= k * g PROVE q * g <= k * g
      BY <1>1
    <2>1. q * g < (k + 1) * g
      BY <1>1, <1>2, <1>3
    <2>2. q < k + 1
      BY <1>1, <2>1, MultiplesOrdered
    <2>3. q <= k
      BY <1>1, <2>2
    <2> QED BY <1>1, <2>3, MultiplesOrdered
  <1>5. k * g < x => k * g + g <= WholeUp(x, g)
    <2> SUFFICES ASSUME k * g < x PROVE k * g + g <= q * g
      BY <1>1
    <2>1. (k + 1) * g < (q + 1) * g
      BY <1>1, <1>2, <1>3
    <2>2. k + 1 < q + 1
      BY <1>1, <2>1, MultiplesOrdered
    <2>3. k < q
      BY <1>1, <2>2
    <2> QED BY <1>1, <2>3, MultiplesOrdered
  <1> QED BY <1>1, <1>3, <1>4, <1>5

-----------------------------------------------------------------------------
(* Doubles *)

(* What rounding does: to the multiple below, or to the next, and by no    *)
(* more than half a step.                                                  *)
LEMMA RoundedBounds ==
    ASSUME NEW x \in Int, NEW s \in Nat \ {0}
    PROVE  /\ Rounded(x, s) \in Int /\ (x \div s) * s \in Int
           /\ (x \div s) * s <= Rounded(x, s)
           /\ Rounded(x, s) <= (x \div s) * s + s
           /\ x - Rounded(x, s) <= s \div 2
  <1> DEFINE q == x \div s
             r == x % s
             h == s \div 2
  <1>1. /\ q \in Int /\ r \in 0..(s - 1) /\ x = q * s + r
        /\ Rounded(x, s) = IF 2 * r > s \/ (2 * r = s /\ q % 2 = 1)
                             THEN (q + 1) * s ELSE q * s
    BY QuotientAndRest DEF Rounded
  <1>2. h \in Nat /\ s < 2 * h + 2
    OBVIOUS
  <1> HIDE DEF q, r, h
  <1>3. q * s \in Int /\ (q + 1) * s = q * s + s
    BY <1>1, MultiplesOrdered
  <1>4. CASE Rounded(x, s) = (q + 1) * s
    BY <1>1, <1>2, <1>3, <1>4 DEF q, h
  <1>5. CASE Rounded(x, s) = q * s /\ 2 * r <= s
    <2>1. r <= h
      BY <1>1, <1>2, <1>5
    <2> QED BY <1>1, <1>2, <1>3, <1>5, <2>1 DEF q, h
  <1> QED BY <1>1, <1>4, <1>5

(* Rounding keeps the order. *)
LEMMA RoundedMonotone ==
    ASSUME NEW x \in Int, NEW y \in Int, x <= y, NEW s \in Nat \ {0}
    PROVE  Rounded(x, s) <= Rounded(y, s)
  <1> DEFINE q == x \div s
             p == y \div s
             a == x % s
             b == y % s
  <1>1. /\ q \in Int /\ p \in Int /\ a \in Int /\ b \in Int
        /\ x = q * s + a /\ y = p * s + b
    BY QuotientAndRest
  <1>2. q <= p
    BY QuotientsOrdered
  <1>3. /\ Rounded(x, s) \in Int /\ Rounded(y, s) \in Int
        /\ Rounded(x, s) <= q * s + s /\ p * s <= Rounded(y, s)
    BY RoundedBounds
  <1>4. /\ Rounded(x, s) = IF 2 * a > s \/ (2 * a = s /\ q % 2 = 1)
                             THEN (q + 1) * s ELSE q * s
        /\ Rounded(y, s) = IF 2 * b > s \/ (2 * b = s /\ p % 2 = 1)
                             THEN (p + 1) * s ELSE p * s
    BY DEF Rounded
  <1> HIDE DEF q, p, a, b
  <1>5. /\ q * s \in Int /\ p * s \in Int /\ (q + 1) * s = q * s + s
        /\ q < p => q * s + s <= p * s
    BY <1>1, MultiplesOrdered
  <1>6. CASE q < p
    BY <1>3, <1>5, <1>6
  <1>7. CASE q = p
    <2>1. a <= b
      BY <1>1, <1>5, <1>7
    <2>2. 2 * a > s => 2 * b > s
      BY <1>1, <2>1
    <2>3. 2 * a = s => 2 * b > s \/ 2 * b = s
      BY <1>1, <2>1
    <2>4. Rounded(y, s) = q * s => Rounded(x, s) = q * s
      BY <1>4, <1>5, <1>7, <2>2, <2>3
    <2> QED BY <1>3, <1>4, <1>5, <1>7, <2>4
  <1> QED BY <1>1, <1>2, <1>6, <1>7

(* A multiple of the step is a double. *)
LEMMA RoundedFixes ==
    ASSUME NEW k \in Int, NEW s \in Nat \ {0}
    PROVE  Rounded(k * s, s) = k * s
  <1> DEFINE x == k * s
  <1>1. x \in Int
    OBVIOUS
  <1>2. x \div s = k
    <2>1. k * s <= x /\ x < k * s + s
      BY <1>1
    <2> HIDE DEF x
    <2> QED BY <1>1, <2>1, QuotientUnique
  <1>3. x = k * s
    OBVIOUS
  <1> HIDE DEF x
  <1>4. x % s = 0
    <2>1. x % s \in Int /\ x = (x \div s) * s + (x % s)
      BY <1>1, QuotientAndRest
    <2> QED BY <1>1, <1>2, <1>3, <2>1
  <1>5. Rounded(x, s) = k * s
    BY <1>2, <1>4 DEF Rounded
  <1> QED BY <1>5 DEF x

(* Integers that are doubles are not rounded. *)
LEMMA IntegersFixed ==
    ASSUME NEW x \in Int
    PROVE  Rounded(x, 1) = x
  <1>1. x \div 1 = x /\ x % 1 = 0 /\ x * 1 = x
    OBVIOUS
  <1> QED BY <1>1 DEF Rounded

-----------------------------------------------------------------------------
(* Readings *)

(* The units main selects *)
MainUnit == {"T_SECS", "T_nanoSECS"}

(* The units of main, and the granules of the clocks read in them. *)
LEMMA UnitsType ==
    /\ KILO \in Nat \ {0} /\ SECOND \in Nat \ {0}
    /\ Unit["T_SECS"] = SECOND /\ Unit["T_nanoSECS"] = 1
    /\ \A t \in MainUnit : /\ Unit[t] \in Nat \ {0}
                           /\ CpuGranule(t) \in Nat \ {0}
                           /\ WallGranule(t) \in Nat \ {0}
                           /\ CpuGranule(t) = Unit[t]
    /\ time_g \in MainUnit => EndStep \in Nat \ {0} /\ ReadingError \in Nat
  <1>1. /\ KILO \in Nat \ {0} /\ KILO * KILO \in Nat \ {0}
        /\ KILO * KILO * KILO \in Nat \ {0}
    <2>1. ASSUME NEW a \in Nat \ {0}, NEW b \in Nat \ {0}
          PROVE  a * b \in Nat \ {0}
      OBVIOUS
    <2> QED BY <2>1, TimeAssumption
  <1>2. SECOND \in Nat \ {0}
    BY <1>1 DEF SECOND
  <1>3. Unit["T_SECS"] = SECOND /\ Unit["T_nanoSECS"] = 1
    BY DEF Unit
  <1>4. time_g \in MainUnit => EndStep \in Nat \ {0} /\ ReadingError \in Nat
    <2>1. NANOS_STEP \in Nat \ {0} /\ NANOS_STEP \div 2 \in Nat
      BY TimeAssumption
    <2> QED BY <2>1, HoldingAssumption DEF EndStep, ReadingError
  <1> QED BY <1>1, <1>2, <1>3, <1>4 DEF MainUnit, CpuGranule, WallGranule

(* The CPU clock is read in whole granules of the unit. *)
LEMMA CpuReading ==
    ASSUME cpu \in Nat, NEW t \in MainUnit
    PROVE  cputime(t) = cpu \div CpuGranule(t)
  <1>1. CASE t = "T_SECS"
    <2>1. converter[t] = [secs |-> 1, microsecs |-> 0, nanosecs |-> 0]
      BY <1>1 DEF converter
    <2>2. cpu \div SECOND \in Int /\ cpu % SECOND \in Int
      BY UnitsType
    <2> QED BY <1>1, <2>1, <2>2 DEF cputime, CpuGranule
  <1>2. CASE t = "T_nanoSECS"
    <2>1. converter[t] = [secs |-> SECOND, microsecs |-> KILO, nanosecs |-> 1]
      BY <1>2 DEF converter
    <2> DEFINE q == cpu \div SECOND
               r == cpu % SECOND
    <2>2. q \in Int /\ r \in Int /\ cpu = q * SECOND + r
      BY UnitsType, QuotientAndRest
    <2>3. cputime(t) = q * SECOND + r * 1
      BY <2>1 DEF cputime
    <2> HIDE DEF q, r
    <2>4. cputime(t) = cpu
      BY <2>2, <2>3
    <2>5. cpu \div 1 = cpu
      OBVIOUS
    <2> QED BY <1>2, <2>4, <2>5 DEF CpuGranule
  <1> QED BY <1>1, <1>2 DEF MainUnit

(* A number of seconds and the whole granules of the rest are the whole    *)
(* granules of the time, when a second is a whole number of them.          *)
LEMMA PartsAddUp ==
    ASSUME NEW w \in Nat, NEW g \in Nat \ {0}, NEW m \in Nat \ {0}
    PROVE  (w \div (m * g)) * (m * g) + ((w % (m * g)) \div g) * g
             = WholeDown(w, g)
  <1> DEFINE s == m * g
             q == w \div s
             r == w % s
             a == r \div g
  <1>0. s \in Nat \ {0}
    OBVIOUS
  <1>1. /\ q \in Int /\ r \in Nat /\ w = q * s + r
        /\ a \in Int /\ a * g <= r /\ r < a * g + g
    <2>1. q \in Int /\ r \in Nat /\ w = q * s + r
      <3> HIDE DEF s
      <3> QED BY <1>0, QuotientAndRest
    <2> HIDE DEF r
    <2> QED BY <2>1, WholeDownBounds DEF WholeDown
  <1> HIDE DEF q, r, a
  <1>2. q * s = (q * m) * g /\ q * m \in Int
    BY <1>1
  <1> HIDE DEF s
  <1>3. (q * m + a) * g = q * s + a * g /\ q * s \in Int /\ a * g \in Int
    <2> DEFINE k == q * m
    <2>1. k \in Int /\ q * s = k * g
      BY <1>2
    <2> HIDE DEF k
    <2>2. (k + a) * g = k * g + a * g /\ k * g \in Int /\ a * g \in Int
      BY <1>1, <2>1
    <2> QED BY <2>1, <2>2 DEF k
  <1>4. q * m + a \in Int
    BY <1>1, <1>2
  <1>5. w \div g = q * m + a
    BY <1>1, <1>3, <1>4, QuotientUnique
  <1> QED BY <1>3, <1>5 DEF WholeDown, q, r, a, s

(* What job reads when the wall clock stands at w: whole seconds, or whole *)
(* microseconds, rounded to a double.                                      *)
Reading(w) ==
    IF time_g = "T_nanoSECS" THEN Rounded(WholeDown(w, KILO), NANOS_STEP)
    ELSE WholeDown(w, SECOND)

LEMMA WallReading ==
    ASSUME wall \in Nat, time_g \in MainUnit
    PROVE  Nanos(wctime(time_g)) = Reading(wall)
  <1> DEFINE q == wall \div SECOND
             a == (wall % SECOND) \div KILO
  <1>0. q \in Int /\ a \in Int
    <2>1. q \in Int /\ wall % SECOND \in Int
      BY UnitsType
    <2> QED BY <2>1, UnitsType
  <1>1. CASE time_g = "T_SECS"
    <2>1. converter[time_g] = [secs |-> 1, microsecs |-> 0, nanosecs |-> 0]
      BY <1>1 DEF converter
    <2>2. wctime(time_g) = Rounded(q * 1 + a * 0, 1)
      BY <1>1, <2>1 DEF wctime
    <2> HIDE DEF q, a
    <2>3. wctime(time_g) = q
      <3>1. q * 1 + a * 0 = q
        BY <1>0
      <3> QED BY <1>0, <2>2, <3>1, IntegersFixed
    <2> QED BY <1>1, <2>3, UnitsType DEF Nanos, WholeDown, Reading, q
  <1>2. CASE time_g = "T_nanoSECS"
    <2>1. converter[time_g] = [secs |-> SECOND, microsecs |-> KILO, nanosecs |-> 1]
      BY <1>2 DEF converter
    <2>2. wctime(time_g) = Rounded(q * SECOND + a * KILO, NANOS_STEP)
      BY <1>2, <2>1 DEF wctime
    <2>3. SECOND = (KILO * KILO) * KILO /\ KILO * KILO \in Nat \ {0}
          /\ KILO \in Nat \ {0}
      BY TimeAssumption, UnitsType DEF SECOND
    <2>4. q * SECOND + a * KILO = WholeDown(wall, KILO)
      BY <2>3, PartsAddUp
    <2> HIDE DEF q, a
    <2>5. Rounded(q * SECOND + a * KILO, NANOS_STEP) \in Int
      <3>1. q * SECOND + a * KILO \in Int
        BY <1>0, UnitsType
      <3> QED BY <3>1, RoundedBounds, TimeAssumption
    <2> QED BY <1>2, <2>2, <2>4, <2>5, UnitsType DEF Nanos, Reading
  <1> QED BY <1>1, <1>2 DEF MainUnit

(* A reading is the clock in whole granules, rounded as a sum is: seconds  *)
(* are doubles already.  It may be below them by the reading error.        *)
LEMMA ReadingBounds ==
    ASSUME NEW w \in Nat, time_g \in MainUnit
    PROVE  LET d == WholeDown(w, WallGranule(time_g)) IN
           /\ d \in Int /\ Reading(w) \in Int
           /\ Reading(w) = Rounded(d, EndStep)
           /\ d - ReadingError <= Reading(w)
  <1> DEFINE g == WallGranule(time_g)
             d == WholeDown(w, g)
  <1>1. g \in Nat \ {0} /\ d \in Int
    <2>1. g \in Nat \ {0}
      BY UnitsType
    <2> HIDE DEF g
    <2> QED BY <2>1 DEF WholeDown
  <1>2. CASE time_g = "T_nanoSECS"
    <2>1. /\ Reading(w) = Rounded(d, NANOS_STEP) /\ EndStep = NANOS_STEP
          /\ ReadingError = NANOS_STEP \div 2
      BY <1>2 DEF Reading, EndStep, ReadingError, WallGranule
    <2> HIDE DEF d
    <2>2. /\ Rounded(d, NANOS_STEP) \in Int
          /\ d - Rounded(d, NANOS_STEP) <= NANOS_STEP \div 2
          /\ NANOS_STEP \div 2 \in Int
      BY <1>1, RoundedBounds, TimeAssumption
    <2> QED BY <1>1, <2>1, <2>2 DEF d
  <1>3. CASE time_g = "T_SECS"
    <2>1. /\ Reading(w) = d /\ EndStep = SECS_STEP /\ ReadingError = 0
          /\ d = (w \div SECOND) * SECOND
      BY <1>3 DEF Reading, EndStep, ReadingError, WallGranule, WholeDown
    <2>2. PICK m \in Int : SECOND = m * SECS_STEP
      <3>1. /\ SECOND \div SECS_STEP \in Int
            /\ SECOND = (SECOND \div SECS_STEP) * SECS_STEP + (SECOND % SECS_STEP)
            /\ SECOND % SECS_STEP = 0 /\ SECS_STEP \in Nat \ {0}
        BY UnitsType, HoldingAssumption, QuotientAndRest
      <3> DEFINE m == SECOND \div SECS_STEP
      <3> HIDE DEF m
      <3>2. m \in Int /\ SECOND = m * SECS_STEP
        BY <3>1 DEF m
      <3> QED BY <3>2
    <2> DEFINE q == w \div SECOND
    <2>3. q \in Int
      BY UnitsType
    <2> HIDE DEF q
    <2>4. q * m \in Int /\ q * (m * SECS_STEP) = (q * m) * SECS_STEP
      BY <2>2, <2>3, HoldingAssumption
    <2>5. d = (q * m) * SECS_STEP
      BY <2>1, <2>2, <2>4 DEF q
    <2>6. Rounded(d, SECS_STEP) = d
      BY <2>4, <2>5, RoundedFixes, HoldingAssumption
    <2> QED BY <1>1, <2>1, <2>6
  <1> QED BY <1>1, <1>2, <1>3 DEF MainUnit

-----------------------------------------------------------------------------
(* The invariant *)

(* The part of it that is about the loop.  TypeOK and HeldAsAsked are not  *)
(* inductive: they need that the truncated measures of the turns add up to *)
(* the difference of the last and the first reading, and that the reading  *)
(* before the last still left time, so that the last turn alone can exceed *)
(* what was asked.                                                         *)
Measured ==
    pc = "hold" =>
      LET g == CpuGranule(time_g) IN
      /\ cpu_began + lag <= cpu
      /\ now = (cpu - lag) \div g
      /\ run = now - (cpu_began \div g)
      /\ exec_time > 0 => Held < WholeUp(exec_time, g) + MAX_TURN

(* And about the job: the end it computed is that of its first reading,    *)
(* rounded once more.                                                      *)
EndIsSet ==
    pc = "job" => program_end = Rounded(Reading(wall_began) + exec_time, EndStep)

(* Before the last reading no granule more has passed than was asked for,  *)
(* and no less than run says.                                              *)
LEMMA HeldBounds ==
    ASSUME NEW g \in Nat \ {0}, NEW a \in Nat, NEW b \in Nat, b <= a,
           NEW e \in Int
    PROVE  LET r == (a \div g) - (b \div g) IN
           /\ r \in Nat
           /\ e <= r * g => a - b > WholeUp(e, g) - g
           /\ e > r * g => a - b < WholeUp(e, g)
  <1> DEFINE p == a \div g
             q == b \div g
             r == p - q
  <1>1. /\ p \in Nat /\ q \in Nat /\ q <= p
        /\ p * g <= a /\ a < p * g + g
        /\ q * g <= b /\ b < q * g + g
    BY WholeDownBounds, QuotientsOrdered DEF WholeDown
  <1>2. r \in Nat
    BY <1>1
  <1> HIDE DEF p, q
  <1>3. r * g = p * g - q * g /\ p * g \in Int /\ q * g \in Int
    BY <1>1
  <1> HIDE DEF r
  <1>4. /\ WholeUp(e, g) \in Int
        /\ e <= r * g => WholeUp(e, g) <= r * g
        /\ r * g < e => r * g + g <= WholeUp(e, g)
    <2>1. r \in Int
      BY <1>2
    <2> QED BY <2>1, WholeUpLeast
  <1>5. e <= r * g => a - b > WholeUp(e, g) - g
    BY <1>1, <1>2, <1>3, <1>4
  <1>6. e > r * g => a - b < WholeUp(e, g)
    BY <1>1, <1>2, <1>3, <1>4
  <1> QED BY <1>2, <1>5, <1>6 DEF r, p, q

(* What was asked for, in whole granules, is positive when it was. *)
LEMMA AskedPositive ==
    ASSUME NEW g \in Nat \ {0}, NEW e \in Int
    PROVE  WholeUp(e, g) \in Int /\ (e > 0 => WholeUp(e, g) > 0)
  <1>1. 0 * g = 0
    OBVIOUS
  <1>2. ASSUME NEW k \in Int, k = 0
        PROVE  /\ WholeUp(e, g) \in Int
               /\ k * g < e => k * g + g <= WholeUp(e, g)
    BY WholeUpLeast
  <1>3. \E k \in Int : k = 0
    OBVIOUS
  <1> QED BY <1>1, <1>2, <1>3

(* A step keeps run equal to the time between the first and the last       *)
(* reading of the CPU clock.                                               *)
LEMMA StepMeasured ==
    ASSUME TypeOK, Measured, [Next]_vars
    PROVE  TypeOK' /\ Measured'
  <1> USE DEF clocks, job_vars, loop_vars, MainUnit
  <1> DEFINE g == CpuGranule(time_g)
  <1>0. /\ g \in Nat \ {0} /\ time_g \in MainUnit
        /\ MAX_TURN \in Nat \ {0} /\ ExecTimes \subseteq Int /\ WallSteps \subseteq Int
    BY UnitsType, HoldingAssumption DEF TypeOK
  <1>1. CASE opt_I \/ start \/ main_returns \/ job_transition
    BY <1>1 DEF opt_I, start, main_returns, job_transition, TypeOK, Measured
  <1>2. ASSUME NEW e \in ExecTimes, job_begin(e)
        PROVE  TypeOK' /\ Measured'
    <2>1. Rounded(Nanos(wctime(time_g)) + e, EndStep) \in Int
      <3>1. Nanos(wctime(time_g)) \in Int
        BY <1>0, WallReading, ReadingBounds DEF TypeOK
      <3> QED BY <1>0, <3>1, UnitsType, RoundedBounds
    <2> QED BY <1>0, <1>2, <2>1 DEF job_begin, TypeOK, Measured
  <1>3. CASE job_skip \/ hold_end
    BY <1>0, <1>3 DEF job_skip, hold_end, NoJob, NoLoop, TypeOK, Measured
  <1>4. CASE loop_begin
    <2>1. /\ pc' = "hold" /\ now' = cpu \div g /\ run' = 0 /\ lag' = 0
          /\ cpu_began' = cpu
          /\ UNCHANGED <<cpu, wall, time_g, exec_time, program_end, wall_began>>
      BY <1>0, <1>4, CpuReading DEF loop_begin, TypeOK
    <2>2. cpu \div g \in Nat
      BY <1>0, WholeDownBounds DEF TypeOK
    <2>3. exec_time > 0 => WholeUp(exec_time, g) > 0
      BY <1>0, AskedPositive DEF TypeOK
    <2>4. WholeUp(exec_time, g) \in Int /\ Held' = 0
      BY <1>0, <2>1, AskedPositive DEF TypeOK, Held
    <2>5. TypeOK'
      BY <1>0, <2>1, <2>2 DEF TypeOK
    <2> QED BY <1>0, <2>1, <2>2, <2>3, <2>4, <2>5 DEF Measured, TypeOK
  <1>5. CASE hold_turn
    <2> DEFINE p == cpu \div g
               a == cpu - lag
               q == a \div g
               b == cpu_began \div g
    <2>1. /\ pc = "hold" /\ pc' = "hold" /\ now' = p /\ run' = run + (p - now)
          /\ lag' = 0
          /\ UNCHANGED <<cpu, wall, time_g, exec_time, program_end, wall_began,
                         cpu_began>>
          /\ exec_time > run * g
      BY <1>0, <1>5, CpuReading, UnitsType
      DEF hold_turn, read_clock, TimeLeft, Nanos, TypeOK
    <2>2. /\ cpu_began + lag <= cpu /\ now = q /\ run = q - b
          /\ cpu \in Nat /\ cpu_began \in Nat /\ lag \in 0..MAX_TURN
          /\ exec_time \in Int
      BY <2>1 DEF Measured, TypeOK
    <2>3. a \in Nat /\ cpu_began <= a /\ a <= cpu
      BY <1>0, <2>2
    <2>4. a - cpu_began < WholeUp(exec_time, g)
      BY <1>0, <2>1, <2>2, <2>3, HeldBounds
    <2>5. p \in Nat /\ q \in Nat /\ b \in Nat /\ b <= p
      BY <1>0, <2>2, <2>3, WholeDownBounds, QuotientsOrdered
    <2>6. WholeUp(exec_time, g) \in Int
      BY <1>0, <2>2, AskedPositive
    <2> HIDE DEF g, p, q, b
    <2>7. run' = p - b /\ run' \in Nat
      BY <2>1, <2>2, <2>5
    <2>8. Held' < WholeUp(exec_time, g) + MAX_TURN
      BY <1>0, <2>1, <2>2, <2>4, <2>6 DEF Held
    <2>9. TypeOK'
      BY <1>0, <2>1, <2>5, <2>7 DEF TypeOK
    <2>10. cpu - lag' = cpu
      BY <2>1, <2>2
    <2> QED BY <2>1, <2>2, <2>7, <2>8, <2>9, <2>10 DEF Measured, g, p, b
  <1>6. CASE tick
    <2>1. /\ cpu' = cpu + 1 /\ wall' = wall + 1
          /\ lag' = IF pc = "hold" THEN lag + 1 ELSE lag
          /\ pc = "hold" => lag < MAX_TURN
          /\ UNCHANGED <<pc, time_g, exec_time, program_end, wall_began, now, run,
                         cpu_began>>
      BY <1>6 DEF tick, ClocksTick
    <2>2. TypeOK'
      BY <1>0, <2>1 DEF TypeOK
    <2>3. pc = "hold" =>
            cpu' - lag' = cpu - lag /\ Held' = Held /\ cpu_began' + lag' <= cpu'
      BY <2>1 DEF TypeOK, Measured, Held
    <2> QED BY <2>1, <2>2, <2>3 DEF Measured
  <1>7. CASE wall_moves
    <2>1. pc # "hold" /\ wall' \in Nat /\ cpu' = cpu
      BY <1>0, <1>7 DEF wall_moves, WallMoves, TypeOK
    <2> QED BY <1>7, <2>1 DEF wall_moves, TypeOK, Measured
  <1>8. CASE UNCHANGED vars
    BY <1>8 DEF vars, TypeOK, Measured, Held
  <1> QED
    BY <1>1, <1>2, <1>3, <1>4, <1>5, <1>6, <1>7, <1>8 DEF Next, Program, ended

(* The invariant holds from the start. *)
LEMMA MeasuresAddUp == Spec => [](TypeOK /\ Measured)
  <1>1. Init => TypeOK /\ Measured
    BY HoldingAssumption DEF Init, ClocksStart, TypeOK, Measured
  <1>2. TypeOK /\ Measured /\ [Next]_vars => TypeOK' /\ Measured'
    BY StepMeasured
  <1> QED BY <1>1, <1>2, PTL DEF Spec

(* The clocks, the readings and the time accounted for keep their types:   *)
(* in particular run, which is unsigned, never goes below 0.               *)
THEOREM HoldingTypeCorrect == Spec => []TypeOK
  BY MeasuresAddUp, PTL

(* A locality is held for its execution time in whole granules of the      *)
(* clock, less a granule at most and not a turn longer, whatever the unit, *)
(* the length of a turn and their number.                                  *)
THEOREM LocalityHeldAsAsked == Spec => []HeldAsAsked
  <1>1. TypeOK /\ Measured => HeldAsAsked
    <2> SUFFICES ASSUME TypeOK, Measured, pc = "hold", ~TimeLeft, exec_time > 0
                 PROVE  LET asked == WholeUp(exec_time, CpuGranule(time_g)) IN
                        /\ Held > asked - CpuGranule(time_g)
                        /\ Held < asked + MAX_TURN
      BY DEF HeldAsAsked
    <2> DEFINE g == CpuGranule(time_g)
               a == cpu - lag
    <2>1. g \in Nat \ {0} /\ g = Unit[time_g] /\ MAX_TURN \in Nat
      BY UnitsType, HoldingAssumption DEF TypeOK, MainUnit
    <2>2. /\ cpu_began + lag <= cpu /\ run = (a \div g) - (cpu_began \div g)
          /\ cpu \in Nat /\ cpu_began \in Nat /\ lag \in Nat /\ exec_time \in Int
          /\ Held < WholeUp(exec_time, g) + MAX_TURN
      BY <2>1 DEF Measured, TypeOK
    <2>3. a \in Nat /\ cpu_began <= a
      BY <2>2
    <2>4. exec_time <= run * g
      <3>1. run * g \in Int
        BY <2>1 DEF TypeOK
      <3> QED BY <2>1, <2>2, <3>1 DEF TimeLeft, Nanos
    <2> HIDE DEF a, g
    <2>5. a - cpu_began > WholeUp(exec_time, g) - g
      BY <2>1, <2>2, <2>3, <2>4, HeldBounds
    <2> QED BY <2>2, <2>5 DEF Held, a, g
  <1> QED BY <1>1, MeasuresAddUp, PTL

-----------------------------------------------------------------------------
(* Jobs that are skipped *)

(* A step keeps the end of a job at its reading plus its time. *)
LEMMA StepEndIsSet ==
    ASSUME TypeOK, EndIsSet, [Next]_vars
    PROVE  EndIsSet'
  <1> USE DEF clocks, job_vars, loop_vars
  <1>1. CASE pc' # "job"
    BY <1>1 DEF EndIsSet
  <1>2. ASSUME NEW e \in ExecTimes, job_begin(e)
        PROVE  EndIsSet'
    BY <1>2, WallReading DEF job_begin, EndIsSet, Reading, EndStep, TypeOK, MainUnit
  <1>3. CASE UNCHANGED <<pc, time_g, job_vars>>
    BY <1>3 DEF EndIsSet, Reading, EndStep
  <1> QED
    BY <1>1, <1>2, <1>3
    DEF Next, Program, opt_I, start, job_skip, job_transition, loop_begin,
        hold_turn, hold_end, tick, wall_moves, main_returns, ended, vars

(* Rounding keeps the order, so a reading past the rounded end is one of a *)
(* clock that is past the end itself.                                      *)
LEMMA PastRounded ==
    ASSUME wall \in Nat, wall_began \in Nat, exec_time \in Int,
           time_g \in MainUnit,
           program_end = Rounded(Reading(wall_began) + exec_time, EndStep),
           PastEnd
    PROVE  WholeDown(wall, WallGranule(time_g)) > Reading(wall_began) + exec_time
  <1> DEFINE d == WholeDown(wall, WallGranule(time_g))
             y == Reading(wall_began) + exec_time
  <1>1. d \in Int /\ y \in Int /\ EndStep \in Nat \ {0}
    BY ReadingBounds, UnitsType
  <1>2. Rounded(d, EndStep) > Rounded(y, EndStep)
    BY WallReading, ReadingBounds DEF PastEnd
  <1> HIDE DEF d, y
  <1>3. /\ d <= y => Rounded(d, EndStep) <= Rounded(y, EndStep)
        /\ Rounded(d, EndStep) \in Int /\ Rounded(y, EndStep) \in Int
    BY <1>1, RoundedMonotone, RoundedBounds
  <1> QED BY <1>1, <1>2, <1>3 DEF d, y

(* A job is skipped only when more than its execution time, in whole       *)
(* granules, has passed on the wall clock since it began, wherever the     *)
(* clock is set: with seconds the whole of it, with nanoseconds but for    *)
(* half a step of the doubles the readings are rounded to.  The end of the *)
(* job is rounded a second time, which skips no job any earlier.           *)
THEOREM JobsSkippedLate == Spec => SkipsOnlyLate
  <1>1. Init => EndIsSet
    BY DEF Init, EndIsSet
  <1>2. TypeOK /\ EndIsSet /\ [Next]_vars => EndIsSet'
    BY StepEndIsSet
  <1>3. TypeOK /\ EndIsSet /\ [Next]_vars =>
          [pc = "job" /\ pc' = "main"
             => wall - wall_began
                  > WholeDown(exec_time - ReadingError, WallGranule(time_g))]_vars
    <2> SUFFICES ASSUME TypeOK, EndIsSet, Next, pc = "job", pc' = "main"
                 PROVE  wall - wall_began
                          > WholeDown(exec_time - ReadingError, WallGranule(time_g))
      OBVIOUS
    <2> DEFINE g == WallGranule(time_g)
               t == exec_time - ReadingError
               p == wall \div g
               q == wall_began \div g
               e == t \div g
    <2>1. PastEnd
      BY DEF Next, Program, opt_I, start, job_begin, job_skip, job_transition,
             loop_begin, hold_turn, hold_end, tick, wall_moves, main_returns,
             ended, vars
    <2>2. /\ g \in Nat \ {0} /\ wall \in Nat /\ wall_began \in Nat
          /\ exec_time \in Int /\ time_g \in MainUnit
          /\ ReadingError \in Nat /\ t \in Int
      BY UnitsType DEF TypeOK, MainUnit
    <2>3. p * g > q * g + t
      <3>1. /\ p * g > Reading(wall_began) + exec_time
            /\ Reading(wall_began) \in Int /\ p * g \in Int /\ q * g \in Int
            /\ q * g - ReadingError <= Reading(wall_began)
        BY <2>1, <2>2, PastRounded, ReadingBounds DEF EndIsSet, WholeDown
      <3> HIDE DEF p, q, g
      <3> QED BY <2>2, <3>1
    <2>4. /\ p \in Int /\ q \in Int /\ e \in Int
          /\ p * g <= wall /\ wall_began < q * g + g
          /\ e * g <= t
          /\ WholeDown(t, g) = e * g
      <3> HIDE DEF t
      <3>1. p \in Int /\ p * g <= wall
        BY <2>2, WholeDownBounds DEF WholeDown
      <3>2. q \in Int /\ wall_began < q * g + g
        BY <2>2, WholeDownBounds DEF WholeDown
      <3>3. e \in Int /\ e * g <= t
        BY <2>2, WholeDownBounds DEF WholeDown
      <3> QED BY <3>1, <3>2, <3>3 DEF WholeDown
    <2> HIDE DEF p, q, e, g, t
    <2>5. p * g \in Int /\ q * g \in Int /\ e * g \in Int
      BY <2>2, <2>4, MultiplesOrdered
    <2>6. (q + e) * g = q * g + e * g
      BY <2>2, <2>4
    <2>7. (q + e) * g < p * g
      BY <2>2, <2>3, <2>4, <2>5, <2>6
    <2>8. (q + e) * g + g <= p * g
      <3>1. q + e \in Int
        BY <2>4
      <3>2. q + e < p
        BY <2>2, <2>4, <2>7, <3>1, MultiplesOrdered
      <3> QED BY <2>2, <2>4, <3>1, <3>2, MultiplesOrdered
    <2> QED BY <2>2, <2>4, <2>5, <2>6, <2>8 DEF g, t
  <1> QED BY <1>1, <1>2, <1>3, HoldingTypeCorrect, PTL DEF Spec, SkipsOnlyLate

=============================================================================
