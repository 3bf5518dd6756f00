-------------------------- MODULE MemGobblerProofs --------------------------
(***************************************************************************)
(* Theorems about the whole program: it uses the allocator as the          *)
(* allocator expects, so that what AllocatorProofs proves of the allocator *)
(* on its own holds of the program; its types; and the invariants that     *)
(* relate main, its jobs, its vector and its holding times.                *)
(***************************************************************************)
EXTENDS MemGobbler, AccountingProofs

(* Why main keeps the contract of the allocator: before the first job no   *)
(* phase has begun, a transition is over before job is left, and with a    *)
(* vector the budgets are precise before the first job.  The stream is one *)
(* of the vectors, so a count read from it is one of PerPhaseArgs.         *)
KeepsContract ==
    /\ vector \in Vectors \cup {NULL} /\ vpos \in Nat
    /\ pc = "opts" => curr = -1
    /\ pc # "job" => ~in_transition
    /\ vector # NULL /\ ~alloc_precision => curr = -1 /\ pc \notin {"job", "hold"}

(* A step of the program leaves main able to keep the contract. *)
LEMMA StepKeepsContract ==
    ASSUME KeepsContract, [Next]_vars
    PROVE  KeepsContract'
  <1> USE DEF options, progress, locals, gvars, settings, tracker, trans
  <1>1. CASE \E v \in Vectors : opt_V(v)
    BY <1>1 DEF opt_V, Opts, locality_vector_init, KeepsContract
  <1>2. CASE Option /\ ~(\E v \in Vectors : opt_V(v))
    <2>1. /\ pc = "opts" /\ pc' \in {"opts", "rejected"}
          /\ UNCHANGED <<vector, vpos, curr, in_transition>>
      BY <1>2 DEF Option, opt_p, opt_e, opt_l, opt_s, opt_M, opt_A, opt_I,
                  opt_rejected, Opts, set_max_limit, set_speed, set_precise,
                  reset_max_alloc_per_phase, avars
    <2> QED BY <2>1 DEF KeepsContract
  <1>3. CASE start
    BY <1>3 DEF start, Opts, set_file_cnt, KeepsContract
  <1>4. CASE main_next
    <2>1. pc = "main" /\ UNCHANGED <<vector, curr, in_transition>>
      BY <1>4 DEF main_next, AtMain, get_nxt_alloc, reset_max_alloc_per_phase,
                  avars
    <2>2. vpos' \in Nat /\ (vector = NULL \/ alloc_precision')
      BY <1>4 DEF main_next, get_nxt_alloc, reset_max_alloc_per_phase,
                  KeepsContract
    <2>3. pc' \in {"returned", "job"}
      BY <1>4 DEF main_next
    <2> QED BY <2>1, <2>2, <2>3 DEF KeepsContract
  <1>5. CASE main_vector_end \/ main_vector_torn \/ job_skip
    BY <1>5 DEF main_vector_end, main_vector_torn, AtMain, job_skip, AtJob, avars,
                KeepsContract
  <1>6. CASE job_transition
    BY <1>6 DEF job_transition, AtJob, trans_begin, trans_refused, KeepsContract
  <1>7. CASE job_alloc \/ job_alloc_fails
    <2>1. /\ pc = "job" /\ pc' = "job"
          /\ UNCHANGED <<vector, vpos, curr, alloc_precision>>
      BY <1>7 DEF job_alloc, job_alloc_fails, AtJob, track_added, file_refused,
                  open_failed, map_failed, track_overrun, track_full
    <2> QED BY <2>1 DEF KeepsContract
  <1>8. CASE job_hold
    <2>1. /\ pc = "job" /\ pc' \in {"hold", "crashed"} /\ ~in_transition'
          /\ UNCHANGED <<vector, vpos, curr, alloc_precision>>
      BY <1>8 DEF job_hold, AtJob, trans_end
    <2> QED BY <2>1 DEF KeepsContract
  <1>9. CASE hold_turn \/ hold_end \/ tick
    BY <1>9 DEF hold_turn, hold_end, tick, Holding, avars, KeepsContract
  <1>10. CASE UNCHANGED vars
    BY <1>10 DEF vars, avars, KeepsContract
  <1> QED
    BY <1>1, <1>2, <1>3, <1>4, <1>5, <1>6, <1>7, <1>8, <1>9, <1>10
    DEF Next, Program, ended

(* Each step of the program is a step of the allocator, or does not touch  *)
(* its variables.                                                          *)
LEMMA StepImplements ==
    ASSUME KeepsContract, [Next]_vars
    PROVE  [ANext]_avars
  <1>1. CASE Option
    <2>0. Configuring /\ Budgeting
      BY <1>1 DEF Option, opt_p, opt_e, opt_l, opt_s, opt_M, opt_A, opt_V, opt_I,
                  opt_rejected, Opts, Running, KeepsContract, Configuring,
                  Budgeting, Between
    <2>1. ASSUME NEW v \in LimitArgs, opt_l(v)
          PROVE  ANext
      BY <2>0, <2>1 DEF opt_l, ANext
    <2>2. ASSUME NEW v \in SpeedArgs, opt_s(v)
          PROVE  ANext
      BY <2>0, <2>2 DEF opt_s, ANext
    <2>3. ASSUME NEW v \in PerPhaseArgs, opt_M(v)
          PROVE  ANext
      BY <2>0, <2>3 DEF opt_M, ANext
    <2>4. ASSUME NEW v \in TotalArgs, opt_A(v)
          PROVE  ANext
      BY <2>0, <2>4 DEF opt_A, ANext
    <2>5. ASSUME NEW v \in Vectors, opt_V(v)
          PROVE  ANext
      BY <2>0, <2>5 DEF opt_V, ANext
    <2>6. ASSUME NEW v, opt_p(v) \/ opt_e(v)
          PROVE  UNCHANGED avars
      BY <2>6 DEF opt_p, opt_e
    <2>7. CASE opt_I \/ opt_rejected
      BY <2>7 DEF opt_I, opt_rejected
    <2> QED
      BY <1>1, <2>1, <2>2, <2>3, <2>4, <2>5, <2>6, <2>7 DEF Option
  <1>2. CASE start
    BY <1>2 DEF start, Opts, Running, KeepsContract, Configuring, Between, ANext
  <1>3. CASE main_next
    <2>1. CASE vector = NULL /\ UNCHANGED avars
      BY <2>1
    <2>2. CASE LineLeft /\ reset_max_alloc_per_phase(
                             IF ipfvt THEN 1 ELSE vector[vpos + 1].count)
      <3> DEFINE n == IF ipfvt THEN 1 ELSE vector[vpos + 1].count
      <3>1. vector \in Vectors /\ vpos < Len(vector)
        BY <2>2 DEF KeepsContract, LineLeft
      <3>2. vector \in Seq(Line) /\ 1 \in PerPhaseArgs
        BY <3>1, GobblerAssumption
      <3>3. vector[vpos + 1] \in Line
        BY <3>1, <3>2 DEF KeepsContract
      <3>4. n \in PerPhaseArgs
        BY <3>2, <3>3 DEF Line
      <3>5. Budgeting
        BY <1>3, <3>1, GobblerAssumption
        DEF main_next, AtMain, Running, KeepsContract, Budgeting, Between
      <3> HIDE DEF n
      <3> QED BY <2>2, <3>4, <3>5 DEF ANext, n
    <2> QED BY <1>3, <2>1, <2>2 DEF main_next, get_nxt_alloc
  <1>4. CASE main_vector_end \/ main_vector_torn \/ job_skip
    BY <1>4 DEF main_vector_end, main_vector_torn, job_skip
  <1>5. CASE job_transition
    BY <1>5 DEF job_transition, AtJob, Running, Between, ANext
  <1>6. CASE job_alloc \/ job_alloc_fails \/ job_hold
    BY <1>6 DEF job_alloc, job_alloc_fails, job_hold, ANext
  <1>7. CASE hold_turn \/ hold_end \/ tick
    BY <1>7 DEF hold_turn, hold_end, tick
  <1>8. CASE UNCHANGED vars
    BY <1>8 DEF vars
  <1> QED
    BY <1>1, <1>2, <1>3, <1>4, <1>5, <1>6, <1>7, <1>8 DEF Next, Program, ended

(* Main is able to keep the contract at every step. *)
LEMMA ContractIsKept == Spec => []KeepsContract
  <1>1. Init => KeepsContract
    BY DEF Init, AInit, KeepsContract
  <1>2. KeepsContract /\ [Next]_vars => KeepsContract'
    BY StepKeepsContract
  <1> QED BY <1>1, <1>2, PTL DEF Spec

(* The program implements the allocator: for every command line and every  *)
(* vector, main makes its settings before the first phase, sets a budget   *)
(* only between phases and never after a phase on a random one, and begins *)
(* no phase inside another.                                                *)
THEOREM ProgramImplementsAllocator == Spec => ImplementsAllocator
  <1>1. Init => AInit
    BY DEF Init
  <1>2. KeepsContract /\ [Next]_vars => [ANext]_avars
    BY StepImplements
  <1> QED BY <1>1, <1>2, ContractIsKept, PTL DEF Spec, ImplementsAllocator, ASpec

(* What is proved of the allocator holds of the program: files are mapped  *)
(* once, the filled flags are right, only a budget that asks for it        *)
(* overflows a phase, the descriptors last, the statistics agree with the  *)
(* tracker, a budget is overshot by less than one mapping, and the ratio   *)
(* of the types is kept.                                                   *)
THEOREM ProgramAllocatesSafely ==
    Spec => [](FilesUsedOnce /\ FilledMeansFull /\ FullOnlyWhenAsked
                 /\ DescriptorsSuffice /\ Accounting /\ PhaseBudget /\ RatioKept)
  BY ProgramImplementsAllocator, EachFileMappedOnce, FilledFlagsRight,
     PhaseNeverOverflows, DescriptorsLast, StatisticsRight,
     BudgetOvershotByOneMapping, RatioOfTypesKept, PTL DEF ImplementsAllocator

(* A phase that has not begun is empty. *)
LEMMA ProgramRoomLeft == Spec => []RoomLeft
  BY ProgramImplementsAllocator, RoomIsLeft, PTL DEF ImplementsAllocator

-----------------------------------------------------------------------------
(* Types *)

(* A phase that is held is one of alloc_track. *)
HoldsAPhase == pc = "hold" => curr \in Phase

(* A phase is held only after a transition that had room for it. *)
LEMMA StepHoldsAPhase ==
    ASSUME HoldsAPhase, [Next]_vars
    PROVE  HoldsAPhase'
  <1> USE DEF options, progress, locals, gvars, tracker
  <1>1. CASE Option
    BY <1>1 DEF Option, opt_p, opt_e, opt_l, opt_s, opt_M, opt_A, opt_V, opt_I,
                opt_rejected, Opts, HoldsAPhase
  <1>2. CASE start \/ main_next \/ main_vector_end \/ main_vector_torn
    BY <1>2 DEF start, main_next, main_vector_end, main_vector_torn, HoldsAPhase
  <1>3. CASE job_skip \/ job_transition \/ job_alloc \/ job_alloc_fails
    BY <1>3 DEF job_skip, job_transition, job_alloc, job_alloc_fails, AtJob,
                HoldsAPhase
  <1>4. CASE job_hold
    BY <1>4 DEF job_hold, trans_end, HoldsAPhase
  <1>5. CASE hold_turn \/ hold_end \/ tick
    BY <1>5 DEF hold_turn, hold_end, tick, avars, HoldsAPhase
  <1>6. CASE UNCHANGED vars
    BY <1>6 DEF vars, avars, HoldsAPhase
  <1> QED
    BY <1>1, <1>2, <1>3, <1>4, <1>5, <1>6 DEF Next, Program, ended

(* The types hold at the start. *)
LEMMA InitTypeOKProgram == Init => TypeOK
  <1> SUFFICES ASSUME Init PROVE TypeOK
    OBVIOUS
  <1>1. ATypeOK
    BY InitTypeOK DEF Init
  <1>2. max_phase \in Nat /\ lag \in 0..MAX_LAG
    BY AllocatorAssumption, GobblerAssumption DEF Init
  <1>3. /\ pc \in {"opts", "main", "job", "hold"} \cup Ended
        /\ alloc_size \in Nat \cup {NULL}
        /\ vector \in Seq(Line) \cup {NULL}
        /\ ipfvt \in BOOLEAN /\ alloc_nomore \in BOOLEAN
        /\ touched \in SUBSET (Int \X Nat)
    BY DEF Init
  <1>4. /\ wcet_ms \in Int /\ vpos \in Nat /\ cur_job \in Nat
        /\ loops \in Nat /\ next \in Nat /\ run \in Nat
    BY DEF Init
  <1> QED BY <1>1, <1>2, <1>3, <1>4 DEF TypeOK

(* A step of the program keeps the types. *)
LEMMA StepTypeOKProgram ==
    ASSUME TypeOK, KeepsContract, HoldsAPhase, [Next]_vars
    PROVE  TypeOK'
  <1> USE DEF options, progress, locals, gvars
  <1>0. ATypeOK'
    BY StepImplements, StepTypeOK DEF TypeOK
  <1>1. CASE Option
    <2>1. ASSUME NEW v \in PhaseArgs, opt_p(v)
          PROVE  TypeOK'
      BY <1>0, <2>1, GobblerAssumption DEF opt_p, TypeOK
    <2>2. ASSUME NEW v \in ExecArgs, opt_e(v)
          PROVE  TypeOK'
      BY <1>0, <2>2, GobblerAssumption DEF opt_e, TypeOK
    <2>3. ASSUME NEW v \in TotalArgs, opt_A(v)
          PROVE  TypeOK'
      BY <1>0, <2>3, GobblerAssumption DEF opt_A, TypeOK
    <2>4. ASSUME NEW v \in Vectors, opt_V(v)
          PROVE  TypeOK'
      BY <1>0, <2>4, GobblerAssumption DEF opt_V, TypeOK
    <2>5. ASSUME NEW v, opt_l(v) \/ opt_s(v) \/ opt_M(v)
          PROVE  TypeOK'
      BY <1>0, <2>5 DEF opt_l, opt_s, opt_M, TypeOK
    <2>6. CASE opt_I \/ opt_rejected
      BY <1>0, <2>6 DEF opt_I, opt_rejected, TypeOK, Ended
    <2> QED BY <1>1, <2>1, <2>2, <2>3, <2>4, <2>5, <2>6 DEF Option
  <1>2. CASE start
    BY <1>0, <1>2, GobblerAssumption DEF start, TypeOK
  <1>3. CASE main_next
    <2>1. wcet_ms' \in Int /\ vpos' \in Nat
      <3>1. CASE vector = NULL /\ UNCHANGED <<wcet_ms, vpos>>
        BY <3>1 DEF TypeOK
      <3>2. CASE LineLeft /\ wcet_ms' = vector[vpos + 1].wcet /\ vpos' = vpos + 1
        <4>1. vector \in Seq(Line) /\ vpos + 1 \in 1..Len(vector)
          BY <3>2, GobblerAssumption DEF LineLeft, KeepsContract
        <4>2. vector[vpos + 1] \in Line
          BY <4>1
        <4> QED BY <3>2, <4>2 DEF Line, KeepsContract
      <3> QED BY <1>3, <3>1, <3>2 DEF main_next, get_nxt_alloc
    <2>2. cur_job' \in Nat /\ alloc_nomore' \in BOOLEAN
          /\ pc' \in {"returned", "job"}
      BY <1>3 DEF main_next, TypeOK, LimitReached
    <2> QED BY <1>0, <1>3, <2>1, <2>2 DEF main_next, TypeOK, Ended
  <1>4. CASE main_vector_end \/ main_vector_torn \/ job_skip
    BY <1>0, <1>4 DEF main_vector_end, main_vector_torn, job_skip, TypeOK, Ended
  <1>5. CASE job_transition
    BY <1>0, <1>5, GobblerAssumption DEF job_transition, TypeOK
  <1>6. CASE job_alloc
    <2>1. curr \in Int /\ curr \in Phase
      BY <1>6 DEF job_alloc, track_added, TypeOK, ATypeOK
    <2>2. Len(alloc_track'[curr]) \in Nat
      BY <1>0, <2>1 DEF ATypeOK
    <2>3. touched' \in SUBSET (Int \X Nat)
      BY <1>6, <2>1, <2>2 DEF job_alloc, TypeOK
    <2> QED BY <1>0, <1>6, <2>3 DEF job_alloc, TypeOK
  <1>7. CASE job_alloc_fails
    BY <1>0, <1>7 DEF job_alloc_fails, TypeOK
  <1>8. CASE job_hold
    <2>1. next' \in Nat /\ pc' \in {"hold", "crashed"}
      BY <1>8 DEF job_hold, TypeOK, ATypeOK
    <2>2. lag' \in 0..MAX_LAG /\ run' \in Nat
      BY <1>8, GobblerAssumption DEF job_hold
    <2> QED BY <1>0, <1>8, <2>1, <2>2 DEF job_hold, TypeOK, Ended
  <1>9. CASE hold_turn
    <2>1. next' \in Nat /\ touched' \in SUBSET (Int \X Nat)
      <3>1. CASE next > 0
        BY <1>9, <3>1 DEF hold_turn, touch_next, TypeOK, ATypeOK
      <3>2. CASE ~(next > 0)
        <4>1. alloc_track' = alloc_track /\ curr' = curr
          BY <1>9 DEF hold_turn, avars, tracker
        <4>2. Len(alloc_track[curr]) \in Nat
          BY <1>9 DEF hold_turn, Holding, HoldsAPhase, TypeOK, ATypeOK
        <4> QED BY <1>9, <3>2, <4>1, <4>2 DEF hold_turn, touch_next, TypeOK
      <3> QED BY <3>1, <3>2
    <2>2. lag' \in 0..MAX_LAG /\ run' \in Nat
      BY <1>9, GobblerAssumption DEF hold_turn, read_clock, TypeOK
    <2> QED BY <1>0, <1>9, <2>1, <2>2 DEF hold_turn, TypeOK
  <1>10. CASE hold_end
    BY <1>0, <1>10 DEF hold_end, TypeOK
  <1>11. CASE tick
    BY <1>0, <1>11, GobblerAssumption DEF tick, TypeOK
  <1>12. CASE UNCHANGED vars
    BY <1>0, <1>12 DEF vars, TypeOK
  <1> QED
    BY <1>1, <1>2, <1>3, <1>4, <1>5, <1>6, <1>7, <1>8, <1>9, <1>10, <1>11,
       <1>12 DEF Next, Program, ended

(* The type invariant of the program: in particular the index of loop_for, *)
(* which is unsigned, never goes below 0.                                  *)
THEOREM ProgramTypeCorrect == Spec => []TypeOK
  <1> DEFINE Inv == TypeOK /\ KeepsContract /\ HoldsAPhase
  <1>1. Init => Inv
    BY InitTypeOKProgram DEF Init, AInit, KeepsContract, HoldsAPhase
  <1>2. Inv /\ [Next]_vars => Inv'
    BY StepTypeOKProgram, StepKeepsContract, StepHoldsAPhase
  <1> QED BY <1>1, <1>2, PTL DEF Spec

-----------------------------------------------------------------------------
(* The phases fit the tracker. *)

(* PhasesFit is not inductive: it needs that main counts a job before the  *)
(* job begins a phase, that no job begins two, and that main breaks before *)
(* the job that is the max_phase-th.                                       *)
JobsCounted ==
    /\ pc = "opts" => curr = -1 /\ failed = "no"
    /\ pc # "job" => ~in_transition
    /\ in_transition => curr >= 0
    /\ curr + 1 <= cur_job
    /\ pc \in {"job", "hold"} => cur_job < max_phase
    /\ pc = "job" /\ ~in_transition => curr + 2 <= cur_job
    /\ PhasesFit

(* A step keeps the phases begun at most the jobs counted. *)
LEMMA StepJobsCounted ==
    ASSUME TypeOK, JobsCounted, [Next]_vars
    PROVE  JobsCounted'
  <1> USE DEF options, progress, locals, gvars, tracker, trans
  <1>0. /\ curr \in Int /\ curr >= -1
        /\ cur_job \in Nat /\ max_phase \in Nat /\ MAX_ALLOC \in Nat \ {0}
    BY AllocatorAssumption DEF TypeOK, ATypeOK
  <1>1. CASE Option
    <2>1. ASSUME NEW v \in PhaseArgs, opt_p(v)
          PROVE  JobsCounted'
      BY <1>0, <2>1 DEF opt_p, Opts, avars, JobsCounted, PhasesFit
    <2>2. ASSUME NEW v, opt_e(v)
          PROVE  JobsCounted'
      BY <2>2 DEF opt_e, avars, JobsCounted, PhasesFit
    <2>3. ASSUME NEW v, opt_l(v) \/ opt_s(v) \/ opt_M(v)
          PROVE  JobsCounted'
      <3>1. UNCHANGED <<curr, in_transition, failed, pc, max_phase, cur_job>>
        BY <2>3 DEF opt_l, opt_s, opt_M, set_max_limit, set_speed,
                    reset_max_alloc_per_phase
      <3> QED BY <3>1 DEF JobsCounted, PhasesFit
    <2>4. ASSUME NEW v, opt_A(v) \/ opt_V(v)
          PROVE  JobsCounted'
      BY <2>4 DEF opt_A, opt_V, set_precise, locality_vector_init,
                  JobsCounted, PhasesFit
    <2>5. CASE opt_I \/ opt_rejected
      BY <2>5 DEF opt_I, opt_rejected, Opts, avars, JobsCounted, PhasesFit
    <2> QED BY <1>1, <2>1, <2>2, <2>3, <2>4, <2>5 DEF Option
  <1>2. CASE start
    BY <1>2 DEF start, Opts, set_file_cnt, JobsCounted, PhasesFit
  <1>3. CASE main_next
    <2>1. UNCHANGED <<curr, in_transition, failed, max_phase>>
      BY <1>3 DEF main_next, get_nxt_alloc, reset_max_alloc_per_phase, avars
    <2>2. cur_job' = cur_job + 1 /\ pc' \in {"returned", "job"}
      BY <1>3 DEF main_next
    <2>3. pc' = "job" => cur_job' < max_phase
      BY <1>0, <1>3, <2>2 DEF main_next, LastJob
    <2>4. pc = "main"
      BY <1>3 DEF main_next, AtMain
    <2> QED BY <1>0, <2>1, <2>2, <2>3, <2>4 DEF JobsCounted, PhasesFit
  <1>4. CASE main_vector_end \/ main_vector_torn
    BY <1>4 DEF main_vector_end, main_vector_torn, AtMain, avars, JobsCounted,
                PhasesFit
  <1>5. CASE job_skip
    BY <1>5 DEF job_skip, AtJob, avars, JobsCounted, PhasesFit
  <1>6. CASE job_transition
    <2>1. UNCHANGED <<pc, max_phase, cur_job>> /\ pc = "job" /\ ~in_transition
      BY <1>6 DEF job_transition, AtJob, trans_begin, trans_refused
    <2>2. CASE trans_begin
      <3>1. curr' = curr + 1 /\ in_transition' /\ failed' = failed
        BY <2>2 DEF trans_begin, go_to_nxt_phase
      <3> QED BY <1>0, <2>1, <3>1 DEF JobsCounted, PhasesFit
    <2>3. CASE trans_refused
      <3>1. curr' = curr /\ ~in_transition' /\ curr >= MAX_ALLOC
        BY <2>1, <2>3 DEF trans_refused
      <3> QED BY <1>0, <2>1, <3>1 DEF JobsCounted, PhasesFit
    <2> QED BY <1>6, <2>2, <2>3 DEF job_transition
  <1>7. CASE job_alloc
    <2>1. UNCHANGED <<pc, max_phase, cur_job, curr, in_transition, failed>>
      BY <1>7 DEF job_alloc, track_added
    <2> QED BY <2>1 DEF JobsCounted, PhasesFit
  <1>8. CASE job_alloc_fails
    <2>1. UNCHANGED <<pc, max_phase, cur_job, curr, in_transition>> /\ pc = "job"
      BY <1>8 DEF job_alloc_fails, AtJob, file_refused, open_failed, map_failed,
                  track_overrun, track_full
    <2>2. \/ failed' = failed
          \/ failed' \in {"emfile", "open", "mmap", "tracker"}
          \/ failed' = "overrun" /\ curr \notin Phase
      BY <1>8 DEF job_alloc_fails, file_refused, open_failed, map_failed,
                  track_overrun, track_full
    <2>3. in_transition
      BY <1>8, DrawType DEF job_alloc_fails, file_refused, open_failed, map_failed,
                  track_overrun, track_full, Mapped, TypeOK
    <2>4. failed' = "overrun" => curr >= MAX_ALLOC \/ failed = "overrun"
      BY <1>0, <2>2, <2>3 DEF JobsCounted, Phase
    <2>5. failed' = "phases" => failed = "phases"
      BY <2>2
    <2> QED BY <1>0, <2>1, <2>4, <2>5 DEF JobsCounted, PhasesFit
  <1>9. CASE job_hold
    <2>1. UNCHANGED <<max_phase, cur_job, curr, failed>> /\ ~in_transition'
          /\ pc = "job" /\ pc' \in {"hold", "crashed"}
      BY <1>9 DEF job_hold, AtJob, trans_end
    <2> QED BY <2>1 DEF JobsCounted, PhasesFit
  <1>10. CASE hold_turn \/ hold_end \/ tick
    BY <1>10 DEF hold_turn, hold_end, tick, Holding, avars, JobsCounted, PhasesFit
  <1>11. CASE UNCHANGED vars
    BY <1>11 DEF vars, avars, JobsCounted, PhasesFit
  <1> QED
    BY <1>1, <1>2, <1>3, <1>4, <1>5, <1>6, <1>7, <1>8, <1>9, <1>10, <1>11
    DEF Next, Program, ended

(* Main counts its jobs right from the first to the last. *)
LEMMA JobsAreCounted == Spec => []JobsCounted
  <1>1. Init => JobsCounted
    BY AllocatorAssumption DEF Init, AInit, JobsCounted, PhasesFit
  <1>2. TypeOK /\ JobsCounted /\ [Next]_vars => JobsCounted'
    BY StepJobsCounted
  <1> QED BY <1>1, <1>2, ProgramTypeCorrect, PTL DEF Spec

(* As long as -p does not exceed MAX_ALLOC + 1 localities, no phase leaves  *)
(* alloc_track: the test of go_to_nxt_phase, which is off by one, is never *)
(* needed.                                                                 *)
THEOREM PhasesStayInTracker == Spec => []PhasesFit
  <1>1. JobsCounted => PhasesFit
    BY DEF JobsCounted
  <1> QED BY <1>1, JobsAreCounted, PTL

-----------------------------------------------------------------------------
(* The limit of -l *)

(* OvershootByOnePhase is not inductive: it needs that a job that has not  *)
(* begun its phase found the pages within the limit, because main breaks   *)
(* otherwise.                                                              *)
OneOver ==
    /\ pc = "job" /\ ~in_transition /\ failed = "no"
         => total_alloc_pages <= max_limit
    /\ OvershootByOnePhase

(* Steps that neither map nor begin a phase, and start no job *)
LEMMA OneOverKept ==
    ASSUME OneOver,
           UNCHANGED <<tracker, total_alloc_pages, max_limit>>,
           failed' = failed \/ (failed # "tracker" /\ failed' # "tracker"),
           pc' # "job" \/ in_transition' \/ failed' # "no"
             \/ UNCHANGED <<pc, in_transition, failed>>
    PROVE  OneOver'
  BY DEF OneOver, OvershootByOnePhase, tracker

(* A step keeps what was mapped within the limit and one phase. *)
LEMMA StepOneOver ==
    ASSUME TypeOK, KeepsContract, RoomLeft, Accounting, JobsCounted, OneOver,
           [Next]_vars
    PROVE  OneOver'
  <1> USE DEF options, progress, locals, gvars, settings, pool, tracker, counters,
              trans
  <1>0. /\ ATypeOK /\ ATypeOK'
        /\ total_alloc_pages \in Nat /\ max_limit \in Nat
        /\ curr \in Phase => PagesOf(alloc_track[curr]) \in Nat
    BY StepImplements, StepTypeOK, PagesType DEF TypeOK, ATypeOK
  <1>1. CASE Option \/ start
    <2>1. pc = "opts" /\ pc' # "job" /\ curr' = curr
      BY <1>1 DEF Option, opt_p, opt_e, opt_l, opt_s, opt_M, opt_A, opt_V, opt_I,
                  opt_rejected, start, Opts, set_max_limit, set_speed,
                  reset_max_alloc_per_phase, set_precise, locality_vector_init,
                  set_file_cnt, avars
    <2>2. curr' \notin Phase
      BY <2>1 DEF JobsCounted, Phase
    <2> QED BY <2>1, <2>2 DEF OneOver, OvershootByOnePhase
  <1>2. CASE main_next
    <2>1. UNCHANGED <<tracker, total_alloc_pages, file_cnt, anon_cnt, max_limit,
                      failed>>
      BY <1>2 DEF main_next, get_nxt_alloc, reset_max_alloc_per_phase, avars
    <2>2. pc' = "job" => total_alloc_pages <= max_limit
      <3>1. pc' = "job" => ~LimitReached
        BY <1>2 DEF main_next
      <3>2. total_alloc_pages = file_cnt + anon_cnt
        BY DEF Accounting
      <3> QED BY <1>0, <3>1, <3>2 DEF LimitReached
    <2> QED BY <2>1, <2>2 DEF OneOver, OvershootByOnePhase
  <1>3. CASE main_vector_end \/ main_vector_torn \/ job_skip
    BY <1>3, OneOverKept DEF main_vector_end, main_vector_torn, job_skip, avars
  <1>4. CASE job_transition
    <2>1. CASE trans_refused
      BY <1>4, <2>1, OneOverKept DEF job_transition, AtJob, Running, trans_refused
    <2>2. CASE trans_begin
      <3>1. /\ UNCHANGED <<alloc_track, total_alloc_pages, max_limit>>
            /\ curr' = curr + 1 /\ in_transition'
            /\ pc = "job" /\ ~in_transition /\ failed = "no"
        BY <1>4, <2>2
        DEF job_transition, AtJob, Running, trans_begin, go_to_nxt_phase
      <3>2. curr' \in Phase => alloc_track'[curr'] = <<>>
        BY <1>0, <3>1 DEF RoomLeft, ATypeOK
      <3>3. total_alloc_pages <= max_limit
        BY <3>1 DEF OneOver
      <3> QED BY <1>0, <3>1, <3>2, <3>3, PagesOfNone
              DEF OneOver, OvershootByOnePhase
    <2> QED BY <1>4, <2>1, <2>2 DEF job_transition
  <1>5. CASE job_alloc
    <2>1. PICK e \in Entry : Adds(e)
      BY <1>0, <1>5, AddedMapping DEF job_alloc
    <2>2. /\ curr \in Phase
          /\ UNCHANGED <<curr, in_transition, failed, max_limit>>
          /\ in_transition
      BY <1>0, <1>5, DrawType DEF job_alloc, track_added, Mapped
    <2>3. PagesOf(alloc_track'[curr]) = PagesOf(alloc_track[curr]) + e.len
      BY <1>0, <2>1, <2>2, TrackedGrows
    <2>4. total_alloc_pages' = total_alloc_pages + e.len /\ e.len \in Nat
      BY <2>1 DEF Adds, Count, Entry
    <2> QED BY <1>0, <2>2, <2>3, <2>4 DEF OneOver, OvershootByOnePhase
  <1>6. CASE job_alloc_fails
    <2>1. /\ pc' = pc /\ UNCHANGED <<tracker, in_transition, max_limit>>
          /\ in_transition /\ failed = "no"
      BY <1>0, <1>6, DrawType
      DEF job_alloc_fails, file_refused, open_failed, map_failed, track_overrun,
          track_full, Mapped
    <2>2. \/ failed' = "tracker"
          \/ failed' # "tracker" /\ total_alloc_pages' = total_alloc_pages
      BY <1>6, <2>1 DEF job_alloc_fails, file_refused, open_failed, map_failed,
                        track_overrun, track_full
    <2>3. CASE failed' = "tracker"
      BY <2>1, <2>3 DEF OneOver, OvershootByOnePhase
    <2> QED BY <2>1, <2>2, <2>3, OneOverKept
  <1>7. CASE job_hold
    BY <1>7, OneOverKept DEF job_hold, trans_end
  <1>8. CASE hold_turn \/ hold_end \/ tick
    BY <1>8, OneOverKept DEF hold_turn, hold_end, tick, Holding, avars
  <1>9. CASE UNCHANGED vars
    BY <1>9, OneOverKept DEF vars, avars
  <1> QED
    BY <1>1, <1>2, <1>3, <1>4, <1>5, <1>6, <1>7, <1>8, <1>9
    DEF Next, Program, ended

(* The limit of -l is overshot by no more than the phase that is current:  *)
(* the earlier phases together are within it, whatever the sizes drawn.    *)
THEOREM LimitOvershotByOnePhase == Spec => []OvershootByOnePhase
  <1>1. Init => OneOver
    BY DEF Init, AInit, OneOver, OvershootByOnePhase, Phase
  <1>2. TypeOK /\ KeepsContract /\ RoomLeft /\ Accounting /\ JobsCounted /\ OneOver
          /\ [Next]_vars => OneOver'
    BY StepOneOver
  <1>3. OneOver => OvershootByOnePhase
    BY DEF OneOver
  <1> QED BY <1>1, <1>2, <1>3, ProgramTypeCorrect, ProgramRoomLeft,
             ProgramAllocatesSafely, JobsAreCounted, ContractIsKept, PTL DEF Spec

-----------------------------------------------------------------------------
(* The vector and the jobs *)

(* TraceInStep is not inductive: it needs that the lines read and the jobs  *)
(* counted are in step at the top of main's loop too.                      *)
LinesCounted ==
    /\ pc = "opts" => vpos = 0 /\ cur_job = 0
    /\ vector # NULL /\ pc = "main" => vpos = cur_job
    /\ TraceInStep

(* A step keeps lines and jobs in step. *)
LEMMA StepLinesCounted ==
    ASSUME TypeOK, LinesCounted, [Next]_vars
    PROVE  LinesCounted'
  <1> USE DEF options, progress, locals, gvars, settings
  <1>1. CASE Option
    <2>1. pc = "opts" /\ pc' \in {"opts", "rejected"}
          /\ UNCHANGED <<vpos, cur_job>>
      BY <1>1 DEF Option, opt_p, opt_e, opt_l, opt_s, opt_M, opt_A, opt_V,
                  opt_I, opt_rejected, Opts
    <2> QED BY <2>1 DEF LinesCounted, TraceInStep
  <1>2. CASE start
    BY <1>2 DEF start, Opts, LinesCounted, TraceInStep
  <1>3. CASE main_next
    <2>1. UNCHANGED <<vector, ipfvt>> /\ pc = "main" /\ pc' \in {"returned", "job"}
          /\ cur_job' = cur_job + 1
      BY <1>3 DEF main_next, AtMain
    <2>2. CASE vector = NULL
      BY <2>1, <2>2 DEF LinesCounted, TraceInStep
    <2>3. CASE vector # NULL
      <3>1. /\ vpos' = vpos + 1
            /\ wcet_ms' = vector[vpos + 1].wcet
            /\ max_alloc_per_phase' = IF ipfvt THEN 1 ELSE vector[vpos + 1].count
        BY <1>3, <2>3 DEF main_next, get_nxt_alloc, reset_max_alloc_per_phase
      <3>2. vpos = cur_job
        BY <2>1, <2>3 DEF LinesCounted
      <3> QED BY <2>1, <3>1, <3>2 DEF LinesCounted, TraceInStep
    <2> QED BY <2>2, <2>3
  <1>4. CASE main_vector_end \/ main_vector_torn
    BY <1>4 DEF main_vector_end, main_vector_torn, LinesCounted, TraceInStep
  <1>5. CASE job_skip \/ job_transition \/ job_alloc \/ job_alloc_fails \/ job_hold
        \/ hold_turn \/ hold_end \/ tick
    <2>1. UNCHANGED <<vector, ipfvt, vpos, cur_job, wcet_ms>>
      BY <1>5 DEF job_skip, job_transition, job_alloc, job_alloc_fails, job_hold,
                  hold_turn, hold_end, tick
    <2>2. pc \in {"job", "hold"} /\ pc' \in {"main", "job", "hold", "crashed"}
      BY <1>5 DEF job_skip, job_transition, job_alloc, job_alloc_fails, job_hold,
                  hold_turn, hold_end, tick, AtJob, Holding
    <2>3. max_alloc_per_phase' = max_alloc_per_phase
      <3>1. CASE job_skip \/ hold_turn \/ hold_end \/ tick
        BY <3>1 DEF job_skip, hold_turn, hold_end, tick, avars
      <3>2. CASE job_transition \/ job_hold
        BY <3>2 DEF job_transition, job_hold, trans_begin, trans_refused, trans_end
      <3>3. CASE job_alloc \/ job_alloc_fails
        BY <3>3 DEF job_alloc, job_alloc_fails, track_added, file_refused,
                    open_failed, map_failed, track_overrun, track_full
      <3> QED BY <1>5, <3>1, <3>2, <3>3
    <2> QED BY <2>1, <2>2, <2>3 DEF LinesCounted, TraceInStep
  <1>6. CASE UNCHANGED vars
    BY <1>6 DEF vars, avars, LinesCounted, TraceInStep
  <1> QED
    BY <1>1, <1>2, <1>3, <1>4, <1>5, <1>6 DEF Next, Program, ended

(* The job that runs is the one of the line read last: it has the budget   *)
(* and the time of that line, whatever jobs were skipped before.           *)
THEOREM TraceStaysInStep == Spec => []TraceInStep
  <1>1. Init => LinesCounted
    BY DEF Init, LinesCounted, TraceInStep
  <1>2. TypeOK /\ LinesCounted /\ [Next]_vars => LinesCounted'
    BY StepLinesCounted
  <1>3. LinesCounted => TraceInStep
    BY DEF LinesCounted
  <1> QED BY <1>1, <1>2, <1>3, ProgramTypeCorrect, PTL DEF Spec

-----------------------------------------------------------------------------
(* The holding time *)

(* While a phase is held, the mappings above next have been touched; and   *)
(* before all of them have been, no more time has been added up than the   *)
(* turns made can take.                                                    *)
Sweep ==
    pc = "hold" =>
      LET n == Len(alloc_track[curr]) IN
      /\ curr \in Phase
      /\ next <= n
      /\ \A i \in 1..n : i > next => <<curr, i>> \in touched
      /\ \/ \A i \in 1..n : <<curr, i>> \in touched
         \/ run <= MAX_LAG * (n - next)

(* A turn of the holding loop touches the next mapping of the sweep. *)
LEMMA StepSweep ==
    ASSUME TypeOK, Sweep, [Next]_vars
    PROVE  Sweep'
  <1> USE DEF options, progress, locals, gvars, tracker
  <1>1. CASE Option
    <2>1. pc' \in {"opts", "rejected"}
      BY <1>1 DEF Option, opt_p, opt_e, opt_l, opt_s, opt_M, opt_A, opt_V,
                  opt_I, opt_rejected, Opts
    <2> QED BY <2>1 DEF Sweep
  <1>2. CASE start \/ main_next \/ main_vector_end \/ main_vector_torn \/ job_skip
        \/ hold_end
    BY <1>2 DEF start, main_next, main_vector_end, main_vector_torn, job_skip,
                hold_end, Sweep
  <1>3. CASE job_transition \/ job_alloc \/ job_alloc_fails
    BY <1>3 DEF job_transition, job_alloc, job_alloc_fails, AtJob, Sweep
  <1>4. CASE job_hold
    <2>1. curr' = curr /\ alloc_track' = alloc_track /\ run' = 0
      BY <1>4 DEF job_hold, trans_end
    <2>2. CASE curr \notin Phase
      BY <1>4, <2>2 DEF job_hold, Sweep
    <2>3. CASE curr \in Phase
      <3> DEFINE n == Len(alloc_track[curr])
      <3>1. n \in Nat /\ next' = n
        BY <1>4, <2>3 DEF job_hold, TypeOK, ATypeOK
      <3>2. MAX_LAG * (n - next') = 0
        BY <3>1, GobblerAssumption
      <3> QED BY <2>1, <2>3, <3>1, <3>2 DEF Sweep
    <2> QED BY <2>2, <2>3
  <1>5. CASE hold_turn
    <2> DEFINE n == Len(alloc_track[curr])
    <2>1. /\ curr' = curr /\ alloc_track' = alloc_track /\ pc = "hold"
          /\ run' = run + lag
      BY <1>5 DEF hold_turn, Holding, avars, read_clock
    <2>2. /\ curr \in Phase /\ next <= n
          /\ \A i \in 1..n : i > next => <<curr, i>> \in touched
          /\ \/ \A i \in 1..n : <<curr, i>> \in touched
             \/ run <= MAX_LAG * (n - next)
      BY <2>1 DEF Sweep
    <2>3. n \in Nat /\ next \in Nat /\ run \in Nat /\ lag \in Nat /\ lag <= MAX_LAG
          /\ MAX_LAG \in Nat
      BY <2>2, GobblerAssumption DEF TypeOK, ATypeOK
    <2> HIDE DEF n
    <2>4. CASE next > 0
      <3>1. touched' = touched \cup {<<curr, next>>} /\ next' = next - 1
        BY <1>5, <2>4 DEF hold_turn, touch_next
      <3>2. \A i \in 1..n : i > next' => <<curr, i>> \in touched'
        BY <2>2, <2>3, <3>1
      <3>3. MAX_LAG * (n - next') = MAX_LAG * (n - next) + MAX_LAG
        BY <2>3, <3>1
      <3>4. \/ \A i \in 1..n : <<curr, i>> \in touched'
            \/ run' <= MAX_LAG * (n - next')
        <4>1. MAX_LAG * (n - next) \in Int
          BY <2>3
        <4> QED BY <2>1, <2>2, <2>3, <3>1, <3>3, <4>1
      <3> QED BY <2>1, <2>2, <2>3, <3>1, <3>2, <3>4 DEF Sweep, n
    <2>5. CASE next = 0
      <3>1. touched' = touched /\ next' = n
        BY <1>5, <2>5 DEF hold_turn, touch_next, n
      <3>2. \A i \in 1..n : <<curr, i>> \in touched
        BY <2>2, <2>3, <2>5
      <3> QED BY <2>1, <2>2, <2>3, <3>1, <3>2 DEF Sweep, n
    <2> QED BY <2>3, <2>4, <2>5
  <1>6. CASE tick
    BY <1>6 DEF tick, avars, Sweep
  <1>7. CASE UNCHANGED vars
    BY <1>7 DEF vars, avars, Sweep
  <1> QED
    BY <1>1, <1>2, <1>3, <1>4, <1>5, <1>6, <1>7 DEF Next, Program, ended

(* The touches of a holding time go through the phase in order. *)
LEMMA SweepsInOrder == Spec => []Sweep
  <1>1. Init => Sweep
    BY DEF Init, Sweep
  <1>2. TypeOK /\ Sweep /\ [Next]_vars => Sweep'
    BY StepSweep
  <1> QED BY <1>1, <1>2, ProgramTypeCorrect, PTL DEF Spec

(* A holding time that is long enough for as many turns as the phase has   *)
(* mappings, however long a turn takes, touches every one of them.         *)
THEOREM HoldingCoversPhase == Spec => WorkingSetCovered
  <1>1. TypeOK /\ Sweep /\ [Next]_vars =>
          [pc = "hold" /\ pc' = "main"
             /\ wcet_ms >= MAX_LAG * Len(alloc_track[curr])
           => \A i \in DOMAIN alloc_track[curr] : <<curr, i>> \in touched]_vars
    <2> SUFFICES ASSUME TypeOK, Sweep, Next, pc = "hold", pc' = "main",
                        wcet_ms >= MAX_LAG * Len(alloc_track[curr])
                 PROVE  \A i \in DOMAIN alloc_track[curr] : <<curr, i>> \in touched
      OBVIOUS
    <2> DEFINE n == Len(alloc_track[curr])
    <2>1. wcet_ms <= run
      <3>1. hold_end
        BY DEF Next, Option, Program, opt_p, opt_e, opt_l, opt_s, opt_M, opt_A,
               opt_V, opt_I, opt_rejected, start, main_next, main_vector_end,
               main_vector_torn, job_skip, job_transition, job_alloc,
               job_alloc_fails, job_hold, hold_turn, tick, ended, Opts, AtMain,
               AtJob, gvars, vars
      <3> QED BY <3>1 DEF hold_end
    <2>2. /\ n \in Nat /\ DOMAIN alloc_track[curr] = 1..n
          /\ next \in Nat /\ run \in Nat /\ wcet_ms \in Int
          /\ MAX_LAG \in Nat \ {0}
      BY GobblerAssumption DEF Sweep, TypeOK, ATypeOK
    <2>3. CASE run <= MAX_LAG * (n - next)
      <3> HIDE DEF n
      <3>1. MAX_LAG * n <= MAX_LAG * (n - next)
        BY <2>1, <2>2, <2>3 DEF n
      <3>2. next = 0
        BY <2>2, <3>1
      <3> QED BY <2>2, <3>2 DEF Sweep, n
    <2> QED BY <2>2, <2>3 DEF Sweep
  <1> QED BY <1>1, SweepsInOrder, ProgramTypeCorrect, PTL DEF Spec, WorkingSetCovered

-----------------------------------------------------------------------------
(* The program implements a sequence of localities. *)

(* What the variables of Locality are for the program *)
StateOfL == IF ~Running THEN "over"
            ELSE IF pc = "hold" THEN "holding"
            ELSE IF in_transition THEN "transition"
            ELSE "idle"
MappedOfL == UNION {SegmentsOf(p) : p \in Phase}

(* The refinement needs that what has been touched since the phase began   *)
(* belongs to it, and that no phase has more mappings than there are       *)
(* segments of it.                                                         *)
InItsPhase ==
    /\ touched \subseteq SegmentsOf(curr)
    /\ \A p \in Phase : Len(alloc_track[p]) <= MAX_ALLOC_PER_SE

(* Each segment mapped is one entry of the tracker. *)
LEMMA SegmentIsEntry ==
    ASSUME ATypeOK, NEW p \in Phase
    PROVE  /\ SegmentsOf(p) = {p} \X (1..Len(alloc_track[p]))
           /\ Len(alloc_track[p]) \in Nat
           /\ \A i : <<p, i>> \in MappedOfL <=> i \in 1..Len(alloc_track[p])
           /\ SegmentsOf(p) \subseteq MappedOfL
  <1>1. \A q \in Phase : /\ DOMAIN alloc_track[q] = 1..Len(alloc_track[q])
                         /\ Len(alloc_track[q]) \in Nat
    BY DEF ATypeOK
  <1>2. \A q \in Phase : SegmentsOf(q) = {q} \X (1..Len(alloc_track[q]))
    BY <1>1 DEF SegmentsOf
  <1>3. \A i : <<p, i>> \in MappedOfL <=> i \in 1..Len(alloc_track[p])
    BY <1>2 DEF MappedOfL
  <1> QED BY <1>1, <1>2, <1>3 DEF MappedOfL

(* Recording a mapping adds one segment, of the current phase. *)
LEMMA SegmentAdded ==
    ASSUME ATypeOK, ATypeOK', curr \in Phase, curr' = curr, NEW e \in Entry, Adds(e)
    PROVE  LET x == <<curr, Len(alloc_track[curr]) + 1>> IN
           /\ Len(alloc_track'[curr]) = Len(alloc_track[curr]) + 1
           /\ \A p \in Phase \ {curr} : alloc_track'[p] = alloc_track[p]
           /\ x \notin MappedOfL
           /\ SegmentsOf(curr)' = SegmentsOf(curr) \cup {x}
           /\ MappedOfL' = MappedOfL \cup {x}
  <1> DEFINE n == Len(alloc_track[curr])
             x == <<curr, n + 1>>
  <1>1. /\ Len(alloc_track'[curr]) = n + 1 /\ n \in Nat
        /\ \A p \in Phase \ {curr} : alloc_track'[p] = alloc_track[p]
    BY DEF Adds, ATypeOK
  <1>2. /\ DOMAIN alloc_track[curr] = 1..n
        /\ DOMAIN alloc_track'[curr] = 1..(n + 1)
    BY <1>1 DEF ATypeOK
  <1> HIDE DEF n
  <1>3. x \notin MappedOfL
    BY <1>1, SegmentIsEntry DEF n
  <1>4. SegmentsOf(curr)' = SegmentsOf(curr) \cup {x}
    <2>1. 1..(n + 1) = (1..n) \cup {n + 1}
      BY <1>1
    <2>2. SegmentsOf(curr)' = {curr} \X (1..(n + 1))
      BY <1>2 DEF SegmentsOf
    <2>3. SegmentsOf(curr) = {curr} \X (1..n)
      BY <1>2 DEF SegmentsOf
    <2> QED BY <2>1, <2>2, <2>3
  <1>5. \A p \in Phase \ {curr} : SegmentsOf(p)' = SegmentsOf(p)
    BY <1>1 DEF SegmentsOf
  <1>6. MappedOfL' = MappedOfL \cup {x}
    BY <1>4, <1>5 DEF MappedOfL
  <1> QED BY <1>1, <1>3, <1>4, <1>6 DEF n

(* A step touches only what the current phase has mapped. *)
LEMMA StepInItsPhase ==
    ASSUME TypeOK, KeepsContract, Sweep, InItsPhase, [Next]_vars
    PROVE  InItsPhase'
  <1> USE DEF options, progress, locals, gvars, settings, pool, tracker, counters,
              trans
  <1>0. ATypeOK /\ ATypeOK'
    BY StepImplements, StepTypeOK DEF TypeOK
  <1>1. CASE UNCHANGED <<touched, tracker>>
    BY <1>1 DEF InItsPhase, SegmentsOf
  <1>2. CASE Option \/ start \/ main_next \/ main_vector_end \/ main_vector_torn
        \/ job_skip \/ job_hold \/ hold_end \/ tick \/ UNCHANGED vars
    BY <1>1, <1>2
    DEF Option, opt_p, opt_e, opt_l, opt_s, opt_M, opt_A, opt_V, opt_I,
        opt_rejected, set_max_limit, set_speed, reset_max_alloc_per_phase,
        set_precise, locality_vector_init, set_file_cnt, start, main_next,
        get_nxt_alloc, main_vector_end, main_vector_torn, job_skip, job_hold,
        trans_end, hold_end, tick, vars, avars
  <1>3. CASE job_transition
    <2>1. CASE trans_refused /\ UNCHANGED touched
      BY <1>1, <2>1 DEF trans_refused
    <2>2. CASE trans_begin /\ touched' = {}
      BY <2>2 DEF trans_begin, InItsPhase
    <2> QED BY <1>3, <2>1, <2>2 DEF job_transition
  <1>4. CASE job_alloc
    <2>1. PICK e \in Entry : Adds(e)
      BY <1>0, <1>4, AddedMapping DEF job_alloc
    <2>2. /\ curr \in Phase /\ curr' = curr
          /\ Len(alloc_track[curr]) < MAX_ALLOC_PER_SE
      BY <1>4 DEF job_alloc, track_added
    <2> DEFINE n == Len(alloc_track[curr]) + 1
               x == <<curr, n>>
    <2>3. /\ Len(alloc_track'[curr]) = n
          /\ \A p \in Phase \ {curr} : alloc_track'[p] = alloc_track[p]
          /\ SegmentsOf(curr)' = SegmentsOf(curr) \cup {x}
      BY <1>0, <2>1, <2>2, SegmentAdded
    <2>4. n <= MAX_ALLOC_PER_SE
      BY <1>0, <2>2, SegmentIsEntry, AllocatorAssumption
    <2> HIDE DEF n
    <2>5. touched' \subseteq touched \cup {x}
      BY <1>4, <2>3 DEF job_alloc
    <2> QED BY <2>2, <2>3, <2>4, <2>5 DEF InItsPhase
  <1>5. CASE job_alloc_fails
    BY <1>1, <1>5 DEF job_alloc_fails, file_refused, open_failed, map_failed,
                      track_overrun, track_full
  <1>6. CASE hold_turn
    <2>1. UNCHANGED tracker /\ pc = "hold"
      BY <1>6 DEF hold_turn, Holding, avars
    <2>2. CASE next > 0
      <3>1. curr \in Phase /\ next \in 1..Len(alloc_track[curr])
        BY <2>1, <2>2 DEF Sweep, TypeOK
      <3>2. <<curr, next>> \in SegmentsOf(curr)
        BY <1>0, <3>1, SegmentIsEntry
      <3>3. touched' = touched \cup {<<curr, next>>}
        BY <1>6, <2>2 DEF hold_turn, touch_next
      <3> QED BY <2>1, <3>2, <3>3 DEF InItsPhase, SegmentsOf
    <2>3. CASE ~(next > 0)
      BY <1>1, <1>6, <2>1, <2>3 DEF hold_turn, touch_next
    <2> QED BY <2>2, <2>3
  <1> QED
    BY <1>2, <1>3, <1>4, <1>5, <1>6 DEF Next, Program, ended

(* Each step of the program is one of the localities, or none of theirs.   *)
LEMMA StepLocality ==
    ASSUME TypeOK, KeepsContract, RoomLeft, JobsCounted, Sweep, InItsPhase,
           [Next]_vars
    PROVE  [L!Next]_L!lvars
  <1> USE DEF options, progress, locals, gvars, settings, pool, tracker, counters,
              trans
  <1> DEFINE Kept == UNCHANGED <<MappedOfL, SegmentsOf(curr), touched>>
  <1>0. ATypeOK /\ ATypeOK'
    BY StepImplements, StepTypeOK DEF TypeOK
  <1>1. UNCHANGED tracker => UNCHANGED <<MappedOfL, SegmentsOf(curr)>>
    BY DEF MappedOfL, SegmentsOf
  <1>2. ASSUME Kept, StateOfL' = StateOfL
        PROVE  UNCHANGED L!lvars
    BY <1>2 DEF L!lvars, StateOfL, MappedOfL
  <1>3. ASSUME Kept, StateOfL # "over", StateOfL' = "over"
        PROVE  L!Next
    BY <1>3 DEF L!Next, L!Stop, StateOfL, MappedOfL
  <1> HIDE DEF Kept
  <1>4. CASE Option \/ start
    <2>1. /\ pc = "opts" /\ Running /\ UNCHANGED <<tracker, touched, in_transition>>
          /\ \/ pc' \in {"opts", "main"} /\ failed' = failed
             \/ pc' = "rejected"
      BY <1>4 DEF Option, opt_p, opt_e, opt_l, opt_s, opt_M, opt_A, opt_V, opt_I,
                  opt_rejected, start, Opts, set_max_limit, set_speed,
                  reset_max_alloc_per_phase, set_precise, locality_vector_init,
                  set_file_cnt, avars
    <2>2. Kept
      BY <1>1, <2>1 DEF Kept
    <2>3. StateOfL # "over" /\ (StateOfL' = StateOfL \/ StateOfL' = "over")
      BY <2>1 DEF StateOfL, Running, Ended
    <2> QED BY <1>2, <1>3, <2>2, <2>3
  <1>5. CASE main_next \/ main_vector_end \/ main_vector_torn \/ job_skip
    <2>1. /\ pc \in {"main", "job"} /\ Running
          /\ UNCHANGED <<tracker, touched, in_transition, failed>>
          /\ pc' \in {"main", "job", "returned", "crashed"}
      BY <1>5 DEF main_next, get_nxt_alloc, reset_max_alloc_per_phase,
                  main_vector_end, main_vector_torn, job_skip, AtMain, AtJob, avars
    <2>2. Kept
      BY <1>1, <2>1 DEF Kept
    <2>3. StateOfL # "over" /\ (StateOfL' = StateOfL \/ StateOfL' = "over")
      BY <2>1 DEF StateOfL, Running, Ended
    <2> QED BY <1>2, <1>3, <2>2, <2>3
  <1>6. CASE job_transition
    <2>1. pc = "job" /\ pc' = pc /\ Running /\ ~in_transition
      BY <1>6 DEF job_transition, AtJob, trans_begin, trans_refused
    <2>2. CASE trans_refused /\ UNCHANGED touched
      <3>1. Kept
        BY <1>1, <2>2 DEF trans_refused, Kept
      <3>2. StateOfL # "over" /\ StateOfL' = "over"
        BY <2>1, <2>2 DEF trans_refused, StateOfL, Running, Ended
      <3> QED BY <1>3, <3>1, <3>2
    <2>3. CASE trans_begin /\ touched' = {}
      <3>1. /\ curr' = curr + 1 /\ alloc_track' = alloc_track /\ in_transition'
            /\ failed' = failed
        BY <2>3 DEF trans_begin, go_to_nxt_phase
      <3>2. SegmentsOf(curr)' = {}
        <4>1. CASE curr' \in Phase
          <5>1. alloc_track'[curr'] = <<>>
            BY <1>0, <3>1, <4>1 DEF RoomLeft, ATypeOK
          <5>2. Len(alloc_track'[curr']) = 0
            BY <5>1
          <5>3. DOMAIN alloc_track'[curr'] = {}
            BY <1>0, <4>1, <5>2 DEF ATypeOK
          <5> QED BY <5>3 DEF SegmentsOf
        <4>2. CASE curr' \notin Phase
          BY <4>2 DEF SegmentsOf
        <4> QED BY <4>1, <4>2
      <3>3. StateOfL = "idle" /\ StateOfL' = "transition"
        BY <2>1, <3>1 DEF StateOfL, Running
      <3>4. MappedOfL' = MappedOfL
        BY <3>1 DEF MappedOfL, SegmentsOf
      <3> QED BY <2>3, <3>2, <3>3, <3>4 DEF L!Next, L!Begin, StateOfL, MappedOfL
    <2> QED BY <1>6, <2>2, <2>3 DEF job_transition
  <1>7. CASE job_alloc
    <2>1. PICK e \in Entry : Adds(e)
      BY <1>0, <1>7, AddedMapping DEF job_alloc
    <2>2. /\ curr \in Phase /\ curr' = curr
          /\ Len(alloc_track[curr]) < MAX_ALLOC_PER_SE
          /\ in_transition /\ UNCHANGED <<in_transition, failed, pc>>
          /\ Running /\ pc = "job"
      BY <1>0, <1>7, DrawType DEF job_alloc, track_added, Mapped, AtJob
    <2> DEFINE n == Len(alloc_track[curr]) + 1
               x == <<curr, n>>
    <2>3. /\ Len(alloc_track'[curr]) = n
          /\ x \notin MappedOfL
          /\ SegmentsOf(curr)' = SegmentsOf(curr) \cup {x}
          /\ MappedOfL' = MappedOfL \cup {x}
      BY <1>0, <2>1, <2>2, SegmentAdded
    <2>4. n \in 1..MAX_ALLOC_PER_SE
      BY <1>0, <2>2, SegmentIsEntry, AllocatorAssumption
    <2> HIDE DEF n
    <2>5. x \in Phase \X (1..MAX_ALLOC_PER_SE)
      BY <2>2, <2>4
    <2>6. touched' \in {touched, touched \cup {x}}
      BY <1>7, <2>3 DEF job_alloc
    <2>7. StateOfL = "transition" /\ StateOfL' = StateOfL
      BY <2>2 DEF StateOfL, Running
    <2> HIDE DEF x
    <2>8. L!Map(x)
      BY <2>3, <2>6, <2>7 DEF L!Map, StateOfL, MappedOfL
    <2> QED BY <2>5, <2>8 DEF L!Next
  <1>8. CASE job_alloc_fails
    <2>1. /\ UNCHANGED <<tracker, touched, in_transition, pc>>
          /\ pc = "job" /\ Running /\ in_transition
      BY <1>0, <1>8, DrawType
      DEF job_alloc_fails, file_refused, open_failed, map_failed, track_overrun,
          track_full, Mapped, AtJob
    <2>2. Kept
      BY <1>1, <2>1 DEF Kept
    <2>3. StateOfL # "over" /\ (StateOfL' = StateOfL \/ StateOfL' = "over")
      BY <2>1 DEF StateOfL, Running
    <2> QED BY <1>2, <1>3, <2>2, <2>3
  <1>9. CASE job_hold
    <2>1. /\ UNCHANGED <<tracker, touched, failed>>
          /\ pc = "job" /\ Running /\ in_transition
          /\ pc' \in {"hold", "crashed"}
      BY <1>9 DEF job_hold, AtJob, trans_end
    <2>2. Kept
      BY <1>1, <2>1 DEF Kept
    <2>3. CASE pc' = "hold"
      <3>1. StateOfL = "transition" /\ StateOfL' = "holding"
        BY <2>1, <2>3 DEF StateOfL, Running, Ended
      <3> QED BY <2>2, <3>1 DEF L!Next, L!Hold, StateOfL, MappedOfL, Kept
    <2>4. CASE pc' = "crashed"
      <3>1. StateOfL # "over" /\ StateOfL' = "over"
        BY <2>1, <2>4 DEF StateOfL, Running, Ended
      <3> QED BY <1>3, <2>2, <3>1
    <2> QED BY <2>1, <2>3, <2>4
  <1>10. CASE hold_turn
    <2>1. /\ UNCHANGED <<tracker, failed, pc, in_transition>>
          /\ pc = "hold" /\ Running
      BY <1>10 DEF hold_turn, Holding, avars
    <2>2. StateOfL = "holding" /\ StateOfL' = StateOfL
      BY <2>1 DEF StateOfL, Running
    <2>3. CASE next > 0
      <3> DEFINE x == <<curr, next>>
      <3>1. curr \in Phase /\ next \in 1..Len(alloc_track[curr])
        BY <2>1, <2>3 DEF Sweep, TypeOK
      <3>2. x \in SegmentsOf(curr)
        BY <1>0, <3>1, SegmentIsEntry
      <3>3. x \in Phase \X (1..MAX_ALLOC_PER_SE)
        <4>1. next \in 1..MAX_ALLOC_PER_SE
          BY <1>0, <3>1, SegmentIsEntry, AllocatorAssumption DEF InItsPhase
        <4> QED BY <3>1, <4>1
      <3>4. touched' = touched \cup {x}
        BY <1>10, <2>3 DEF hold_turn, touch_next
      <3> HIDE DEF x
      <3>5. L!Reference(x)
        BY <1>1, <2>1, <2>2, <3>2, <3>4 DEF L!Reference, StateOfL, MappedOfL
      <3> QED BY <3>3, <3>5 DEF L!Next
    <2>4. CASE ~(next > 0)
      <3>1. Kept
        BY <1>1, <1>10, <2>1, <2>4 DEF hold_turn, touch_next, Kept
      <3> QED BY <1>2, <2>2, <3>1
    <2> QED BY <2>3, <2>4
  <1>11. CASE hold_end
    <2>1. /\ UNCHANGED <<tracker, failed, touched, in_transition>>
          /\ pc = "hold" /\ Running /\ pc' = "main"
      BY <1>11 DEF hold_end, Holding, avars
    <2>2. ~in_transition
      BY <2>1 DEF JobsCounted
    <2>3. StateOfL = "holding" /\ StateOfL' = "idle"
      BY <2>1, <2>2 DEF StateOfL, Running, Ended
    <2>4. Kept
      BY <1>1, <2>1 DEF Kept
    <2> QED BY <2>3, <2>4 DEF L!Next, L!End, StateOfL, MappedOfL, Kept
  <1>12. CASE tick \/ UNCHANGED vars
    <2>1. UNCHANGED <<tracker, failed, touched, in_transition, pc>>
      BY <1>12 DEF tick, vars, avars
    <2>2. Kept /\ StateOfL' = StateOfL
      BY <1>1, <2>1 DEF Kept, StateOfL, Running
    <2> QED BY <1>2, <2>2
  <1> QED
    BY <1>4, <1>5, <1>6, <1>7, <1>8, <1>9, <1>10, <1>11, <1>12
    DEF Next, Program, ended

(* Whatever the options, the clocks and the failures, the program is a     *)
(* sequence of localities: a transition maps segments that no phase had, a *)
(* holding time references those of its own phase only, and a locality     *)
(* begins with an empty working set.                                       *)
THEOREM ProgramImplementsLocality == Spec => ImplementsLocality
  <1>1. Init => InItsPhase
    BY AllocatorAssumption DEF Init, AInit, InItsPhase
  <1>2. TypeOK /\ KeepsContract /\ Sweep /\ InItsPhase /\ [Next]_vars => InItsPhase'
    BY StepInItsPhase
  <1>3. Init => L!Init
    <2> SUFFICES ASSUME Init PROVE L!Init
      OBVIOUS
    <2>1. \A p \in Phase : SegmentsOf(p) = {}
      BY DEF Init, AInit, SegmentsOf
    <2>2. SegmentsOf(curr) = {}
      BY DEF Init, AInit, SegmentsOf, Phase
    <2>3. Running /\ pc = "opts" /\ ~in_transition /\ touched = {}
      BY DEF Init, AInit, Running, Ended
    <2> QED BY <2>1, <2>2, <2>3 DEF L!Init
  <1>4. TypeOK /\ KeepsContract /\ RoomLeft /\ JobsCounted /\ Sweep /\ InItsPhase
          /\ [Next]_vars => [L!Next]_L!lvars
    BY StepLocality
  <1> QED BY <1>1, <1>2, <1>3, <1>4, ProgramTypeCorrect, ContractIsKept,
             ProgramRoomLeft, JobsAreCounted, SweepsInOrder, PTL
          DEF Spec, ImplementsLocality, L!Spec

=============================================================================
