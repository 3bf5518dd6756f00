------------------------ MODULE PreciseAllocerProofs ------------------------
(***************************************************************************)
(* Theorems about the refactored program, for every drive, every trace,    *)
(* every room of the tracker and every kernel: it goes on only with the    *)
(* lengths asked for, replays its trace line by line, uses a path once,    *)
(* keeps its ratio of types, and is a sequence of localities.              *)
(***************************************************************************)
EXTENDS PreciseAllocer, ArithmeticLemmas

(* A phase is held or about to be only if it has room in alloc_track, and  *)
(* the first one is not begun before the options are read.                 *)
CurrOK ==
    /\ pc \in {"mapped", "hold"} => curr \in Phase
    /\ pc = "alloc" => curr >= 0
    /\ pc = "opts" => curr = -1 /\ vpos = 0 /\ reset = "no"

(* Past the derivation neither length is 0; past the check the kernel has  *)
(* both.                                                                   *)
LengthsAreSet ==
    /\ reset \in {"derived", "opened", "written", "set"} =>
          stma_f # 0 /\ ltma_f # 0
    /\ reset = "set" => pd_len = <<stma_f, ltma_f>>

(* The trace is one line ahead of the phases while a job begins, and in    *)
(* step with them else; the line read last gave the cap and the time.      *)
InStep ==
    vector # NULL =>
        /\ vpos <= Len(vector)
        /\ curr + 1 <= vpos
        /\ Running => vpos = curr + (IF pc = "job" THEN 2 ELSE 1)
        /\ pc \in {"job", "alloc", "mapped", "hold"} =>
              /\ wcet_ms = vector[vpos].wcet
              /\ max_alloc_per_phase_byte =
                    (IF ipfvt THEN 1 ELSE vector[vpos].count) % PAGE_WRAP

(* A phase has one mapping once its transition is over, and none before.   *)
OnePerPhase ==
    /\ \A p \in Phase : Len(alloc_track[p]) <= 1 /\ (p > curr => alloc_track[p] = <<>>)
    /\ pc = "alloc" /\ curr \in Phase => alloc_track[curr] = <<>>
    /\ pc \in {"mapped", "hold"} =>
          /\ Len(alloc_track[curr]) = 1
          /\ max_alloc_per_phase_byte # 0 =>
                alloc_track[curr][1].len <= max_alloc_per_phase_byte

(* The flagged paths are those recorded, each of them under one phase.     *)
Recorded(track, p, n) == Len(track[p]) > 0 /\ track[p][1].addr = n
FlaggedIsRecorded ==
    \A n \in Node :
        /\ n \in taken <=> \E p \in Phase : Recorded(alloc_track, p, n)
        /\ \A p, q \in Phase :
              Recorded(alloc_track, p, n) /\ Recorded(alloc_track, q, n) => p = q

(* As long as nothing fails, the counter of randomize_alloc_type is the    *)
(* number of localities mapped.                                            *)
Placed(track, t) == {p \in Phase : Len(track[p]) > 0 /\ track[p][1].type = t}
TypesCounted ==
    Running => type_cnt = Cardinality(Placed(alloc_track, "file"))
                            + Cardinality(Placed(alloc_track, "anon"))

(* pattern_fix keeps addresses of phases that have begun, and that of a    *)
(* new phase only once it is held.                                         *)
FixedBefore ==
    \A i \in DOMAIN fix_head :
        /\ fix_head[i] <= curr
        /\ pc \in {"alloc", "mapped"} => fix_head[i] < curr

-----------------------------------------------------------------------------
(* Types *)

(* The lengths written are those asked for, or derived from them. *)
LEMMA ResetLengths ==
    ASSUME LTypeOK
    PROVE  /\ stma_f \in Nat /\ ltma_f \in Nat
           /\ stma # 0 => stma_f = stma
           /\ ltma # 0 => ltma_f = ltma
           /\ stma = 0 => stma_f <= ltma
  <1>1. stma \in Nat /\ ltma \in Nat
    BY LengthAssumption DEF LTypeOK
  <1>2. U64 \in Nat \ {0}
    BY LengthAssumption
  <1>3. stma * 2 \in Int
    BY <1>1
  <1>4. (stma * 2) % U64 \in Nat
    BY <1>2, <1>3, QuotientAndRest
  <1>5. ltma \div 2 \in Nat /\ ltma \div 2 <= ltma
    BY <1>1
  <1> QED BY <1>1, <1>4, <1>5 DEF stma_f, ltma_f

(* The reset changes no option, and ends with both lengths or not at all.  *)
LEMMA StepReset ==
    ASSUME LTypeOK, LengthsAreSet, ResetStep \/ UNCHANGED lengths
    PROVE  LTypeOK' /\ LengthsAreSet'
  <1>1. stma' = stma /\ ltma' = ltma
    BY DEF ResetStep, reset_derive, reset_read_old, reset_write, reset_verify,
           Progress, lengths
  <1>2. stma_f' = stma_f /\ ltma_f' = ltma_f /\ stma_f \in Nat /\ ltma_f \in Nat
    BY <1>1, ResetLengths DEF stma_f, ltma_f
  <1>3. pd_len' \in Nat \X Nat
    BY <1>2, LengthAssumption
    DEF ResetStep, reset_derive, reset_read_old, reset_write, reset_verify,
        LTypeOK, lengths
  <1>4. LTypeOK'
    BY <1>1, <1>3 DEF ResetStep, reset_derive, reset_read_old, reset_write,
                      reset_verify, Progress, LTypeOK, ResetStates, lengths
  <1>5. LengthsAreSet'
    <2>1. CASE reset_derive \/ reset_read_old \/ reset_write \/ UNCHANGED lengths
      BY <1>1, <1>2, <2>1 DEF reset_derive, reset_read_old, reset_write, Progress,
                              LengthsAreSet, lengths
    <2>2. CASE reset_verify
      <3>1. reset = "written" /\ pd_len' = pd_len /\ stma_f # 0 /\ ltma_f # 0
        BY <2>2 DEF reset_verify, Progress, LengthsAreSet
      <3>2. PICK data \in {pd_len, <<0, 0>>} :
               reset' = "set" => AsAsked(data)
        BY <2>2 DEF reset_verify, Progress
      <3>3. reset' = "set" => data = pd_len
        BY <3>1, <3>2 DEF AsAsked
      <3>4. reset' = "set" => pd_len = <<stma_f, ltma_f>>
        BY <3>2, <3>3 DEF AsAsked, LTypeOK
      <3> QED BY <1>2, <3>1, <3>4 DEF LengthsAreSet
    <2> QED BY <2>1, <2>2 DEF ResetStep
  <1> QED BY <1>4, <1>5

(* A path that is found is one of the drive, and not in use. *)
LEMMA PathIsFree ==
    ASSUME NEW n \in Paths
    PROVE  IF randomize_alloc_type = "file" THEN n \in Node \ taken ELSE n = NULL
  BY DEF Paths, get_file_path, Fits

(* What a locality that is recorded adds to the tracker *)
Adds(e) ==
    /\ curr \in Phase
    /\ alloc_track' = [alloc_track EXCEPT ![curr] = Append(@, e)]
    /\ e.type = randomize_alloc_type
    /\ IF e.type = "file" THEN e.addr \in Node \ taken /\ taken' = taken \cup {e.addr}
                          ELSE e.addr = NULL /\ taken' = taken
    /\ max_alloc_per_phase_byte # 0 => e.len <= max_alloc_per_phase_byte
    /\ file_cnt' = file_cnt + (IF e.type = "file" THEN e.len ELSE 0)
    /\ anon_cnt' = anon_cnt + (IF e.type = "anon" THEN e.len ELSE 0)

(* A mapping that is made is recorded, or the program crashes past the     *)
(* last phase.                                                             *)
LEMMA AddedLocality ==
    ASSUME TypeOK, alloc_added
    PROVE  \/ pc' = "mapped" /\ \E e \in Entry : Adds(e)
           \/ /\ pc' = "crashed"
              /\ UNCHANGED <<alloc_track, file_cnt, anon_cnt, taken>>
  <1> DEFINE t == randomize_alloc_type
  <1>1. t \in MemType /\ Paths \subseteq Node \cup {NULL}
    BY PathIsFree DEF randomize_alloc_type, MemType
  <1>2. CASE curr \in Phase
    <2> DEFINE len(n) == Capped(IF t = "file" THEN Size[n[1]] ELSE Size[0])
               e(n) == [addr |-> n, len |-> len(n), type |-> t]
    <2>1. PICK n \in Paths :
             /\ pc' = "mapped"
             /\ alloc_track' = [alloc_track EXCEPT ![curr] = Append(@, e(n))]
             /\ file_cnt' = file_cnt + (IF t = "file" THEN len(n) ELSE 0)
             /\ anon_cnt' = anon_cnt + (IF t = "anon" THEN len(n) ELSE 0)
             /\ taken' = IF t = "file" THEN taken \cup {n} ELSE taken
      BY <1>2 DEF alloc_added
    <2>2. (IF t = "file" THEN Size[n[1]] ELSE Size[0]) \in Nat \ {0}
      <3>1. 0 \in Class
        BY FileListAssumption DEF Class
      <3>2. t = "file" => n[1] \in Class
        BY PathIsFree DEF Node
      <3> QED BY <3>1, <3>2, FileListAssumption
    <2>3. /\ len(n) \in Nat \ {0}
          /\ max_alloc_per_phase_byte # 0 => len(n) <= max_alloc_per_phase_byte
      BY <2>2 DEF Capped, TypeOK
    <2> HIDE DEF len
    <2>4. e(n) \in Entry
      BY <1>1, <2>1, <2>3 DEF Entry
    <2>5. Adds(e(n))
      BY <1>1, <1>2, <2>1, <2>3, PathIsFree DEF Adds, MemType
    <2> QED BY <2>1, <2>4, <2>5
  <1>3. CASE curr \notin Phase
    BY <1>3 DEF alloc_added
  <1> QED BY <1>2, <1>3

(* What a locality leaves behind in the tracker *)
LEMMA TrackAfter ==
    ASSUME TypeOK, NEW e \in Entry, Adds(e)
    PROVE  /\ alloc_track' \in [Phase -> Seq(Entry)]
           /\ \A p \in Phase \ {curr} : alloc_track'[p] = alloc_track[p]
           /\ alloc_track[curr] = <<>> => alloc_track'[curr] = <<e>>
           /\ taken' \in SUBSET Node
           /\ file_cnt' \in Nat /\ anon_cnt' \in Nat
  <1>1. /\ alloc_track'[curr] = Append(alloc_track[curr], e)
        /\ \A p \in Phase \ {curr} : alloc_track'[p] = alloc_track[p]
    BY DEF Adds, TypeOK
  <1>2. Append(alloc_track[curr], e) \in Seq(Entry)
    BY DEF TypeOK, Adds
  <1>3. alloc_track' \in [Phase -> Seq(Entry)]
    BY <1>2 DEF Adds, TypeOK
  <1>4. e.len \in Nat /\ taken' \in SUBSET Node
    BY DEF Entry, Adds, TypeOK
  <1>5. file_cnt' \in Nat /\ anon_cnt' \in Nat
    BY <1>4 DEF Adds, TypeOK
  <1>6. alloc_track[curr] = <<>> => alloc_track'[curr] = <<e>>
    BY <1>1
  <1> QED BY <1>1, <1>3, <1>4, <1>5, <1>6

(* The steps that leave the tracker alone *)
Quiet ==
    \/ \E v \in Vectors : opt_V(v)
    \/ opt_I \/ opt_lengths \/ opt_rejected
    \/ start \/ init_reset \/ init_end
    \/ main_job \/ main_vector_end
    \/ stabilise_begin \/ touch_once_curr \/ stabilise_end \/ job_returns
    \/ tick \/ ended \/ UNCHANGED vars

(* They do so. *)
LEMMA QuietKeepsTracker ==
    ASSUME Quiet
    PROVE  UNCHANGED tracker
  BY DEF Quiet, opt_V, opt_I, opt_lengths, opt_rejected, start, init_reset, init_end,
         main_job, main_vector_end, stabilise_begin, touch_once_curr, stabilise_end,
         job_returns, tick, ended, Frame, NotHolding, vars

(* The other steps begin a phase or map. *)
LEMMA StepIsQuiet ==
    ASSUME [Next]_vars
    PROVE  Quiet \/ go_to_nxt_phase \/ alloc_failed \/ alloc_added
  BY DEF Next, Program, Quiet

(* The lengths change in the options and in the reset only. *)
LEMMA StepLengths ==
    ASSUME LTypeOK, LengthsAreSet, CurrOK, [Next]_vars
    PROVE  /\ LTypeOK' /\ LengthsAreSet'
           /\ reset' = "no" \/ pc # "opts"
  <1>1. CASE opt_lengths
    <2>1. PICK v \in LengthArgs : opt_S(v) \/ opt_L(v)
      BY <1>1 DEF opt_lengths
    <2>2. v \in 0..(U64 - 1)
      BY LengthAssumption
    <2>3. reset = "no" /\ reset' = "no"
      BY <1>1, <2>1 DEF opt_lengths, opt_S, opt_L, CurrOK
    <2> QED BY <2>1, <2>2, <2>3 DEF opt_S, opt_L, LTypeOK, LengthsAreSet
  <1>2. CASE init_reset
    BY <1>2, StepReset DEF init_reset
  <1>3. CASE ~opt_lengths /\ ~init_reset
    <2>1. UNCHANGED lengths
      BY <1>3
      DEF Next, Program, opt_V, opt_I, opt_rejected, start, init_end, main_job,
          main_vector_end, go_to_nxt_phase, Unchanged, alloc_failed, alloc_added,
          stabilise_begin, touch_once_curr, stabilise_end, job_returns, tick, ended,
          NotHolding, vars
    <2>2. reset' = "no" \/ pc # "opts"
      BY <2>1 DEF CurrOK, lengths
    <2> QED BY <2>1, <2>2, StepReset
  <1> QED BY <1>1, <1>2, <1>3

(* A step keeps a held phase inside the tracker. *)
LEMMA StepCurrOK ==
    ASSUME TypeOK, CurrOK, LengthsAreSet, [Next]_vars
    PROVE  CurrOK'
  <1> USE DEF settings, tracker, holding, options, descrs
  <1>0. pc' = "opts" => reset' = "no"
    BY StepLengths
    DEF TypeOK, Next, Program, opt_V, opt_I, opt_lengths, opt_rejected, start,
        init_reset, init_end, main_job, main_vector_end, go_to_nxt_phase,
        alloc_failed, alloc_added, stabilise_begin, touch_once_curr, stabilise_end,
        job_returns, tick, ended, vars, Ended, Running, CurrOK, lengths
  <1>1. CASE Quiet
    <2>1. UNCHANGED tracker
      BY <1>1, QuietKeepsTracker
    <2>2. /\ pc' \in {"mapped", "hold"} => pc \in {"mapped", "hold"}
          /\ pc' = "alloc" => pc = "alloc"
          /\ pc' = "opts" => pc = "opts" /\ vpos' = vpos
      BY <1>1 DEF Quiet, opt_V, opt_I, opt_lengths, opt_rejected, start, init_reset,
                  init_end, main_job, main_vector_end, stabilise_begin,
                  touch_once_curr, stabilise_end, job_returns, tick, ended, Frame,
                  NotHolding, vars, Ended
    <2> QED BY <1>0, <2>1, <2>2 DEF CurrOK
  <1>2. CASE go_to_nxt_phase
    BY <1>2 DEF go_to_nxt_phase, CurrOK, TypeOK
  <1>3. CASE alloc_failed
    BY <1>3 DEF alloc_failed, CurrOK
  <1>4. CASE alloc_added
    BY <1>4 DEF alloc_added, CurrOK
  <1> QED BY <1>1, <1>2, <1>3, <1>4, StepIsQuiet

(* A step keeps the types. *)
LEMMA StepTypeOK ==
    ASSUME TypeOK, CurrOK, LengthsAreSet, [Next]_vars
    PROVE  TypeOK'
  <1> USE DEF settings, tracker, holding, options, descrs
  <1>0. LTypeOK'
    BY StepLengths DEF TypeOK
  <1>1. CASE Quiet /\ ~main_job /\ ~touch_once_curr
    <2>1. UNCHANGED tracker
      BY <1>1, QuietKeepsTracker
    <2>2. pc' \in {pc, "init", "exited", "crashed", "main", "returned", "hold", "held"}
      BY <1>1
      DEF Quiet, opt_V, opt_I, opt_lengths, opt_rejected, start, init_reset,
          init_end, main_vector_end, stabilise_begin, stabilise_end, job_returns,
          tick, ended, Frame, NotHolding, vars
    <2>3. vector' \in Vectors \cup {NULL} /\ ipfvt' \in BOOLEAN
      <3>1. vector' = vector \/ vector' \in Vectors
        BY <1>1
        DEF Quiet, opt_V, opt_I, opt_lengths, opt_rejected, start, init_reset,
            init_end, main_vector_end, stabilise_begin, stabilise_end, job_returns,
            tick, ended, Frame, NotHolding, vars
      <3>2. ipfvt' = ipfvt \/ ipfvt' = TRUE
        BY <1>1
        DEF Quiet, opt_V, opt_I, opt_lengths, opt_rejected, start, init_reset,
            init_end, main_vector_end, stabilise_begin, stabilise_end, job_returns,
            tick, ended, Frame, NotHolding, vars
      <3> QED BY <3>1, <3>2 DEF TypeOK
    <2>4. UNCHANGED <<settings, fix_head>>
      BY <1>1
      DEF Quiet, opt_V, opt_I, opt_lengths, opt_rejected, start, init_reset,
          init_end, main_vector_end, stabilise_begin, stabilise_end, job_returns,
          tick, ended, Frame, NotHolding, vars
    <2>5. /\ rlimit' = rlimit \/ rlimit' = FILE_MAX
          /\ fds' = fds \/ fds' = fds + 1
          /\ elapsed' \in {elapsed, 0, elapsed + 1}
      BY <1>1
      DEF Quiet, opt_V, opt_I, opt_lengths, opt_rejected, start, init_reset,
          init_end, main_vector_end, stabilise_begin, stabilise_end, job_returns,
          tick, ended, Frame, NotHolding, vars
    <2>6. rlimit' \in Nat /\ fds' \in Nat /\ elapsed' \in Nat
      BY <2>5, PreciseAssumption DEF TypeOK
    <2> QED BY <1>0, <2>1, <2>2, <2>3, <2>4, <2>6 DEF TypeOK, Ended
  <1>2. CASE main_job
    <2>1. wcet_ms' \in Int /\ vpos' \in Nat /\ max_alloc_per_phase_byte' \in Nat
      <3>1. CASE vector = NULL
        BY <1>2, <3>1 DEF main_job, LineLeft, TypeOK
      <3>2. CASE vector # NULL
        <4>1. /\ LineLeft
              /\ wcet_ms' = vector[vpos + 1].wcet
              /\ max_alloc_per_phase_byte' =
                    (IF ipfvt THEN 1 ELSE vector[vpos + 1].count) % PAGE_WRAP
              /\ vpos' = vpos + 1
          BY <1>2, <3>2 DEF main_job
        <4>2. vector \in Seq(Line) /\ vpos + 1 \in 1..Len(vector)
          BY <3>2, <4>1, PreciseAssumption DEF LineLeft, TypeOK
        <4>3. vector[vpos + 1] \in Line
          BY <4>2
        <4>4. (IF ipfvt THEN 1 ELSE vector[vpos + 1].count) \in Nat
          BY <4>3 DEF Line
        <4>5. \A c \in Nat : c % PAGE_WRAP \in Nat
          BY QuotientAndRest, PreciseAssumption
        <4>6. max_alloc_per_phase_byte' \in Nat
          BY <4>1, <4>4, <4>5
        <4> QED BY <4>1, <4>3, <4>6 DEF Line, TypeOK
      <3> QED BY <3>1, <3>2
    <2> QED BY <1>0, <1>2, <2>1 DEF main_job, TypeOK
  <1>3. CASE touch_once_curr
    <2>1. fix_head' \in Seq(Phase)
      <3>1. curr \in Phase
        BY <1>3 DEF touch_once_curr, CurrOK
      <3>2. <<curr>> \o fix_head \in Seq(Phase)
        BY <3>1 DEF TypeOK
      <3> QED BY <1>3, <3>2 DEF touch_once_curr, TypeOK
    <2> QED BY <1>0, <1>3, <2>1 DEF touch_once_curr, NotHolding, TypeOK, Ended
  <1>4. CASE go_to_nxt_phase
    <2>1. curr' \in -1..MAX_ALLOC
      BY <1>4, PreciseAssumption DEF go_to_nxt_phase, TypeOK
    <2> QED BY <1>0, <1>4, <2>1 DEF go_to_nxt_phase, Unchanged, TypeOK, Ended
  <1>5. CASE alloc_failed \/ alloc_added
    <2>1. /\ UNCHANGED <<curr, options, settings, rlimit, holding>>
          /\ pc' \in {"exited", "mapped", "crashed"}
      BY <1>5 DEF alloc_failed, alloc_added, Unchanged
    <2>3. Draw /\ (fds' = fds \/ fds' = fds + 1)
      BY <1>5 DEF alloc_failed, alloc_added, Opens
    <2>4. filled' \in SUBSET Class
      BY <2>3 DEF Draw, ScannedFull, TypeOK
    <2>5. type_cnt' \in Nat /\ fds' \in Nat
      BY <2>3 DEF Draw, TypeOK
    <2>2. /\ taken' \in SUBSET Node /\ alloc_track' \in [Phase -> Seq(Entry)]
          /\ file_cnt' \in Nat /\ anon_cnt' \in Nat
      <3>1. CASE alloc_failed
        BY <3>1 DEF alloc_failed, TypeOK
      <3>2. CASE alloc_added
        BY <3>2, AddedLocality, TrackAfter DEF TypeOK
      <3> QED BY <1>5, <3>1, <3>2
    <2> QED BY <1>0, <2>1, <2>2, <2>4, <2>5 DEF TypeOK, Ended
  <1> QED BY <1>1, <1>2, <1>3, <1>4, <1>5, StepIsQuiet

Typed == TypeOK /\ CurrOK /\ LengthsAreSet

(* The three parts keep each other. *)
LEMMA StepTyped ==
    ASSUME Typed, [Next]_vars
    PROVE  Typed'
  BY StepTypeOK, StepCurrOK, StepLengths DEF Typed, TypeOK

(* So they always hold. *)
LEMMA AlwaysTyped == Spec => []Typed
  <1>1. Init => Typed
    <2> SUFFICES ASSUME Init PROVE Typed
      OBVIOUS
    <2>1. LTypeOK /\ LengthsAreSet
      BY LengthAssumption DEF Init, LInit, LTypeOK, LengthsAreSet, ResetStates
    <2>2. alloc_track \in [Phase -> Seq(Entry)] /\ curr \in -1..MAX_ALLOC
      BY PreciseAssumption DEF Init
    <2>3. /\ pc = "opts" /\ vector = NULL /\ vpos = 0 /\ ipfvt = FALSE
          /\ wcet_ms \in Int /\ max_alloc_per_phase_byte = 0
          /\ rlimit \in Nat /\ fds = 3 /\ taken = {} /\ filled = {}
          /\ file_cnt = 0 /\ anon_cnt = 0 /\ type_cnt = 0
          /\ fix_head = <<>> /\ elapsed = 0 /\ curr = -1 /\ reset = "no"
      BY PreciseAssumption DEF Init, LInit
    <2>4. TypeOK
      <3>1. fix_head \in Seq(Phase)
        BY <2>3
      <3>4. ipfvt \in BOOLEAN
        BY <2>3
      <3>2. taken \in SUBSET Node /\ filled \in SUBSET Class
        BY <2>3
      <3>3. vector \in Vectors \cup {NULL}
        BY <2>3
      <3> QED BY <2>1, <2>2, <2>3, <3>1, <3>2, <3>3, <3>4 DEF TypeOK
    <2>5. CurrOK
      BY <2>3 DEF CurrOK
    <2> QED BY <2>1, <2>4, <2>5 DEF Typed
  <1>2. Typed /\ [Next]_vars => Typed'
    BY StepTyped
  <1> QED BY <1>1, <1>2, PTL DEF Spec

(* Whatever the trace, the drive, the kernel and the failures, no variable *)
(* of the refactored program leaves its type: the phase index stays within *)
(* one of the room of the tracker, and no length recorded is 0.            *)
THEOREM PreciseTypeCorrect == Spec => []TypeOK
  BY AlwaysTyped, PTL DEF Typed

(* A write to the kernel that is lost, cut short or not read back is found *)
(* out: the program goes on only with the lengths that were asked for.     *)
THEOREM ResetIsVerified == Spec => []KernelAsAsked
  <1>1. Typed => KernelAsAsked
    <2> SUFFICES ASSUME Typed, reset = "set"
                 PROVE  /\ stma # 0 => pd_len[1] = stma
                        /\ ltma # 0 => pd_len[2] = ltma
                        /\ pd_len[1] > 0 /\ pd_len[2] > 0
                        /\ stma = 0 => pd_len[1] <= pd_len[2]
      BY DEF KernelAsAsked
    <2>1. pd_len[1] = stma_f /\ pd_len[2] = ltma_f /\ stma_f # 0 /\ ltma_f # 0
      BY DEF Typed, LengthsAreSet
    <2>2. ltma = 0 => ltma_f = (stma * 2) % U64
      BY DEF ltma_f
    <2>3. stma = 0 => ltma # 0
      <3> SUFFICES ASSUME stma = 0, ltma = 0 PROVE FALSE
        OBVIOUS
      <3>1. stma_f = 0
        BY DEF stma_f
      <3> QED BY <2>1, <3>1
    <2> QED BY <2>1, <2>3, ResetLengths DEF Typed, TypeOK
  <1> QED BY <1>1, AlwaysTyped, PTL

-----------------------------------------------------------------------------
(* The trace *)

(* Between a line and its locality nothing changes the trace or what the   *)
(* line gave.                                                              *)
LEMMA QuietKeepsLine ==
    ASSUME CurrOK, Quiet, pc # "opts", ~main_job
    PROVE  /\ UNCHANGED <<vector, ipfvt, settings, curr, alloc_track>>
           /\ pc' \in {"mapped", "hold"} => pc \in {"mapped", "hold"}
           /\ pc' \in {"job", "alloc"} => pc' = pc
           /\ Running' => Running /\ (pc = "job" => pc' = "job")
           /\ pc' # "opts"
  <1> USE DEF settings, tracker, options, holding
  <1>1. /\ UNCHANGED <<vector, ipfvt, settings>>
        /\ pc' \in {"mapped", "hold"} => pc \in {"mapped", "hold"}
        /\ pc' \in {"job", "alloc"} => pc' = pc
        /\ Running' => Running /\ (pc = "job" => pc' = "job")
        /\ pc' # "opts"
    BY DEF Quiet, opt_V, opt_I, opt_lengths, opt_rejected, start, init_reset, init_end,
           main_vector_end, stabilise_begin, touch_once_curr, stabilise_end,
           job_returns, tick, ended, Frame, NotHolding, vars, Running, Ended
  <1> QED BY <1>1, QuietKeepsTracker

(* The options are read before the first line. *)
LEMMA OptionsBeforeLines ==
    ASSUME CurrOK, Quiet, pc = "opts"
    PROVE  /\ curr' = -1 /\ vpos' = 0 /\ pc' \in {"opts", "init", "exited"}
           /\ UNCHANGED alloc_track
           /\ vector' = vector \/ vector' \in Vectors
  <1>1. /\ vpos' = vpos /\ pc' \in {"opts", "init", "exited"}
        /\ vector' = vector \/ vector' \in Vectors
    BY DEF Quiet, opt_V, opt_I, opt_lengths, opt_rejected, start, init_reset, init_end,
           main_job, main_vector_end, stabilise_begin, touch_once_curr, stabilise_end,
           job_returns, tick, ended, Frame, vars, settings, Running, Ended
  <1> QED BY <1>1, QuietKeepsTracker DEF tracker, CurrOK

(* A line is read for each phase that begins. *)
LEMMA StepInStep ==
    ASSUME Typed, InStep, [Next]_vars
    PROVE  InStep'
  <1> SUFFICES ASSUME vector' # NULL PROVE InStep'
    BY DEF InStep
  <1> USE DEF settings, options
  <1>0. CurrOK /\ vpos \in Nat /\ curr \in Int
    BY PreciseAssumption DEF Typed, TypeOK
  <1>1. CASE Quiet /\ pc = "opts"
    <2>1. /\ curr' = -1 /\ vpos' = 0 /\ pc' \in {"opts", "init", "exited"}
          /\ vector' = vector \/ vector' \in Vectors
      BY <1>0, <1>1, OptionsBeforeLines
    <2>2. vector' \in Seq(Line)
      BY <2>1, PreciseAssumption DEF Typed, TypeOK
    <2>3. vpos' <= Len(vector')
      BY <2>1, <2>2
    <2> QED BY <2>1, <2>3 DEF InStep
  <1>2. CASE Quiet /\ pc # "opts" /\ ~main_job
    BY <1>0, <1>2, QuietKeepsLine DEF InStep
  <1>3. CASE main_job
    <2>1. /\ pc = "main" /\ pc' = "job" /\ UNCHANGED <<vector, ipfvt, curr>>
          /\ Running
      BY <1>3 DEF main_job, tracker, Running, Ended
    <2>2. /\ LineLeft
          /\ wcet_ms' = vector[vpos + 1].wcet
          /\ max_alloc_per_phase_byte' =
                (IF ipfvt THEN 1 ELSE vector[vpos + 1].count) % PAGE_WRAP
          /\ vpos' = vpos + 1
      BY <1>3, <2>1 DEF main_job
    <2>3. vector \in Seq(Line)
      BY <2>1, PreciseAssumption DEF Typed, TypeOK
    <2>4. vpos' <= Len(vector')
      BY <1>0, <2>1, <2>2, <2>3 DEF LineLeft
    <2>5. vpos = curr + 1
      BY <2>1 DEF InStep
    <2>6. vpos' = curr' + 2 /\ curr' + 1 <= vpos'
      BY <1>0, <2>1, <2>2, <2>5
    <2> QED BY <2>1, <2>2, <2>4, <2>6 DEF InStep
  <1>4. CASE go_to_nxt_phase
    <2>1. /\ UNCHANGED <<vector, ipfvt, settings>> /\ pc = "job" /\ Running
          /\ \/ pc' = "exited" /\ curr' = curr
             \/ pc' = "alloc" /\ curr' = curr + 1
      BY <1>4 DEF go_to_nxt_phase, Unchanged, Running, Ended
    <2> QED BY <1>0, <2>1 DEF InStep, Running, Ended
  <1>5. CASE alloc_failed \/ alloc_added
    <2>1. /\ UNCHANGED <<vector, ipfvt, settings, curr>> /\ pc = "alloc" /\ Running
          /\ pc' \in {"exited", "mapped", "crashed"}
      BY <1>5 DEF alloc_failed, alloc_added, Draw, Unchanged, Running, Ended
    <2> QED BY <1>0, <2>1 DEF InStep, Running, Ended
  <1> QED BY <1>1, <1>2, <1>3, <1>4, <1>5, StepIsQuiet

(* So trace and phases are always in step. *)
LEMMA AlwaysInStep == Spec => []InStep
  <1>1. Init => InStep
    BY DEF Init, InStep
  <1>2. Typed /\ InStep /\ [Next]_vars => InStep'
    BY StepInStep
  <1> QED BY <1>1, <1>2, AlwaysTyped, PTL DEF Spec

(* A mapping is recorded under a phase that has none. *)
LEMMA StepOnePerPhase ==
    ASSUME Typed, OnePerPhase, [Next]_vars
    PROVE  OnePerPhase'
  <1> USE DEF settings, tracker
  <1>0. CurrOK /\ curr \in Int /\ TypeOK
    BY PreciseAssumption DEF Typed, TypeOK
  <1>1. CASE Quiet /\ pc = "opts"
    <2>1. UNCHANGED <<alloc_track, curr>> /\ pc' \in {"opts", "init", "exited"}
      BY <1>0, <1>1, OptionsBeforeLines DEF CurrOK
    <2> QED BY <2>1 DEF OnePerPhase
  <1>2. CASE Quiet /\ pc # "opts" /\ ~main_job
    BY <1>0, <1>2, QuietKeepsLine DEF OnePerPhase
  <1>3. CASE main_job
    BY <1>3 DEF main_job, OnePerPhase
  <1>4. CASE go_to_nxt_phase
    <2>1. /\ UNCHANGED alloc_track
          /\ \/ pc' = "exited" /\ curr' = curr
             \/ pc' = "alloc" /\ curr' = curr + 1
      BY <1>4 DEF go_to_nxt_phase
    <2>2. curr' >= curr /\ (pc' = "alloc" => curr' > curr) /\ curr' \in Int
      BY <1>0, <2>1
    <2>3. \A p \in Phase : p > curr' => p > curr
      BY <1>0, <2>2 DEF Phase
    <2> QED BY <2>1, <2>2, <2>3 DEF OnePerPhase
  <1>5. CASE alloc_failed
    BY <1>5 DEF alloc_failed, OnePerPhase
  <1>6. CASE alloc_added
    <2>1. /\ pc = "alloc" /\ curr' = curr
          /\ max_alloc_per_phase_byte' = max_alloc_per_phase_byte
      BY <1>6 DEF alloc_added, Draw, Unchanged
    <2>2. CASE pc' = "crashed" /\ UNCHANGED alloc_track
      BY <2>1, <2>2 DEF OnePerPhase
    <2>3. ASSUME pc' = "mapped", NEW e \in Entry, Adds(e)
          PROVE  OnePerPhase'
      <3>1. /\ curr \in Phase
            /\ alloc_track[curr] = <<>> /\ alloc_track'[curr] = <<e>>
            /\ \A p \in Phase \ {curr} : alloc_track'[p] = alloc_track[p]
        BY <1>0, <2>1, <2>3, TrackAfter DEF Adds, OnePerPhase
      <3>2. Len(alloc_track'[curr]) = 1 /\ alloc_track'[curr][1] = e
        BY <3>1
      <3> QED BY <1>0, <2>1, <2>3, <3>1, <3>2 DEF OnePerPhase, Adds
    <2> QED BY <1>0, <1>6, <2>2, <2>3, AddedLocality
  <1> QED BY <1>1, <1>2, <1>3, <1>4, <1>5, <1>6, StepIsQuiet

(* So a phase never has a second one. *)
LEMMA AlwaysOnePerPhase == Spec => []OnePerPhase
  <1>1. Init => OnePerPhase
    BY PreciseAssumption DEF Init, OnePerPhase
  <1>2. Typed /\ OnePerPhase /\ [Next]_vars => OnePerPhase'
    BY StepOnePerPhase
  <1> QED BY <1>1, <1>2, AlwaysTyped, PTL DEF Spec

(* A trace is replayed line by line, whatever its length and the failures: *)
(* the locality that is held is the one of the line read last, one mapping *)
(* not longer than its count, and held for its time.                       *)
THEOREM TraceIsReplayed == Spec => []TraceReplayed
  <1>1. Typed /\ InStep /\ OnePerPhase => TraceReplayed
    <2> SUFFICES ASSUME Typed, InStep, OnePerPhase, pc = "hold", vector # NULL
                 PROVE  LET line  == vector[vpos]
                            count == IF ipfvt THEN 1 ELSE line.count
                        IN /\ vpos = curr + 1
                           /\ wcet_ms = line.wcet
                           /\ count % PAGE_WRAP # 0 => alloc_track[curr][1].len <= count
      BY DEF TraceReplayed, OnePerPhase
    <2> DEFINE count == IF ipfvt THEN 1 ELSE vector[vpos].count
    <2>1. /\ curr \in Phase /\ vpos <= Len(vector) /\ vpos = curr + 1
          /\ wcet_ms = vector[vpos].wcet
          /\ max_alloc_per_phase_byte = count % PAGE_WRAP
      BY DEF Typed, CurrOK, InStep, Running, Ended
    <2>2. vector \in Seq(Line) /\ vpos \in 1..Len(vector)
      BY <2>1, PreciseAssumption DEF Typed, TypeOK, Phase
    <2>3. count \in Nat
      <3>1. vector[vpos] \in Line
        BY <2>2
      <3> QED BY <3>1 DEF Line
    <2> HIDE DEF count
    <2>4. count % PAGE_WRAP \in Nat /\ count % PAGE_WRAP <= count
      <3> DEFINE q == count \div PAGE_WRAP
                 r == count % PAGE_WRAP
      <3>1. q \in Nat /\ r \in Nat /\ count = q * PAGE_WRAP + r
        BY <2>3, QuotientAndRest, QuotientBounds, PreciseAssumption
      <3> HIDE DEF q, r
      <3>2. \A b \in Nat : q * b \in Nat
        BY <3>1
      <3>3. r <= count
        BY <3>1, <3>2, PreciseAssumption
      <3> QED BY <3>1, <3>3 DEF r
    <2>5. count % PAGE_WRAP # 0 =>
            /\ alloc_track[curr][1].len <= count % PAGE_WRAP
            /\ alloc_track[curr][1].len \in Nat
      <3>1. Len(alloc_track[curr]) = 1 /\ alloc_track[curr] \in Seq(Entry)
        BY <2>1 DEF OnePerPhase, Typed, TypeOK
      <3>2. alloc_track[curr][1] \in Entry
        BY <3>1
      <3> QED BY <2>1, <3>2 DEF OnePerPhase, Entry
    <2>6. count % PAGE_WRAP # 0 => alloc_track[curr][1].len <= count
      BY <2>3, <2>4, <2>5
    <2> QED BY <2>1, <2>6 DEF count
  <1> QED BY <1>1, AlwaysTyped, AlwaysInStep, AlwaysOnePerPhase, PTL

(* What keeps the phase index inside the tracker is the trace alone: one   *)
(* that has no more lines than the tracker has phases.                     *)
THEOREM TraceFitsTracker == Spec => []TraceFits
  <1>1. Typed /\ InStep => TraceFits
    <2> SUFFICES ASSUME Typed, InStep, vector # NULL, Len(vector) <= MAX_ALLOC
                 PROVE  curr < MAX_ALLOC
      BY DEF TraceFits
    <2>1. vector \in Seq(Line) /\ vpos \in Nat /\ curr \in Int
      BY PreciseAssumption DEF Typed, TypeOK
    <2>2. Len(vector) \in Nat
      BY <2>1
    <2> QED BY <2>1, <2>2, PreciseAssumption DEF InStep
  <1> QED BY <1>1, AlwaysTyped, AlwaysInStep, PTL

-----------------------------------------------------------------------------
(* Paths and types *)

(* A step records nothing, or one entry under the current phase, which had *)
(* none.                                                                   *)
LEMMA StepRecords ==
    ASSUME Typed, OnePerPhase, [Next]_vars
    PROVE  \/ /\ UNCHANGED <<alloc_track, taken>>
              /\ Running' => Running /\ type_cnt' = type_cnt
           \/ /\ Running /\ pc = "alloc" /\ pc' = "mapped" /\ curr' = curr
              /\ type_cnt' = type_cnt + 1
              /\ \E e \in Entry :
                    /\ Adds(e)
                    /\ alloc_track[curr] = <<>> /\ alloc_track'[curr] = <<e>>
                    /\ \A p \in Phase \ {curr} : alloc_track'[p] = alloc_track[p]
  <1> USE DEF tracker
  <1>1. CASE Quiet
    <2>1. Running' => Running
      BY <1>1 DEF Quiet, opt_V, opt_I, opt_lengths, opt_rejected, start, init_reset,
                  init_end, main_job, main_vector_end, stabilise_begin,
                  touch_once_curr, stabilise_end, job_returns, tick, ended, vars,
                  Running, Ended
    <2> QED BY <1>1, <2>1, QuietKeepsTracker
  <1>2. CASE go_to_nxt_phase
    BY <1>2 DEF go_to_nxt_phase, Running, Ended
  <1>3. CASE alloc_failed
    BY <1>3 DEF alloc_failed, Running, Ended
  <1>4. CASE alloc_added
    <2>1. pc = "alloc" /\ curr' = curr /\ type_cnt' = type_cnt + 1
      BY <1>4 DEF alloc_added, Draw
    <2>2. CASE pc' = "crashed" /\ UNCHANGED <<alloc_track, taken>>
      BY <2>2 DEF Running, Ended
    <2>3. ASSUME pc' = "mapped", NEW e \in Entry, Adds(e)
          PROVE  /\ alloc_track[curr] = <<>> /\ alloc_track'[curr] = <<e>>
                 /\ \A p \in Phase \ {curr} : alloc_track'[p] = alloc_track[p]
      BY <2>1, <2>3, TrackAfter DEF Typed, OnePerPhase, Adds
    <2> QED BY <1>4, <2>1, <2>2, <2>3, AddedLocality DEF Typed, Running, Ended
  <1> QED BY <1>1, <1>2, <1>3, <1>4, StepIsQuiet

(* A path is flagged by the step that records it. *)
LEMMA StepFlagged ==
    ASSUME Typed, OnePerPhase, FlaggedIsRecorded, [Next]_vars
    PROVE  FlaggedIsRecorded'
  <1>1. CASE UNCHANGED <<alloc_track, taken>>
    BY <1>1 DEF FlaggedIsRecorded
  <1>2. ASSUME NEW e \in Entry, Adds(e),
               alloc_track[curr] = <<>>, alloc_track'[curr] = <<e>>,
               \A p \in Phase \ {curr} : alloc_track'[p] = alloc_track[p]
        PROVE  FlaggedIsRecorded'
    <2>1. curr \in Phase
      BY <1>2 DEF Adds
    <2>2. \A n : /\ ~Recorded(alloc_track, curr, n)
                 /\ Recorded(alloc_track', curr, n) <=> e.addr = n
      <3>1. Len(alloc_track[curr]) = 0 /\ Len(alloc_track'[curr]) = 1
            /\ alloc_track'[curr][1] = e
        BY <1>2
      <3> QED BY <3>1 DEF Recorded
    <2>3. \A p \in Phase \ {curr}, n \in Node :
             Recorded(alloc_track', p, n) <=> Recorded(alloc_track, p, n)
      BY <1>2 DEF Recorded
    <2>4. \A n \in Node : n \in taken' <=> n \in taken \/ n = e.addr
      <3>1. e.type = "file" => taken' = taken \cup {e.addr}
        BY <1>2 DEF Adds
      <3>2. e.type # "file" => taken' = taken /\ e.addr = NULL
        BY <1>2 DEF Adds
      <3> QED BY <3>1, <3>2, FileListAssumption
    <2>5. e.addr \in Node => e.addr \notin taken
      BY <1>2, FileListAssumption DEF Adds
    <2> SUFFICES ASSUME NEW n \in Node
                 PROVE  /\ n \in taken' <=> \E p \in Phase : Recorded(alloc_track', p, n)
                        /\ \A p, q \in Phase :
                              Recorded(alloc_track', p, n) /\ Recorded(alloc_track', q, n)
                                 => p = q
      BY DEF FlaggedIsRecorded
    <2>6. CASE n = e.addr
      <3>1. \A p \in Phase : ~Recorded(alloc_track, p, n)
        BY <2>5, <2>6 DEF FlaggedIsRecorded
      <3>2. \A p \in Phase : Recorded(alloc_track', p, n) <=> p = curr
        BY <2>2, <2>3, <2>6, <3>1
      <3> QED BY <2>1, <2>4, <2>6, <3>2
    <2>7. CASE n # e.addr
      <3>1. \A p \in Phase : Recorded(alloc_track', p, n) <=> Recorded(alloc_track, p, n)
        BY <2>2, <2>3, <2>7
      <3> QED BY <2>4, <2>7, <3>1 DEF FlaggedIsRecorded
    <2> QED BY <2>6, <2>7
  <1> QED BY <1>1, <1>2, StepRecords

(* A file is mapped by one locality at most, and its flag is set when it   *)
(* is and only then.                                                       *)
THEOREM FileUsedOnce == Spec => []FilesUsedOnce
  <1>1. Init => FlaggedIsRecorded
    BY DEF Init, FlaggedIsRecorded, Recorded
  <1>2. Typed /\ OnePerPhase /\ FlaggedIsRecorded /\ [Next]_vars => FlaggedIsRecorded'
    BY StepFlagged
  <1>3. FlaggedIsRecorded => FilesUsedOnce
    <2> SUFFICES ASSUME FlaggedIsRecorded, NEW n \in Node
                 PROVE  Cardinality({p \in Phase : Recorded(alloc_track, p, n)})
                           = IF n \in taken THEN 1 ELSE 0
      BY DEF FilesUsedOnce, Recorded
    <2> DEFINE R == {p \in Phase : Recorded(alloc_track, p, n)}
    <2>1. CASE n \in taken
      <3>1. PICK p \in Phase : Recorded(alloc_track, p, n)
        BY <2>1 DEF FlaggedIsRecorded
      <3>2. R = {p}
        BY <3>1 DEF FlaggedIsRecorded
      <3> QED BY <2>1, <3>2, FS_Singleton
    <2>2. CASE n \notin taken
      <3>1. R = {}
        BY <2>2 DEF FlaggedIsRecorded
      <3> QED BY <2>2, <3>1, FS_EmptySet
    <2> QED BY <2>1, <2>2
  <1> QED BY <1>1, <1>2, <1>3, AlwaysTyped, AlwaysOnePerPhase, PTL DEF Spec

(* How many localities are of a type: a natural number, and one more when  *)
(* one is recorded.                                                        *)
LEMMA PlacedType ==
    ASSUME NEW track, NEW t
    PROVE  IsFiniteSet(Placed(track, t)) /\ Cardinality(Placed(track, t)) \in Nat
  <1>1. IsFiniteSet(Phase)
    BY PreciseAssumption, FS_Interval DEF Phase
  <1>2. IsFiniteSet(Placed(track, t))
    BY <1>1, FS_Subset DEF Placed
  <1> QED BY <1>2, FS_CardinalityType

(* Recording a locality adds one to those of its type. *)
LEMMA PlacedAfter ==
    ASSUME NEW e \in Entry, curr \in Phase,
           alloc_track[curr] = <<>>, alloc_track'[curr] = <<e>>,
           \A p \in Phase \ {curr} : alloc_track'[p] = alloc_track[p],
           NEW t \in MemType
    PROVE  Cardinality(Placed(alloc_track', t))
              = Cardinality(Placed(alloc_track, t)) + (IF e.type = t THEN 1 ELSE 0)
  <1>1. Len(alloc_track[curr]) = 0 /\ Len(alloc_track'[curr]) = 1 /\ alloc_track'[curr][1] = e
    OBVIOUS
  <1>2. curr \notin Placed(alloc_track, t)
    BY <1>1 DEF Placed
  <1>3. CASE e.type = t
    <2>1. Placed(alloc_track', t) = Placed(alloc_track, t) \cup {curr}
      BY <1>1, <1>3 DEF Placed
    <2> QED BY <1>2, <1>3, <2>1, PlacedType, FS_AddElement
  <1>4. CASE e.type # t
    <2>1. Placed(alloc_track', t) = Placed(alloc_track, t)
      BY <1>1, <1>4 DEF Placed
    <2> QED BY <1>4, <2>1, PlacedType
  <1> QED BY <1>3, <1>4

(* The arithmetic of the ratio: when the numbers so far are those that the *)
(* turns give, they still are after one more turn.                         *)
Turns(files, anons) ==
    /\ (FILE_RATIO - 1) * anons <= files
    /\ files + anons > 0 => anons = (files + anons - 1) \div FILE_RATIO

(* The turn after any number of turns keeps the ratio. *)
LEMMA NextTurn ==
    ASSUME NEW files \in Nat, NEW anons \in Nat, Turns(files, anons),
           NEW more \in {0, 1},
           more = 1 <=> (files + anons) % FILE_RATIO = 0 /\ files + anons # 0
    PROVE  Turns(files + 1 - more, anons + more)
  <1> DEFINE R == FILE_RATIO
             c == files + anons
  <1>0. R \in Nat \ {0} /\ c \in Nat
    BY PreciseAssumption
  <1>1. CASE c = 0
    <2>1. files = 0 /\ anons = 0 /\ more = 0
      BY <1>1
    <2>2. 0 \div R = 0
      <3>1. 0 * R = 0
        BY <1>0
      <3> QED BY <1>0, <3>1, QuotientUnique
    <2>3. (R - 1) * 0 = 0
      BY <1>0
    <2> QED BY <2>1, <2>2, <2>3 DEF Turns
  <1>2. CASE c > 0
    <2> DEFINE a == anons + more
               q == c \div R
               r == c % R
    <2>1. q \in Int /\ r \in 0..(R - 1) /\ c = q * R + r
      BY <1>0, QuotientAndRest
    <2>2. anons = (c - 1) \div R
      BY <1>2 DEF Turns
    <2>3. more = 1 <=> r = 0
      BY <1>2
    <2>4. q = a
      <3>1. CASE r = 0
        <4>1. (q - 1) * R = q * R - R /\ q * R \in Int
          BY <1>0, <2>1
        <4>2. (q - 1) * R <= c - 1 /\ c - 1 < (q - 1) * R + R
          BY <1>0, <2>1, <3>1, <4>1
        <4>3. q - 1 \in Int /\ c - 1 \in Int
          BY <1>0, <2>1
        <4> DEFINE d == c - 1
                   k == q - 1
        <4>4. d \in Int /\ k \in Int /\ k * R <= d /\ d < k * R + R
          BY <4>2, <4>3
        <4> HIDE DEF d, k
        <4>5. d \div R = k
          BY <1>0, <4>4, QuotientUnique
        <4> QED BY <2>1, <2>2, <2>3, <3>1, <4>5 DEF d, k
      <3>2. CASE r # 0
        <4>1. q * R \in Int
          BY <1>0, <2>1
        <4> DEFINE d == c - 1
        <4>2. d \in Int /\ q * R <= d /\ d < q * R + R
          BY <1>0, <2>1, <3>2, <4>1
        <4> HIDE DEF d
        <4>3. d \div R = q
          BY <1>0, <2>1, <4>2, QuotientUnique
        <4> QED BY <2>2, <2>3, <3>2, <4>3 DEF d
      <3> QED BY <3>1, <3>2
    <2>5. /\ (R - 1) * a = a * R - a /\ a * R \in Int /\ a \in Int
      BY <1>0
    <2>6. (R - 1) * a <= files + 1 - more
      <3>1. a * R <= c
        BY <1>0, <2>1, <2>4, <2>5
      <3> QED BY <2>5, <3>1
    <2>7. (files + 1 - more) + (anons + more) - 1 = c
      OBVIOUS
    <2> QED BY <2>4, <2>6, <2>7 DEF Turns
  <1> QED BY <1>0, <1>1, <1>2

(* A step keeps the counter and the ratio. *)
LEMMA StepRatio ==
    ASSUME Typed, OnePerPhase, TypesCounted, RatioExact, [Next]_vars
    PROVE  TypesCounted' /\ RatioExact'
  <1> DEFINE F == Cardinality(Placed(alloc_track, "file"))
             A == Cardinality(Placed(alloc_track, "anon"))
  <1>0. /\ Turns(F, A) /\ F \in Nat /\ A \in Nat
        /\ Turns(F, A)' => RatioExact'
    <2>1. F \in Nat /\ A \in Nat
      BY PlacedType
    <2>2. Turns(F, A)
      BY DEF RatioExact, Turns, Localities, Placed
    <2>3. Turns(F, A)' => RatioExact'
      BY DEF RatioExact, Turns, Localities, Placed
    <2> QED BY <2>1, <2>2, <2>3
  <1>1. CASE UNCHANGED alloc_track /\ (Running' => Running /\ type_cnt' = type_cnt)
    BY <1>0, <1>1 DEF TypesCounted, Turns, Placed
  <1>2. ASSUME Running, type_cnt' = type_cnt + 1, NEW e \in Entry, Adds(e),
               alloc_track[curr] = <<>>, alloc_track'[curr] = <<e>>,
               \A p \in Phase \ {curr} : alloc_track'[p] = alloc_track[p]
        PROVE  TypesCounted' /\ RatioExact'
    <2> DEFINE more == IF e.type = "anon" THEN 1 ELSE 0
    <2>1. e.type \in MemType /\ curr \in Phase /\ e.type = randomize_alloc_type
      BY <1>2 DEF Adds, Entry
    <2>2. F' = F + (IF e.type = "file" THEN 1 ELSE 0) /\ A' = A + more
      BY <1>2, <2>1, PlacedAfter DEF MemType
    <2>3. F' = F + 1 - more /\ A' = A + more /\ more \in {0, 1}
      BY <1>0, <2>1, <2>2 DEF MemType
    <2>4. type_cnt = F + A
      BY <1>2 DEF TypesCounted
    <2>5. more = 1 <=> (F + A) % FILE_RATIO = 0 /\ F + A # 0
      BY <2>1, <2>4 DEF randomize_alloc_type
    <2> HIDE DEF F, A, more
    <2>6. Turns(F + 1 - more, A + more)
      BY <1>0, <2>3, <2>5, NextTurn
    <2>7. Turns(F, A)'
      BY <2>3, <2>6 DEF Turns
    <2>8. type_cnt' = F' + A'
      BY <1>0, <1>2, <2>3, <2>4
    <2> QED BY <1>0, <2>7, <2>8 DEF TypesCounted, F, A
  <1> HIDE DEF F, A
  <1> QED BY <1>1, <1>2, StepRecords

(* Over any number of localities FILE_RATIO - 1 are of file memory for     *)
(* each anonymous one, and no anonymous one is missing.                    *)
THEOREM RatioIsExact == Spec => []RatioExact
  <1>1. Init => TypesCounted /\ RatioExact
    <2> SUFFICES ASSUME Init PROVE TypesCounted /\ RatioExact
      OBVIOUS
    <2>1. \A t : Placed(alloc_track, t) = {}
      BY DEF Init, Placed
    <2>2. Cardinality(Placed(alloc_track, "file")) = 0
      BY <2>1, FS_EmptySet
    <2>3. Cardinality(Placed(alloc_track, "anon")) = 0
      BY <2>1, FS_EmptySet
    <2>4. (FILE_RATIO - 1) * 0 = 0
      BY PreciseAssumption
    <2>5. type_cnt = 0
      BY DEF Init
    <2> QED BY <2>2, <2>3, <2>4, <2>5 DEF TypesCounted, RatioExact, Localities, Placed
  <1>2. Typed /\ OnePerPhase /\ TypesCounted /\ RatioExact /\ [Next]_vars
          => TypesCounted' /\ RatioExact'
    BY StepRatio
  <1> QED BY <1>1, <1>2, AlwaysTyped, AlwaysOnePerPhase, PTL DEF Spec

-----------------------------------------------------------------------------
(* The localities *)

SegmentsOf(track, p) == {p} \X DOMAIN track[p]
StateOfL == CASE ~Running                   -> "over"
              [] pc = "hold"                -> "holding"
              [] pc \in {"alloc", "mapped"} -> "transition"
              [] OTHER                      -> "idle"
MappedOfL == UNION {SegmentsOf(alloc_track, p) : p \in Phase}
CurrentOfL == IF curr \in Phase THEN SegmentsOf(alloc_track, curr) ELSE {}
ReferencedOfL == {<<fix_head[i], 1>> : i \in {i \in DOMAIN fix_head : fix_head[i] = curr}}

(* touch_once_curr leaves the list as it is, or adds the current phase. *)
LEMMA Touched ==
    ASSUME TypeOK, curr \in Phase, fix_head' = <<curr>> \o fix_head, curr' = curr
    PROVE  /\ \A i \in DOMAIN fix_head' :
                 fix_head'[i] = curr \/ \E j \in DOMAIN fix_head : fix_head'[i] = fix_head[j]
           /\ ReferencedOfL' = ReferencedOfL \cup {<<curr, 1>>}
  <1> DEFINE n == Len(fix_head)
  <1>1. /\ n \in Nat /\ DOMAIN fix_head = 1..n /\ DOMAIN fix_head' = 1..(n + 1)
        /\ fix_head'[1] = curr
        /\ \A i \in 2..(n + 1) : fix_head'[i] = fix_head[i - 1]
    BY DEF TypeOK
  <1> HIDE DEF n
  <1>2. \A i \in 1..(n + 1) : i = 1 \/ (i \in 2..(n + 1) /\ i - 1 \in 1..n)
    BY <1>1
  <1>3. \A i \in DOMAIN fix_head' :
           fix_head'[i] = curr \/ \E j \in DOMAIN fix_head : fix_head'[i] = fix_head[j]
    BY <1>1, <1>2
  <1>4. 1 \in DOMAIN fix_head'
    BY <1>1
  <1>5. \A x : x \in ReferencedOfL' <=>
                  x = <<curr, 1>> /\ \E i \in DOMAIN fix_head' : fix_head'[i] = curr
    BY DEF ReferencedOfL
  <1>6. \A x : x \in ReferencedOfL <=>
                  x = <<curr, 1>> /\ \E i \in DOMAIN fix_head : fix_head[i] = curr
    BY DEF ReferencedOfL
  <1>7. <<curr, 1>> \in ReferencedOfL'
    BY <1>1, <1>4, <1>5
  <1> QED BY <1>3, <1>5, <1>6, <1>7

(* Only a locality that is held adds to the list. *)
LEMMA StepFixHead ==
    ASSUME [Next]_vars
    PROVE  \/ fix_head' = fix_head
           \/ /\ pc = "hold" /\ pc' = pc /\ curr' = curr
              /\ fix_head' = <<curr>> \o fix_head
  BY DEF Next, Program, opt_V, opt_I, opt_lengths, opt_rejected, start, init_reset,
         init_end, main_job, main_vector_end, go_to_nxt_phase, Unchanged, alloc_failed,
         alloc_added, stabilise_begin, touch_once_curr, stabilise_end, job_returns, tick,
         ended, vars, Frame, NotHolding, holding, tracker

(* A phase begins, or the phase stays, and a transition is over before the *)
(* phase is held.                                                          *)
LEMMA StepPhase ==
    ASSUME Typed, [Next]_vars
    PROVE  \/ curr' = curr /\ (pc' \in {"alloc", "mapped"} => pc \in {"alloc", "mapped"})
           \/ curr' = curr + 1 /\ pc' = "alloc" /\ pc = "job"
  <1> USE DEF tracker
  <1>1. CASE Quiet
    <2>1. pc' \in {"alloc", "mapped"} => pc' = pc
      BY <1>1 DEF Quiet, opt_V, opt_I, opt_lengths, opt_rejected, start, init_reset,
                  init_end, main_job, main_vector_end, stabilise_begin,
                  touch_once_curr, stabilise_end, job_returns, tick, ended, vars, Ended
    <2> QED BY <1>1, <2>1, QuietKeepsTracker
  <1>2. CASE go_to_nxt_phase
    BY <1>2 DEF go_to_nxt_phase
  <1>3. CASE alloc_failed \/ alloc_added
    BY <1>3 DEF alloc_failed, alloc_added, Draw
  <1> QED BY <1>1, <1>2, <1>3, StepIsQuiet

(* A new phase is above all that the list has. *)
LEMMA StepFixedBefore ==
    ASSUME Typed, FixedBefore, [Next]_vars
    PROVE  FixedBefore'
  <1>0. /\ curr \in Int
        /\ \A i \in DOMAIN fix_head : fix_head[i] \in Phase /\ fix_head[i] \in Int
    BY PreciseAssumption DEF Typed, TypeOK, Phase
  <1>1. CASE fix_head' = fix_head
    BY <1>0, <1>1, StepPhase DEF FixedBefore
  <1>2. CASE /\ pc = "hold" /\ pc' = pc /\ curr' = curr
             /\ fix_head' = <<curr>> \o fix_head
    <2>1. curr \in Phase
      BY <1>2 DEF Typed, CurrOK
    <2> QED BY <1>0, <1>2, <2>1, Touched DEF FixedBefore, Typed
  <1> QED BY <1>1, <1>2, StepFixHead

(* So the list never has a phase that is still to be held. *)
LEMMA AlwaysFixedBefore == Spec => []FixedBefore
  <1>1. Init => FixedBefore
    BY DEF Init, FixedBefore
  <1>2. Typed /\ FixedBefore /\ [Next]_vars => FixedBefore'
    BY StepFixedBefore
  <1> QED BY <1>1, <1>2, AlwaysTyped, PTL DEF Spec

(* Each step is one of the localities, or none of theirs. *)
LEMMA StepLocality ==
    ASSUME Typed, OnePerPhase, FixedBefore, [Next]_vars
    PROVE  [L!Next]_L!lvars
  <1> USE DEF tracker, holding
  <1> DEFINE Kept == UNCHANGED <<MappedOfL, CurrentOfL, ReferencedOfL>>
  <1>0. TypeOK /\ CurrOK
    BY DEF Typed
  <1>1. UNCHANGED <<alloc_track, curr>> => UNCHANGED <<MappedOfL, CurrentOfL>>
    BY DEF MappedOfL, CurrentOfL
  <1>2. UNCHANGED <<fix_head, curr>> => UNCHANGED ReferencedOfL
    BY DEF ReferencedOfL
  <1>3. ASSUME Kept, StateOfL' = StateOfL
        PROVE  UNCHANGED L!lvars
    BY <1>3 DEF L!lvars, StateOfL, MappedOfL, CurrentOfL, ReferencedOfL, SegmentsOf
  <1>4. ASSUME Kept, StateOfL # "over", StateOfL' = "over"
        PROVE  L!Next
    BY <1>4 DEF L!Next, L!Stop, StateOfL, MappedOfL, CurrentOfL, ReferencedOfL, SegmentsOf
  <1> HIDE DEF Kept
  <1>5. CASE Quiet /\ ~stabilise_begin /\ ~stabilise_end /\ ~touch_once_curr
    <2>1. UNCHANGED <<alloc_track, curr, fix_head>>
      BY <1>5, QuietKeepsTracker
      DEF Quiet, opt_V, opt_I, opt_lengths, opt_rejected, start, init_reset, init_end,
          main_job, main_vector_end, job_returns, tick, ended, Frame, NotHolding, vars
    <2>2. Kept
      BY <1>1, <1>2, <2>1 DEF Kept
    <2>3. \/ pc' = pc
          \/ /\ pc \in {"opts", "init", "main", "held"}
             /\ pc' \in {"init", "main", "job", "returned", "exited", "crashed"}
      BY <1>5
      DEF Quiet, opt_V, opt_I, opt_lengths, opt_rejected, start, init_reset, init_end,
          main_job, main_vector_end, job_returns, tick, ended, vars
    <2>4. \/ StateOfL' = StateOfL
          \/ StateOfL # "over" /\ StateOfL' = "over"
      BY <2>3 DEF StateOfL, Running, Ended
    <2> QED BY <1>3, <1>4, <2>2, <2>4
  <1>6. CASE go_to_nxt_phase
    <2>1. pc = "job" /\ UNCHANGED <<alloc_track, fix_head>>
      BY <1>6 DEF go_to_nxt_phase, Unchanged
    <2>2. CASE pc' = "exited" /\ curr' = curr
      <3>1. Kept
        BY <1>1, <1>2, <2>1, <2>2 DEF Kept
      <3>2. StateOfL # "over" /\ StateOfL' = "over"
        BY <2>1, <2>2 DEF StateOfL, Running, Ended
      <3> QED BY <1>4, <3>1, <3>2
    <2>3. CASE pc' = "alloc" /\ curr' = curr + 1
      <3>1. curr \in Int /\ curr' > curr
        BY <1>0, <2>3, PreciseAssumption DEF TypeOK
      <3>2. CurrentOfL' = {}
        <4>1. CASE curr' \in Phase
          <5>1. alloc_track'[curr'] = <<>>
            BY <2>1, <3>1, <4>1 DEF OnePerPhase
          <5>2. DOMAIN alloc_track'[curr'] = {}
            BY <5>1
          <5> QED BY <5>2 DEF CurrentOfL, SegmentsOf
        <4>2. CASE curr' \notin Phase
          BY <4>2 DEF CurrentOfL
        <4> QED BY <4>1, <4>2
      <3>3. ReferencedOfL' = {}
        <4>1. \A i \in DOMAIN fix_head : fix_head[i] <= curr /\ fix_head[i] \in Int
          BY <1>0, PreciseAssumption DEF FixedBefore, TypeOK, Phase
        <4>2. \A i \in DOMAIN fix_head : fix_head[i] # curr'
          BY <3>1, <4>1, <2>3
        <4> QED BY <2>1, <4>2 DEF ReferencedOfL
      <3>4. MappedOfL' = MappedOfL
        BY <2>1 DEF MappedOfL
      <3>5. StateOfL = "idle" /\ StateOfL' = "transition"
        BY <2>1, <2>3 DEF StateOfL, Running, Ended
      <3> QED BY <3>2, <3>3, <3>4, <3>5
              DEF L!Next, L!Begin, StateOfL, MappedOfL, CurrentOfL, ReferencedOfL,
                  SegmentsOf
    <2> QED BY <1>6, <2>2, <2>3 DEF go_to_nxt_phase
  <1>7. CASE alloc_failed
    <2>1. pc = "alloc" /\ pc' = "exited" /\ UNCHANGED <<alloc_track, curr, fix_head>>
      BY <1>7 DEF alloc_failed, Draw, Unchanged
    <2>2. Kept
      BY <1>1, <1>2, <2>1 DEF Kept
    <2>3. StateOfL # "over" /\ StateOfL' = "over"
      BY <2>1 DEF StateOfL, Running, Ended
    <2> QED BY <1>4, <2>2, <2>3
  <1>8. CASE alloc_added
    <2>1. pc = "alloc" /\ UNCHANGED <<curr, fix_head>>
      BY <1>8 DEF alloc_added, Draw, Unchanged
    <2>2. CASE pc' = "crashed" /\ UNCHANGED alloc_track
      <3>1. Kept
        BY <1>1, <1>2, <2>1, <2>2 DEF Kept
      <3>2. StateOfL # "over" /\ StateOfL' = "over"
        BY <2>1, <2>2 DEF StateOfL, Running, Ended
      <3> QED BY <1>4, <3>1, <3>2
    <2>3. ASSUME pc' = "mapped", NEW e \in Entry, Adds(e)
          PROVE  L!Next
      <3> DEFINE x == <<curr, 1>>
      <3>1. /\ curr \in Phase
            /\ alloc_track[curr] = <<>> /\ alloc_track'[curr] = <<e>>
            /\ \A p \in Phase \ {curr} : alloc_track'[p] = alloc_track[p]
        BY <1>0, <2>1, <2>3, TrackAfter DEF Adds, OnePerPhase
      <3>2. DOMAIN alloc_track[curr] = {} /\ DOMAIN alloc_track'[curr] = {1}
        BY <3>1
      <3>3. /\ SegmentsOf(alloc_track, curr) = {} /\ SegmentsOf(alloc_track', curr) = {x}
            /\ \A p \in Phase \ {curr} :
                  /\ SegmentsOf(alloc_track', p) = SegmentsOf(alloc_track, p)
                  /\ x \notin SegmentsOf(alloc_track, p)
        BY <3>1, <3>2 DEF SegmentsOf
      <3>4. x \notin MappedOfL /\ MappedOfL' = MappedOfL \cup {x}
        BY <3>1, <3>3 DEF MappedOfL
      <3>5. CurrentOfL = {} /\ CurrentOfL' = {x}
        BY <2>1, <3>1, <3>3 DEF CurrentOfL
      <3>6. StateOfL = "transition" /\ StateOfL' = "transition"
        BY <2>1, <2>3 DEF StateOfL, Running, Ended
      <3>7. x \in Phase \X {1}
        BY <3>1
      <3> HIDE DEF x
      <3>8. PICK y \in Phase \X {1} : y = x
        BY <3>7
      <3>9. L!Map(y)
        BY <1>2, <2>1, <3>4, <3>5, <3>6, <3>8
        DEF L!Map, StateOfL, MappedOfL, CurrentOfL, ReferencedOfL, SegmentsOf
      <3> QED BY <3>9 DEF L!Next
    <2> QED BY <1>0, <1>8, <2>2, <2>3, AddedLocality
  <1>9. CASE stabilise_begin \/ stabilise_end
    <2>1. /\ UNCHANGED <<alloc_track, curr, fix_head>>
          /\ \/ pc = "mapped" /\ pc' = "hold"
             \/ pc = "hold" /\ pc' = "held"
      BY <1>9 DEF stabilise_begin, stabilise_end, NotHolding
    <2>2. Kept
      BY <1>1, <1>2, <2>1 DEF Kept
    <2>3. \/ StateOfL = "transition" /\ StateOfL' = "holding"
          \/ StateOfL = "holding" /\ StateOfL' = "idle"
      BY <2>1 DEF StateOfL, Running, Ended
    <2> QED BY <2>2, <2>3 DEF L!Next, L!Hold, L!End, StateOfL, MappedOfL, CurrentOfL,
                              ReferencedOfL, SegmentsOf, Kept
  <1>10. CASE touch_once_curr
    <2>1. pc = "hold" /\ UNCHANGED <<alloc_track, curr>> /\ curr \in Phase
      BY <1>0, <1>10 DEF touch_once_curr, NotHolding, CurrOK
    <2>2. CASE fix_head' = fix_head
      <3>1. Kept
        BY <1>1, <1>2, <2>1, <2>2 DEF Kept
      <3>2. pc' = pc \/ pc' = "crashed"
        BY <1>10 DEF touch_once_curr
      <3>3. StateOfL # "over" /\ (StateOfL' = StateOfL \/ StateOfL' = "over")
        BY <2>1, <3>2 DEF StateOfL, Running, Ended
      <3> QED BY <1>3, <1>4, <3>1, <3>3
    <2>3. CASE fix_head' = <<curr>> \o fix_head /\ pc' = pc
      <3> DEFINE x == <<curr, 1>>
      <3>1. ReferencedOfL' = ReferencedOfL \cup {x}
        BY <1>0, <2>1, <2>3, Touched
      <3>2. StateOfL = "holding" /\ StateOfL' = "holding"
        BY <2>1, <2>3 DEF StateOfL, Running, Ended
      <3>3. x \in CurrentOfL
        <4>1. Len(alloc_track[curr]) = 1 /\ alloc_track[curr] \in Seq(Entry)
          BY <1>0, <2>1 DEF OnePerPhase, TypeOK
        <4>2. 1 \in DOMAIN alloc_track[curr]
          BY <4>1
        <4> QED BY <2>1, <4>2 DEF CurrentOfL, SegmentsOf
      <3>4. x \in Phase \X {1}
        BY <2>1
      <3> HIDE DEF x
      <3>5. PICK y \in Phase \X {1} : y = x
        BY <3>4
      <3>6. L!Reference(y)
        BY <1>1, <2>1, <3>1, <3>2, <3>3, <3>5
        DEF L!Reference, StateOfL, MappedOfL, CurrentOfL, ReferencedOfL, SegmentsOf
      <3> QED BY <3>6 DEF L!Next
    <2> QED BY <1>10, <2>2, <2>3 DEF touch_once_curr
  <1> QED BY <1>5, <1>6, <1>7, <1>8, <1>9, <1>10, StepIsQuiet

(* The refactored program keeps the promise of the one it replaces: a      *)
(* sequence of localities, each with a working set of its own.             *)
THEOREM PreciseImplementsLocality == Spec => ImplementsLocality
  <1>1. Init => L!Init
    <2> SUFFICES ASSUME Init PROVE L!Init
      OBVIOUS
    <2>1. \A p \in Phase : SegmentsOf(alloc_track, p) = {}
      BY DEF Init, SegmentsOf
    <2>2. MappedOfL = {} /\ CurrentOfL = {}
      BY <2>1 DEF MappedOfL, CurrentOfL
    <2>3. ReferencedOfL = {}
      BY DEF Init, ReferencedOfL
    <2>4. StateOfL = "idle"
      BY DEF Init, StateOfL, Running, Ended
    <2> QED BY <2>2, <2>3, <2>4 DEF L!Init, StateOfL, MappedOfL, CurrentOfL,
                                    ReferencedOfL, SegmentsOf
  <1>2. Typed /\ OnePerPhase /\ FixedBefore /\ [Next]_vars => [L!Next]_L!lvars
    BY StepLocality
  <1> QED BY <1>1, <1>2, AlwaysTyped, AlwaysOnePerPhase, AlwaysFixedBefore, PTL
          DEF Spec, ImplementsLocality, L!Spec

=============================================================================
