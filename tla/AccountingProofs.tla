-------------------------- MODULE AccountingProofs --------------------------
(***************************************************************************)
(* Theorems about what the allocator counts: the page statistics agree     *)
(* with the tracker, a precise budget is overshot by less than one         *)
(* mapping, and the ratio of anonymous to file mappings is kept.           *)
(***************************************************************************)
EXTENDS AllocatorProofs, ArithmeticLemmas

(* The fold of the community modules is the sum of ArithmeticLemmas. *)
LEMMA SumFunctionIsTotal ==
    ASSUME NEW f
    PROVE  Fn!SumFunction(f) = Total(f, DOMAIN f)
  BY DEF Total, IsSum, Pick, Fn!SumFunction, Fn!SumFunctionOnSet,
         Fn!FoldFunctionOnSet, Fn!MapThenFoldSet

Lens(s) == [i \in DOMAIN s |-> s[i].len]

(* The lengths of the entries of a phase are finitely many positive numbers. *)
LEMMA LensType ==
    ASSUME NEW s \in Seq(Entry)
    PROVE  /\ PagesOf(s) = Total(Lens(s), DOMAIN s)
           /\ IsFiniteSet(DOMAIN s)
           /\ \A i \in DOMAIN s : Lens(s)[i] = s[i].len /\ Lens(s)[i] \in Nat
  <1>1. PagesOf(s) = Total(Lens(s), DOMAIN s)
    BY SumFunctionIsTotal DEF PagesOf, Lens
  <1>2. DOMAIN s = 1..Len(s) /\ Len(s) \in Nat
    OBVIOUS
  <1>3. IsFiniteSet(DOMAIN s)
    BY <1>2, FS_Interval
  <1>4. ASSUME NEW i \in DOMAIN s
        PROVE  Lens(s)[i] = s[i].len /\ Lens(s)[i] \in Nat
    <2>1. s[i] \in Entry
      OBVIOUS
    <2>2. s[i].len \in Nat
      BY <2>1 DEF Entry
    <2> QED BY <2>2 DEF Lens
  <1> QED BY <1>1, <1>3, <1>4

(* The pages of a phase are a natural number, 0 when it is empty, and grow *)
(* by those of a mapping that is recorded.                                 *)
LEMMA PagesType ==
    ASSUME NEW s \in Seq(Entry)
    PROVE  PagesOf(s) \in Nat
  BY LensType, TotalType

(* No mappings have no pages. *)
LEMMA PagesOfNone == PagesOf(<<>>) = 0
  <1>1. <<>> \in Seq(Entry) /\ DOMAIN <<>> = {}
    OBVIOUS
  <1> QED BY <1>1, LensType, TotalEmpty

(* A mapping that joins a phase adds its length. *)
LEMMA PagesOfAppend ==
    ASSUME NEW s \in Seq(Entry), NEW e \in Entry
    PROVE  PagesOf(Append(s, e)) = PagesOf(s) + e.len
  <1> DEFINE t == Append(s, e)
             n == Len(s) + 1
  <1>1. /\ t \in Seq(Entry) /\ n \in DOMAIN t /\ t[n] = e
        /\ DOMAIN t \ {n} = DOMAIN s
        /\ \A i \in DOMAIN s : t[i] = s[i]
    <2>1. t \in Seq(Entry) /\ Len(t) = n /\ n \in Nat /\ t[n] = e
      OBVIOUS
    <2>2. DOMAIN t = 1..n /\ DOMAIN s = 1..(n - 1)
      BY <2>1
    <2>3. \A i \in DOMAIN s : t[i] = s[i]
      OBVIOUS
    <2>4. n \in 1..n /\ (1..n) \ {n} = 1..(n - 1)
      BY <2>1
    <2> HIDE DEF t, n
    <2>5. n \in DOMAIN t /\ DOMAIN t \ {n} = DOMAIN s
      BY <2>2, <2>4, Zenon
    <2> QED BY <2>1, <2>3, <2>5
  <1> HIDE DEF t, n
  <1>2. /\ PagesOf(t) = Total(Lens(t), DOMAIN t)
        /\ IsFiniteSet(DOMAIN t)
        /\ \A i \in DOMAIN t : Lens(t)[i] = t[i].len /\ Lens(t)[i] \in Nat
    BY <1>1, LensType
  <1>3. /\ PagesOf(s) = Total(Lens(s), DOMAIN s)
        /\ IsFiniteSet(DOMAIN s)
        /\ \A i \in DOMAIN s : Lens(s)[i] = s[i].len
    BY LensType
  <1>4. Total(Lens(t), DOMAIN t) = Lens(t)[n] + Total(Lens(t), DOMAIN s)
    <2> DEFINE D == DOMAIN t
               f == Lens(t)
    <2>1. IsFiniteSet(D) /\ n \in D /\ \A i \in D : f[i] \in Nat
      BY <1>1, <1>2
    <2> HIDE DEF D, f
    <2>2. Total(f, D) = f[n] + Total(f, D \ {n})
      BY <2>1, TotalRemove
    <2> QED BY <1>1, <2>2 DEF D, f
  <1>5. \A i \in DOMAIN s : Lens(t)[i] = Lens(s)[i]
    BY <1>1, <1>2, <1>3
  <1>6. Total(Lens(t), DOMAIN s) = Total(Lens(s), DOMAIN s)
    BY <1>3, <1>5, TotalSame
  <1>7. Lens(t)[n] = e.len /\ e.len \in Nat
    BY <1>1, <1>2
  <1> QED BY <1>2, <1>3, <1>4, <1>6, <1>7, PagesType DEF t

-----------------------------------------------------------------------------
(* The statistics *)

PhasePages(track) == [p \in Phase |-> PagesOf(track[p])]

(* The pages of the tracker are the sum of those of its phases. *)
LEMMA TrackedType ==
    ASSUME NEW track \in [Phase -> Seq(Entry)]
    PROVE  /\ Fn!SumFunction([p \in Phase |-> PagesOf(track[p])])
                = Total(PhasePages(track), Phase)
           /\ IsFiniteSet(Phase)
           /\ \A p \in Phase : PhasePages(track)[p] = PagesOf(track[p])
                                 /\ PhasePages(track)[p] \in Nat
           /\ Total(PhasePages(track), Phase) \in Nat
  <1>1. Fn!SumFunction([p \in Phase |-> PagesOf(track[p])])
          = Total(PhasePages(track), Phase)
    BY SumFunctionIsTotal DEF PhasePages
  <1>2. IsFiniteSet(Phase)
    BY AllocatorAssumption, FS_Interval DEF Phase
  <1>3. ASSUME NEW p \in Phase
        PROVE  /\ PhasePages(track)[p] = PagesOf(track[p])
               /\ PhasePages(track)[p] \in Nat
    BY PagesType DEF PhasePages
  <1>4. Total(PhasePages(track), Phase) \in Nat
    BY <1>2, <1>3, TotalType
  <1> QED BY <1>1, <1>2, <1>3, <1>4

(* A mapping that is recorded adds its pages to those of its phase, and to *)
(* those of the tracker.                                                   *)
LEMMA TrackedGrows ==
    ASSUME ATypeOK, ATypeOK', curr \in Phase, NEW e \in Entry, Adds(e)
    PROVE  /\ PagesOf(alloc_track'[curr]) = PagesOf(alloc_track[curr]) + e.len
           /\ TrackedPages' = TrackedPages + e.len
  <1>1. /\ alloc_track[curr] \in Seq(Entry)
        /\ alloc_track'[curr] = Append(alloc_track[curr], e)
        /\ \A p \in Phase \ {curr} : alloc_track'[p] = alloc_track[p]
    BY DEF Adds, ATypeOK
  <1>2. PagesOf(alloc_track'[curr]) = PagesOf(alloc_track[curr]) + e.len
    BY <1>1, PagesOfAppend
  <1> DEFINE f == PhasePages(alloc_track)
             g == PhasePages(alloc_track')
  <1>3. /\ TrackedPages = Total(f, Phase)
        /\ IsFiniteSet(Phase)
        /\ \A p \in Phase : f[p] = PagesOf(alloc_track[p]) /\ f[p] \in Nat
    BY TrackedType DEF TrackedPages, ATypeOK
  <1>4. /\ TrackedPages' = Total(g, Phase)
        /\ \A p \in Phase : g[p] = PagesOf(alloc_track'[p]) /\ g[p] \in Nat
    BY TrackedType DEF TrackedPages, ATypeOK
  <1> HIDE DEF f, g
  <1>5. /\ g[curr] = f[curr] + e.len
        /\ \A p \in Phase \ {curr} : g[p] = f[p]
        /\ e.len \in Int
    <2>1. g[curr] = f[curr] + e.len
      BY <1>2, <1>3, <1>4
    <2>2. ASSUME NEW p \in Phase \ {curr} PROVE g[p] = f[p]
      BY <1>1, <1>3, <1>4
    <2>3. e.len \in Int
      BY DEF Entry
    <2> QED BY <2>1, <2>2, <2>3
  <1>6. Total(g, Phase) = Total(f, Phase) + e.len
    BY <1>3, <1>4, <1>5, TotalUpdate
  <1> QED BY <1>2, <1>3, <1>4, <1>6

(* Pages are counted where a mapping is made, and nowhere else. *)
LEMMA OnlyMappedCounts ==
    ASSUME ATypeOK, [ANext]_avars, ~track_added, ~track_full
    PROVE  /\ UNCHANGED <<file_cnt, anon_cnt, total_alloc_pages, alloc_track>>
           /\ failed' = failed \/ (failed = "no" /\ failed' # "tracker")
  <1> USE DEF settings, pool, tracker, counters, trans
  <1> DEFINE Kept == /\ UNCHANGED <<file_cnt, anon_cnt, total_alloc_pages,
                                    alloc_track>>
                     /\ failed' = failed \/ (failed = "no" /\ failed' # "tracker")
  <1>1. ASSUME NEW l \in LimitArgs, Configuring, set_max_limit(l)
        PROVE  Kept
    BY <1>1 DEF set_max_limit
  <1>2. ASSUME NEW s \in SpeedArgs, Configuring, set_speed(s)
        PROVE  Kept
    BY <1>2 DEF set_speed
  <1>3. ASSUME NEW n \in PerPhaseArgs, Budgeting, reset_max_alloc_per_phase(n)
        PROVE  Kept
    BY <1>3 DEF reset_max_alloc_per_phase
  <1>4. CASE Configuring /\ (set_precise \/ locality_vector_init \/ set_file_cnt)
    BY <1>4 DEF set_precise, locality_vector_init, set_file_cnt
  <1>5. CASE (Between /\ (trans_begin \/ trans_refused)) \/ trans_end
    BY <1>5 DEF trans_begin, Between, trans_refused, trans_end
  <1>6. CASE file_refused
    BY <1>6 DEF file_refused
  <1>7. CASE open_failed
    BY <1>7, DrawType DEF open_failed
  <1>8. CASE map_failed
    BY <1>8, DrawType DEF map_failed
  <1>9. CASE track_overrun
    BY <1>9, DrawType DEF track_overrun, Mapped
  <1>10. CASE UNCHANGED avars
    BY <1>10 DEF avars
  <1> QED
    BY <1>1, <1>2, <1>3, <1>4, <1>5, <1>6, <1>7, <1>8, <1>9, <1>10
    DEF ANext, exited

(* Both types of a mapping are counted, and in the total as well. *)
LEMMA CountAdds ==
    ASSUME ATypeOK, NEW e \in Entry, Count(e),
           total_alloc_pages = file_cnt + anon_cnt
    PROVE  /\ total_alloc_pages' = total_alloc_pages + e.len
           /\ total_alloc_pages' = file_cnt' + anon_cnt'
           /\ e.len \in Nat \ {0}
  <1>1. e.len \in Nat \ {0} /\ e.type \in {"file", "anon"}
    BY DEF Entry, MemType
  <1> QED BY <1>1 DEF Count, ATypeOK

(* A mapping that finds the phase full is counted, but not recorded, and   *)
(* the program fails.                                                      *)
LEMMA FullCounts ==
    ASSUME ATypeOK, track_full
    PROVE  /\ \E e \in Entry : Count(e)
           /\ alloc_track' = alloc_track
           /\ failed = "no" /\ failed' = "tracker"
  <1>1. PICK t \in MemType, l \in randomize_alloc_len :
          \E n \in Paths(t, l) : Mapped(t, l, n) /\ Count(Mapping(t, l, n))
    BY DEF track_full
  <1>2. PICK n \in Paths(t, l) : Mapped(t, l, n) /\ Count(Mapping(t, l, n))
    BY <1>1
  <1>3. Mapping(t, l, n) \in Entry
    BY MappingType
  <1>4. failed = "no"
    BY <1>2, DrawType DEF Mapped
  <1> QED BY <1>2, <1>3, <1>4 DEF track_full, tracker

(* A step keeps the counters equal to the sums, except one that fails. *)
LEMMA StepAccounting ==
    ASSUME ATypeOK, Accounting, [ANext]_avars
    PROVE  Accounting'
  <1>0. ATypeOK'
    BY StepTypeOK
  <1>1. CASE ~track_added /\ ~track_full
    BY <1>1, OnlyMappedCounts DEF Accounting, TrackedPages
  <1>2. CASE track_full
    <2>1. PICK e \in Entry : Count(e)
      BY <1>2, FullCounts
    <2>2. /\ TrackedPages' = TrackedPages
          /\ failed = "no" /\ failed' = "tracker"
      BY <1>2, FullCounts DEF TrackedPages
    <2>3. total_alloc_pages \in Nat /\ total_alloc_pages = TrackedPages
      BY <2>2 DEF Accounting, ATypeOK
    <2> QED BY <2>1, <2>2, <2>3, CountAdds DEF Accounting
  <1>3. CASE track_added
    <2>1. PICK e \in Entry : Adds(e)
      BY <1>3, AddedMapping
    <2>2. curr \in Phase /\ failed' = failed /\ failed = "no"
      BY <1>3, DrawType DEF track_added, Mapped
    <2>3. TrackedPages' = TrackedPages + e.len
      BY <1>0, <2>1, <2>2, TrackedGrows
    <2>4. Count(e) /\ total_alloc_pages = TrackedPages
      BY <2>1, <2>2 DEF Adds, Accounting
    <2> QED BY <2>2, <2>3, <2>4, CountAdds DEF Accounting
  <1> QED BY <1>1, <1>2, <1>3

(* Every page counted is in the tracker, by its type and in total, however *)
(* the process ends: only the exit on a full phase leaves a mapping that   *)
(* is counted and recorded nowhere.                                        *)
THEOREM StatisticsRight == ASpec => []Accounting
  <1>1. AInit => Accounting
    <2> SUFFICES ASSUME AInit PROVE Accounting
      OBVIOUS
    <2>1. ATypeOK
      BY InitTypeOK
    <2>2. \A p \in Phase : PagesOf(alloc_track[p]) = 0
      BY PagesOfNone DEF AInit
    <2>3. TrackedPages = 0
      BY <2>1, <2>2, TrackedType, TotalZero DEF TrackedPages, ATypeOK
    <2> QED BY <2>3 DEF AInit, Accounting
  <1>2. ATypeOK /\ Accounting /\ [ANext]_avars => Accounting'
    BY StepAccounting
  <1> QED BY <1>1, <1>2, AllocatorTypeCorrect, PTL DEF ASpec

-----------------------------------------------------------------------------
(* The budget of a phase *)

(* The longest mapping is a positive number of pages. *)
LEMMA LongestType ==
    ASSUME ATypeOK
    PROVE  LongestMapping \in Nat \ {0}
  BY CappedType, FileListAssumption DEF LongestMapping, Class

(* Steps that leave the phase alone and do not add to cnt *)
LEMMA BudgetKept ==
    ASSUME ATypeOK, PhaseBudget,
           UNCHANGED <<tracker, in_transition, alloc_precision,
                       max_alloc_per_phase, max_alloc_per_phase_byte>>,
           cnt' \in Nat, cnt' <= cnt
    PROVE  PhaseBudget'
  <1>1. LongestMapping' = LongestMapping
    BY DEF LongestMapping, Capped
  <1>2. curr \in Phase => PagesOf(alloc_track[curr]) \in Nat
    BY PagesType DEF ATypeOK
  <1> QED BY <1>1, <1>2 DEF PhaseBudget, tracker, ATypeOK

(* A mapping adds to the phase what it takes off cnt, and the last one may *)
(* be longer than what is left.                                            *)
LEMMA StepPhaseBudget ==
    ASSUME ATypeOK, RoomLeft, PhaseBudget, [ANext]_avars
    PROVE  PhaseBudget'
  <1> USE DEF settings, pool, tracker, counters, trans
  <1>0. cnt \in Nat /\ (curr \in Phase => PagesOf(alloc_track[curr]) \in Nat)
    BY PagesType DEF ATypeOK
  <1>1. ASSUME NEW l \in LimitArgs, Configuring, set_max_limit(l)
        PROVE  PhaseBudget'
    BY <1>1 DEF set_max_limit, Configuring, Between, PhaseBudget
  <1>2. ASSUME NEW s \in SpeedArgs, Configuring, set_speed(s)
        PROVE  PhaseBudget'
    BY <1>2 DEF set_speed, Configuring, Between, PhaseBudget
  <1>3. CASE Configuring /\ (set_precise \/ locality_vector_init \/ set_file_cnt)
    BY <1>3
    DEF set_precise, locality_vector_init, set_file_cnt, Configuring, Between,
                PhaseBudget
  <1>4. ASSUME NEW n \in PerPhaseArgs, Budgeting, reset_max_alloc_per_phase(n)
        PROVE  PhaseBudget'
    BY <1>4 DEF reset_max_alloc_per_phase, Budgeting, Between, PhaseBudget
  <1>5. CASE Between /\ trans_begin
    <2>1. SUFFICES ASSUME alloc_precision', curr' \in Phase
                   PROVE  LET pages == PagesOf(alloc_track'[curr']) IN
                          /\ cnt' > 0 => pages + cnt' <= max_alloc_per_phase'
                          /\ pages < max_alloc_per_phase' + LongestMapping'
      BY DEF PhaseBudget
    <2>2. /\ curr' = curr + 1 /\ alloc_track' = alloc_track
          /\ cnt' = max_alloc_per_phase
          /\ max_alloc_per_phase' = max_alloc_per_phase
      BY <1>5, <2>1 DEF trans_begin, go_to_nxt_phase
    <2>3. alloc_track'[curr'] = <<>>
      BY <2>1, <2>2 DEF RoomLeft, ATypeOK
    <2>4. LongestMapping' = LongestMapping /\ LongestMapping \in Nat \ {0}
      BY <1>5, LongestType DEF trans_begin, LongestMapping, Capped
    <2> QED BY <2>2, <2>3, <2>4, PagesOfNone DEF ATypeOK
  <1>6. CASE (Between /\ trans_refused) \/ trans_end
    BY <1>0, <1>6, BudgetKept DEF trans_refused, trans_end, PhaseBudget
  <1>7. CASE file_refused
    <2>1. cnt > 0
      BY <1>7, DrawType DEF file_refused
    <2> QED BY <1>0, <1>7, <2>1, BudgetKept DEF file_refused
  <1>8. CASE open_failed \/ map_failed \/ track_overrun \/ track_full
    BY <1>0, <1>8, BudgetKept DEF open_failed, map_failed, track_overrun, track_full
  <1>9. CASE track_added
    <2>1. SUFFICES ASSUME alloc_precision', curr' \in Phase
                   PROVE  LET pages == PagesOf(alloc_track'[curr']) IN
                          /\ cnt' > 0 => pages + cnt' <= max_alloc_per_phase'
                          /\ pages < max_alloc_per_phase' + LongestMapping'
      BY DEF PhaseBudget
    <2>2. PICK e \in Entry : Adds(e) /\ e.len <= LongestMapping
      BY <1>9, AddedMapping
    <2>3. /\ UNCHANGED <<curr, in_transition, alloc_precision,
                         max_alloc_per_phase, max_alloc_per_phase_byte>>
          /\ in_transition /\ cnt > 0
      BY <1>9, DrawType DEF track_added, Mapped
    <2>4. LongestMapping' = LongestMapping
      BY <2>3 DEF LongestMapping, Capped
    <2>5. PagesOf(alloc_track'[curr]) = PagesOf(alloc_track[curr]) + e.len
      BY <2>1, <2>2, <2>3, StepTypeOK, TrackedGrows
    <2>6. PagesOf(alloc_track[curr]) + cnt <= max_alloc_per_phase
      BY <2>1, <2>3 DEF PhaseBudget
    <2>7. cnt' = IF e.len > cnt THEN 0 ELSE cnt - e.len
      BY <2>1, <2>2, <2>3 DEF Adds, CntAfter
    <2>8. /\ e.len \in Nat /\ LongestMapping \in Nat
          /\ PagesOf(alloc_track[curr]) \in Nat /\ max_alloc_per_phase \in Nat
      BY <1>0, <2>1, <2>3, LongestType DEF Entry, ATypeOK
    <2> QED BY <1>0, <2>2, <2>3, <2>4, <2>5, <2>6, <2>7, <2>8
  <1>10. CASE UNCHANGED avars
    BY <1>0, <1>10, BudgetKept DEF avars
  <1> QED
    BY <1>1, <1>2, <1>3, <1>4, <1>5, <1>6, <1>7, <1>8, <1>9, <1>10
    DEF ANext, exited

(* A precise budget is overshot by less than one mapping, whatever the     *)
(* files and the lengths drawn.  It needs RoomLeft, by which a phase       *)
(* begins empty.                                                           *)
THEOREM BudgetOvershotByOneMapping == ASpec => []PhaseBudget
  <1>1. AInit => PhaseBudget
    BY DEF AInit, PhaseBudget
  <1>2. ATypeOK /\ RoomLeft /\ PhaseBudget /\ [ANext]_avars => PhaseBudget'
    BY StepPhaseBudget
  <1> QED BY <1>1, <1>2, AllocatorTypeCorrect, RoomIsLeft, PTL DEF ASpec

-----------------------------------------------------------------------------
(* The ratio of the types *)

Anons == Cardinality(Mappings("anon"))
Files == Cardinality(Mappings("file"))

(* RatioKept is not inductive.  With a slice, it needs that what is left   *)
(* of cnt makes up for what is left of the slice; without one, that the    *)
(* attempts are as many as the mappings, so that a turn of the anonymous   *)
(* type comes once in FILE_RATIO mappings.  Which of the two holds does    *)
(* not change once there are phases.                                       *)
Balanced ==
    filled = {} =>
      /\ in_transition => curr >= 0
      /\ curr = -1 => type_cnt = 0 /\ Anons = 0 /\ Files = 0
      /\ failed = "no" /\ alloc_precision =>
           /\ type_cnt = Anons + Files
           /\ Anons > 0 => FILE_RATIO * Anons < type_cnt
           /\ in_transition => anon_slice < 0
      /\ failed = "no" /\ ~alloc_precision /\ in_transition =>
           /\ anon_slice >= 0
           /\ (FILE_RATIO - 1) * Anons + FILE_RATIO * anon_slice <= Files + cnt
      /\ RatioKept

(* Sets of pairs with the same pairs are the same. *)
LEMMA SamePairs ==
    ASSUME NEW P, NEW Q, NEW A \in SUBSET (P \X Q), NEW B \in SUBSET (P \X Q),
           \A p \in P, i \in Q : <<p, i>> \in A <=> <<p, i>> \in B
    PROVE  A = B
  OBVIOUS

(* The mappings of a type are finitely many, and recording one adds one.   *)
LEMMA MappingsFinite ==
    ASSUME NEW t
    PROVE  IsFiniteSet(Mappings(t)) /\ Cardinality(Mappings(t)) \in Nat
  <1>1. IsFiniteSet(Phase) /\ IsFiniteSet(1..MAX_ALLOC_PER_SE)
    BY AllocatorAssumption, FS_Interval DEF Phase
  <1>2. IsFiniteSet(Phase \X (1..MAX_ALLOC_PER_SE))
    BY <1>1, FS_Product
  <1> QED BY <1>2, FS_Subset, FS_CardinalityType DEF Mappings

(* Recording a mapping adds one to those of its type. *)
LEMMA MappingsGrow ==
    ASSUME ATypeOK, curr \in Phase, Len(alloc_track[curr]) < MAX_ALLOC_PER_SE,
           NEW e \in Entry, Adds(e), NEW t
    PROVE  Cardinality(Mappings(t)') =
             IF e.type = t THEN Cardinality(Mappings(t)) + 1
             ELSE Cardinality(Mappings(t))
  <1> DEFINE old == alloc_track[curr]
             m == <<curr, Len(old) + 1>>
  <1>1. /\ old \in Seq(Entry) /\ Len(old) \in Nat
        /\ alloc_track'[curr] = Append(old, e)
        /\ \A p \in Phase \ {curr} : alloc_track'[p] = alloc_track[p]
    BY DEF Adds, ATypeOK
  <1>2. m \in Phase \X (1..MAX_ALLOC_PER_SE) /\ m \notin Mappings(t)
    BY <1>1, AllocatorAssumption DEF Mappings
  <1>3. ASSUME NEW p \in Phase, NEW i \in 1..MAX_ALLOC_PER_SE
        PROVE  <<p, i>> \in Mappings(t)'
               <=> <<p, i>> \in Mappings(t) \/ (e.type = t /\ <<p, i>> = m)
    <2>1. CASE p # curr
      BY <1>1, <2>1 DEF Mappings
    <2>2. CASE p = curr
      <3>1. /\ Len(alloc_track'[p]) = Len(old) + 1
            /\ alloc_track'[p][Len(old) + 1] = e
            /\ \A j \in 1..Len(old) : alloc_track'[p][j] = old[j]
        BY <1>1, <2>2
      <3>2. CASE i <= Len(old)
        BY <1>1, <2>2, <3>1, <3>2 DEF Mappings
      <3>3. CASE i = Len(old) + 1
        BY <1>1, <2>2, <3>1, <3>3 DEF Mappings
      <3>4. CASE i > Len(old) + 1
        BY <1>1, <2>2, <3>1, <3>4 DEF Mappings
      <3> QED BY <1>1, <3>2, <3>3, <3>4
    <2> QED BY <2>1, <2>2
  <1>4. Mappings(t)' \subseteq Phase \X (1..MAX_ALLOC_PER_SE)
        /\ Mappings(t) \subseteq Phase \X (1..MAX_ALLOC_PER_SE)
    BY DEF Mappings
  <1>5. CASE e.type = t
    <2>1. Mappings(t)' = Mappings(t) \cup {m}
      BY <1>2, <1>3, <1>4, <1>5
    <2> QED BY <1>2, <1>5, <2>1, MappingsFinite, FS_AddElement
  <1>6. CASE e.type # t
    <2> DEFINE A == Mappings(t)'
               B == Mappings(t)
               I == 1..MAX_ALLOC_PER_SE
    <2>1. ASSUME NEW p \in Phase, NEW i \in I
          PROVE  <<p, i>> \in A <=> <<p, i>> \in B
      BY <1>3, <1>6
    <2>2. A \in SUBSET (Phase \X I) /\ B \in SUBSET (Phase \X I)
      BY <1>4
    <2> HIDE DEF A, B, I
    <2>3. A = B
      BY <2>1, <2>2, SamePairs
    <2> QED BY <1>6, <2>3 DEF A, B
  <1> QED BY <1>5, <1>6

(* A whole part, and as many times the divisor, are not above the number. *)
LEMMA WholePart ==
    ASSUME NEW r \in Nat \ {0}, NEW c \in Nat
    PROVE  c \div r \in Nat /\ r * (c \div r) <= c
  OBVIOUS

(* Two bounds add up. *)
LEMMA SumOfBounds ==
    ASSUME NEW a \in Int, NEW b \in Int, NEW c \in Int, NEW d \in Int,
           a <= c, b <= d
    PROVE  a + b <= c + d
  OBVIOUS

(* Between two mappings of its turn there are FILE_RATIO - 1 of the other. *)
LEMMA TurnComes ==
    ASSUME NEW r \in Nat \ {0}, NEW a \in Nat, NEW c \in Nat \ {0},
           c % r = 0, a > 0 => r * a < c
    PROVE  r * (a + 1) <= c
  <1> DEFINE k == c \div r
  <1>1. k \in Nat /\ c = r * k
    OBVIOUS
  <1> HIDE DEF k
  <1>2. k > 0
    BY <1>1
  <1>3. a < k
    <2>1. CASE a = 0
      BY <1>2, <2>1
    <2>2. CASE a > 0
      <3>1. r * a < r * k
        BY <1>1, <2>2
      <3> QED BY <1>1, <3>1
    <2> QED BY <2>1, <2>2
  <1> QED BY <1>1, <1>3

(* The mappings of each type can be counted. *)
LEMMA CountsType ==
    Anons \in Nat /\ Files \in Nat
  BY MappingsFinite DEF Anons, Files

(* Steps that record nothing, draw nothing and leave the slice alone *)
LEMMA BalancedKept ==
    ASSUME Balanced,
           UNCHANGED <<tracker, filled, in_transition, alloc_precision,
                       type_cnt, cnt, anon_slice>>,
           failed' = failed \/ failed' # "no"
    PROVE  Balanced'
  <1>1. Anons' = Anons /\ Files' = Files
    BY DEF Anons, Files, Mappings, tracker
  <1>2. RatioKept' <=> RatioKept
    BY DEF RatioKept, Mappings, tracker
  <1> QED BY <1>1, <1>2 DEF Balanced, tracker

(* A transition that fails *)
LEMMA BalancedFailed ==
    ASSUME Balanced, UNCHANGED <<tracker, in_transition>>, in_transition,
           filled \subseteq filled', failed' # "no"
    PROVE  Balanced'
  <1>1. filled' = {} => filled = {}
    OBVIOUS
  <1> QED BY <1>1 DEF Balanced, RatioKept, tracker

(* A turn of the loop that records a mapping *)
LEMMA BalancedAdds ==
    ASSUME ATypeOK, Balanced, track_added
    PROVE  Balanced'
  <1>1. PICK e \in Entry : Adds(e) /\ Drawn(e)
    BY AddedMapping
  <1>2. /\ curr \in Phase /\ Len(alloc_track[curr]) < MAX_ALLOC_PER_SE
        /\ UNCHANGED <<curr, in_transition, alloc_precision, failed>>
        /\ failed = "no" /\ in_transition /\ cnt > 0
    BY DrawType DEF track_added, Mapped, settings
  <1>3. filled \subseteq filled'
    BY <1>1 DEF Adds
  <1>4. SUFFICES ASSUME filled' = {} PROVE Balanced'
    BY DEF Balanced
  <1>5. filled = {}
    BY <1>3, <1>4
  <1>6. /\ Anons' = IF e.type = "anon" THEN Anons + 1 ELSE Anons
        /\ Files' = IF e.type = "file" THEN Files + 1 ELSE Files
        /\ e.type \in {"file", "anon"}
    BY <1>1, <1>2, MappingsGrow DEF Anons, Files, Entry, MemType
  <1>7. /\ Anons \in Nat /\ Files \in Nat /\ type_cnt \in Nat /\ cnt \in Nat
        /\ anon_slice \in Int /\ FILE_RATIO \in Nat \ {0} /\ curr \in Nat
    BY <1>2, CountsType, AllocatorAssumption DEF ATypeOK, Phase
  <1>8. RatioKept' /\ (in_transition' => curr' >= 0) /\ curr' # -1
    BY <1>2, <1>7 DEF RatioKept
  <1>9. CASE alloc_precision
    <2>1. /\ type_cnt = Anons + Files
          /\ Anons > 0 => FILE_RATIO * Anons < type_cnt
          /\ anon_slice < 0
      BY <1>2, <1>5, <1>9 DEF Balanced
    <2>2. type_cnt' = type_cnt + 1 /\ type_cnt' = Anons' + Files'
      BY <1>1, <1>6, <1>7, <2>1 DEF Drawn
    <2>3. anon_slice' < 0
      BY <1>1, <1>7, <2>1 DEF Drawn
    <2>4. Anons' > 0 => FILE_RATIO * Anons' < type_cnt'
      <3>1. CASE e.type = "anon"
        <4>1. type_cnt % FILE_RATIO = 0 /\ type_cnt # 0
          BY <1>1, <2>1, <3>1 DEF Drawn, randomize_alloc_type
        <4>2. FILE_RATIO * (Anons + 1) <= type_cnt
          BY <1>7, <2>1, <4>1, TurnComes
        <4>3. FILE_RATIO * (Anons + 1) \in Int
          BY <1>7
        <4> QED BY <1>6, <1>7, <2>2, <3>1, <4>2, <4>3
      <3>2. CASE e.type = "file"
        <4>1. FILE_RATIO * Anons \in Int
          BY <1>7
        <4> QED BY <1>6, <1>7, <2>1, <2>2, <3>2, <4>1
      <3> QED BY <1>6, <3>1, <3>2
    <2> QED BY <1>2, <1>8, <1>9, <2>2, <2>3, <2>4 DEF Balanced
  <1>10. CASE ~alloc_precision
    <2>1. /\ anon_slice >= 0
          /\ (FILE_RATIO - 1) * Anons + FILE_RATIO * anon_slice <= Files + cnt
      BY <1>2, <1>5, <1>10 DEF Balanced
    <2>2. cnt' = cnt - 1
      BY <1>1, <1>10 DEF Adds, CntAfter
    <2>3. /\ anon_slice' >= 0
          /\ (FILE_RATIO - 1) * Anons' + FILE_RATIO * anon_slice' <= Files' + cnt'
      <3>1. CASE e.type = "anon"
        <4>1. anon_slice > 0 /\ anon_slice' = anon_slice - 1
              /\ Anons' = Anons + 1 /\ Files' = Files
          BY <1>1, <1>6, <1>7, <2>1, <3>1 DEF Drawn, randomize_alloc_type
        <4>2. /\ (FILE_RATIO - 1) * (Anons + 1)
                   = (FILE_RATIO - 1) * Anons + (FILE_RATIO - 1)
              /\ FILE_RATIO * (anon_slice - 1) = FILE_RATIO * anon_slice - FILE_RATIO
          BY <1>7
        <4>3. (FILE_RATIO - 1) * Anons \in Int /\ FILE_RATIO * anon_slice \in Int
          BY <1>7
        <4> QED BY <1>7, <2>1, <2>2, <4>1, <4>2, <4>3
      <3>2. CASE e.type = "file"
        <4>1. anon_slice' = anon_slice /\ Anons' = Anons /\ Files' = Files + 1
          BY <1>1, <1>6, <3>2 DEF Drawn
        <4> QED BY <1>7, <2>1, <2>2, <4>1
      <3> QED BY <1>6, <3>1, <3>2
    <2> QED BY <1>2, <1>8, <1>10, <2>3 DEF Balanced
  <1> QED BY <1>9, <1>10

(* Each turn of randomize_alloc_type keeps the balance of the types, with  *)
(* a slice and without one.                                                *)
LEMMA StepBalanced ==
    ASSUME ATypeOK, Balanced, [ANext]_avars
    PROVE  Balanced'
  <1> USE DEF settings, pool, tracker, counters, trans
  <1>0. /\ filled \subseteq filled'
        /\ Anons \in Nat /\ Files \in Nat /\ FILE_RATIO \in Nat \ {0}
    BY OnlySearchFlags, CountsType, AllocatorAssumption
  <1>1. ASSUME NEW l \in LimitArgs, Configuring, set_max_limit(l)
        PROVE  Balanced'
    BY <1>1, BalancedKept DEF set_max_limit
  <1>2. ASSUME NEW s \in SpeedArgs, Configuring, set_speed(s)
        PROVE  Balanced'
    BY <1>2, BalancedKept DEF set_speed
  <1>3. ASSUME UNCHANGED <<tracker, filled, trans, type_cnt, failed>>,
               alloc_precision', ~in_transition, curr = -1 \/ alloc_precision
        PROVE  Balanced'
    <2>1. Anons' = Anons /\ Files' = Files /\ (RatioKept' <=> RatioKept)
      BY <1>3 DEF Anons, Files, RatioKept, Mappings
    <2> QED BY <1>3, <2>1 DEF Balanced
  <1>4. CASE Configuring /\ set_precise
    BY <1>3, <1>4 DEF set_precise, Configuring, Between
  <1>5. ASSUME NEW n \in PerPhaseArgs, Budgeting, reset_max_alloc_per_phase(n)
        PROVE  Balanced'
    BY <1>3, <1>5 DEF reset_max_alloc_per_phase, Budgeting, Between
  <1>6. CASE Configuring /\ (locality_vector_init \/ set_file_cnt)
    BY <1>6, BalancedKept DEF locality_vector_init, set_file_cnt
  <1>7. CASE Between /\ trans_begin
    <2>1. /\ curr' = curr + 1 /\ UNCHANGED <<filled, alloc_track, type_cnt, failed>>
          /\ alloc_precision' = alloc_precision
          /\ in_transition' /\ ~in_transition /\ failed = "no"
          /\ curr \in Int /\ curr >= -1
      BY <1>7
      DEF trans_begin, Between, go_to_nxt_phase, ATypeOK
    <2>2. Anons' = Anons /\ Files' = Files
      BY <2>1 DEF Anons, Files, Mappings
    <2>3. alloc_precision => anon_slice' < 0
      BY <1>7 DEF trans_begin
    <2>4. ASSUME filled = {}, ~alloc_precision
          PROVE  /\ anon_slice' >= 0
                 /\ (FILE_RATIO - 1) * Anons + FILE_RATIO * anon_slice' <= Files + cnt'
      <3>1. (FILE_RATIO - 1) * Anons <= Files
        BY <2>1, <2>4 DEF Balanced, RatioKept, Anons, Files
      <3>2. cnt' \in Nat /\ anon_slice' = cnt' \div FILE_RATIO
        BY <1>7, <2>4, AllocatorAssumption DEF trans_begin
      <3>3. anon_slice' \in Nat /\ FILE_RATIO * anon_slice' <= cnt'
        BY <1>0, <3>2, WholePart
      <3>4. /\ (FILE_RATIO - 1) * Anons \in Int /\ FILE_RATIO * anon_slice' \in Int
            /\ Files \in Int /\ cnt' \in Int
        BY <1>0, <3>2, <3>3
      <3>5. (FILE_RATIO - 1) * Anons + FILE_RATIO * anon_slice' <= Files + cnt'
        BY <3>1, <3>3, <3>4, SumOfBounds
      <3> QED BY <3>3, <3>5
    <2>5. RatioKept' /\ curr' >= 0 /\ curr' # -1
      BY <2>1 DEF RatioKept
    <2>6. filled = {} /\ alloc_precision =>
            /\ type_cnt = Anons + Files
            /\ Anons > 0 => FILE_RATIO * Anons < type_cnt
      BY <2>1 DEF Balanced
    <2> QED BY <2>1, <2>2, <2>3, <2>4, <2>5, <2>6 DEF Balanced
  <1>8. CASE Between /\ trans_refused
    BY <1>8, BalancedKept DEF trans_refused
  <1>9. CASE file_refused
    <2>1. PICK l \in randomize_alloc_len : Draw("file", l) /\ Fits(taken, l) = {}
      BY <1>9 DEF file_refused
    <2>2. PICK i \in Class : l = Size[i]
      BY FileListAssumption DEF randomize_alloc_len, ATypeOK, Class
    <2>3. i \in ScannedFull(taken, l)
      BY <2>1, <2>2, FileListAssumption DEF ScannedFull
    <2>4. filled' # {}
      BY <2>1, <2>3 DEF Draw
    <2> QED BY <2>4 DEF Balanced
  <1>10. CASE open_failed
    BY <1>0, <1>10, DrawType, BalancedFailed DEF open_failed
  <1>11. CASE map_failed
    BY <1>0, <1>11, DrawType, BalancedFailed DEF map_failed
  <1>12. CASE track_overrun
    BY <1>0, <1>12, DrawType, BalancedFailed DEF track_overrun, Mapped
  <1>13. CASE track_full
    BY <1>0, <1>13, FullCounts, DrawType, BalancedFailed DEF track_full, Mapped
  <1>14. CASE track_added
    BY <1>14, BalancedAdds
  <1>15. CASE trans_end
    <2>1. /\ UNCHANGED <<curr, alloc_track, filled, type_cnt, failed, alloc_precision>>
          /\ in_transition /\ cnt = 0 /\ ~in_transition' /\ failed = "no"
      BY <1>15 DEF trans_end
    <2>2. Anons' = Anons /\ Files' = Files
      BY <2>1 DEF Anons, Files, Mappings
    <2>3. ASSUME filled = {}
          PROVE  (FILE_RATIO - 1) * Anons <= Files
      <3>1. CASE alloc_precision
        <4>1. /\ type_cnt = Anons + Files
              /\ Anons > 0 => FILE_RATIO * Anons < type_cnt
          BY <2>1, <2>3, <3>1 DEF Balanced
        <4>2. (FILE_RATIO - 1) * Anons = FILE_RATIO * Anons - Anons
          BY <1>0
        <4>3. FILE_RATIO * Anons \in Int /\ (Anons = 0 => FILE_RATIO * Anons = 0)
          BY <1>0
        <4> QED BY <1>0, <4>1, <4>2, <4>3
      <3>2. CASE ~alloc_precision
        <4>1. /\ anon_slice >= 0 /\ anon_slice \in Int
              /\ (FILE_RATIO - 1) * Anons + FILE_RATIO * anon_slice <= Files + 0
          BY <2>1, <2>3, <3>2 DEF Balanced, ATypeOK
        <4>2. FILE_RATIO * anon_slice \in Nat /\ (FILE_RATIO - 1) * Anons \in Int
          BY <1>0, <4>1
        <4> QED BY <1>0, <4>1, <4>2
      <3> QED BY <3>1, <3>2
    <2>4. filled' = {} => RatioKept'
      BY <2>1, <2>2, <2>3 DEF RatioKept, Anons, Files
    <2> QED BY <2>1, <2>2, <2>4 DEF Balanced
  <1>16. CASE UNCHANGED avars
    BY <1>16, BalancedKept DEF avars
  <1> QED
    BY <1>1, <1>2, <1>4, <1>5, <1>6, <1>7, <1>8, <1>9, <1>10, <1>11, <1>12,
       <1>13, <1>14, <1>15, <1>16 DEF ANext, exited

(* Until a class runs out there are FILE_RATIO - 1 file mappings for each  *)
(* anonymous one after every transition, with a slice and without.         *)
THEOREM RatioOfTypesKept == ASpec => []RatioKept
  <1>1. AInit => Balanced
    <2> SUFFICES ASSUME AInit PROVE Balanced
      OBVIOUS
    <2>1. \A t : Mappings(t) = {}
      BY DEF AInit, Mappings
    <2>2. Anons = 0 /\ Files = 0
      BY <2>1, FS_EmptySet DEF Anons, Files
    <2>3. RatioKept
      BY <2>2, AllocatorAssumption DEF RatioKept, Anons, Files
    <2> QED BY <2>2, <2>3 DEF AInit, Balanced
  <1>2. ATypeOK /\ Balanced /\ [ANext]_avars => Balanced'
    BY StepBalanced
  <1>3. Balanced => RatioKept
    BY DEF Balanced, RatioKept
  <1> QED BY <1>1, <1>2, <1>3, AllocatorTypeCorrect, PTL DEF ASpec

=============================================================================
