-------------------------- MODULE AllocatorProofs ---------------------------
(***************************************************************************)
(* Theorems about the allocator, for every drive, every size of the        *)
(* tracker and every command line.                                         *)
(***************************************************************************)
EXTENDS Allocator, ArithmeticLemmas

(* A length asked for, and a length mapped, is a positive number of pages; *)
(* what is taken off cnt leaves it a natural number below what it was.     *)
LEMMA LenType ==
    ASSUME ATypeOK, NEW l \in randomize_alloc_len
    PROVE  l \in Nat \ {0}
  BY FileListAssumption DEF ATypeOK, randomize_alloc_len, Class

(* A cap shortens a mapping, and never to nothing. *)
LEMMA CappedType ==
    ASSUME ATypeOK, NEW l \in Nat \ {0}
    PROVE  Capped(l) \in Nat \ {0} /\ Capped(l) <= l
  BY DEF ATypeOK, Capped

(* Each mapping takes something off cnt, which stays unsigned. *)
LEMMA CntAfterType ==
    ASSUME ATypeOK, cnt > 0, NEW l \in Nat \ {0}
    PROVE  CntAfter(l) \in Nat /\ CntAfter(l) < cnt
  BY DEF ATypeOK, CntAfter

(* The path found is a path of the drive that was not in use. *)
LEMMA PathType ==
    ASSUME NEW l, NEW n \in get_file_path(taken, l)
    PROVE  n \in Node /\ n \notin taken /\ n # NULL /\ n[1] \in Class
  <1>1. n \in Node /\ n \notin taken
    BY DEF get_file_path, Fits
  <1>2. n # NULL
    BY <1>1, FileListAssumption
  <1>3. n[1] \in Class
    BY <1>1 DEF Node
  <1> QED BY <1>1, <1>2, <1>3

(* A mapping that is made is an entry of the tracker, with a path that was *)
(* free if it is of a file.                                                *)
LEMMA MappingType ==
    ASSUME ATypeOK, NEW t \in MemType, NEW l \in randomize_alloc_len,
           NEW n \in Paths(t, l)
    PROVE  /\ Mapping(t, l, n) \in Entry
           /\ Mapping(t, l, n).addr = n
           /\ Mapping(t, l, n).type = t
           /\ t = "file" => n \in Node /\ n \notin taken /\ n # NULL
           /\ t = "anon" => n = NULL
  <1> DEFINE whole == IF t = "file" THEN Size[n[1]] ELSE l
  <1>1. CASE t = "file"
    <2>1. n \in Node /\ n \notin taken /\ n # NULL /\ n[1] \in Class
      BY <1>1, PathType DEF Paths
    <2>2. whole \in Nat \ {0}
      BY <1>1, <2>1, FileListAssumption
    <2>3. Capped(whole) \in Nat \ {0}
      BY <2>2, CappedType
    <2> QED BY <1>1, <2>1, <2>3 DEF Mapping, Entry, MemType
  <1>2. CASE t = "anon"
    <2>1. n = NULL
      BY <1>2 DEF Paths
    <2>2. Capped(whole) \in Nat \ {0}
      BY <1>2, LenType, CappedType
    <2> QED BY <1>2, <2>1, <2>2 DEF Mapping, Entry, MemType
  <1> QED BY <1>1, <1>2 DEF MemType

(* What every draw leaves behind, whatever comes of the attempt *)
LEMMA DrawType ==
    ASSUME ATypeOK, NEW t, NEW l, Draw(t, l)
    PROVE  /\ failed = "no" /\ in_transition /\ cnt > 0
           /\ t \in MemType
           /\ type_cnt' \in Nat
           /\ filled' \in SUBSET Class
  BY DEF Draw, InLoop, ATypeOK, randomize_alloc_type, MemType, ScannedFull

(* What recording the mapping e does to the state *)
Adds(e) ==
    /\ cnt > 0
    /\ alloc_track' = [alloc_track EXCEPT ![curr] = Append(@, e)]
    /\ \/ /\ e.type = "file"
          /\ e.addr \in Node \ taken
          /\ taken' = taken \cup {e.addr}
          /\ fds < rlimit /\ fds' = fds + 1
       \/ /\ e.type = "anon"
          /\ e.addr = NULL
          /\ taken' = taken
          /\ fds' = fds
    /\ \/ filled' = filled
       \/ \E l \in Nat : filled' = filled \cup ScannedFull(taken, l)
    /\ Count(e)
    /\ cnt' = CntAfter(e.len)
    /\ anon_slice' \in Int
    /\ type_cnt' \in Nat

(* Where its type comes from, and what it costs of the slice *)
Drawn(e) ==
    /\ e.type \in randomize_alloc_type
    /\ type_cnt' = type_cnt + 1
    /\ anon_slice' = IF e.type = "anon" THEN anon_slice - 1 ELSE anon_slice

(* No mapping is longer than the largest file, or than the cap. *)
LEMMA MappingLen ==
    ASSUME ATypeOK, NEW t \in MemType, NEW l \in randomize_alloc_len,
           NEW n \in Paths(t, l)
    PROVE  Mapping(t, l, n).len <= LongestMapping
  <1> DEFINE whole == IF t = "file" THEN Size[n[1]] ELSE l
  <1>1. ASSUME NEW i \in Class
        PROVE  Size[i] \in Nat /\ Size[i] <= Size[max - 1]
    <2>1. /\ i \in Int /\ i <= max - 1 /\ max - 1 \in Class
          /\ Size[i] \in Nat /\ Size[max - 1] \in Nat
      BY FileListAssumption DEF Class
    <2>2. i < max - 1 => Size[i] < Size[max - 1]
      BY <2>1, FileListAssumption
    <2>3. i = max - 1 \/ i < max - 1
      BY <2>1, FileListAssumption
    <2> QED BY <2>1, <2>2, <2>3
  <1>2. whole \in Nat /\ whole <= Size[max - 1] /\ Size[max - 1] \in Nat
    <2>1. CASE t = "file"
      BY <1>1, <2>1, PathType, FileListAssumption DEF Paths, Class
    <2>2. CASE t # "file"
      <3>1. \E i \in Class : l = Size[i]
        BY FileListAssumption DEF randomize_alloc_len, ATypeOK, Class
      <3> QED BY <1>1, <2>2, <3>1, FileListAssumption DEF Class
    <2> QED BY <2>1, <2>2
  <1> HIDE DEF whole
  <1>3. Capped(whole) <= Capped(Size[max - 1])
    BY <1>2 DEF Capped, ATypeOK
  <1> QED BY <1>3 DEF Mapping, LongestMapping, whole

(* A mapping that is recorded is one of these. *)
LEMMA AddedMapping ==
    ASSUME ATypeOK, track_added
    PROVE  \E e \in Entry : Adds(e) /\ Drawn(e) /\ e.len <= LongestMapping
  <1>1. PICK t \in MemType, l \in randomize_alloc_len : \E n \in Paths(t, l) :
          LET e == Mapping(t, l, n) IN
          /\ Mapped(t, l, n)
          /\ alloc_track' = [alloc_track EXCEPT ![curr] = Append(@, e)]
          /\ Count(e)
          /\ taken' = IF t = "file" THEN taken \cup {n} ELSE taken
          /\ cnt' = CntAfter(e.len)
          /\ anon_slice' = IF t = "anon" THEN anon_slice - 1 ELSE anon_slice
    BY DEF track_added
  <1>2. PICK n \in Paths(t, l) :
          LET e == Mapping(t, l, n) IN
          /\ Mapped(t, l, n)
          /\ alloc_track' = [alloc_track EXCEPT ![curr] = Append(@, e)]
          /\ Count(e)
          /\ taken' = IF t = "file" THEN taken \cup {n} ELSE taken
          /\ cnt' = CntAfter(e.len)
          /\ anon_slice' = IF t = "anon" THEN anon_slice - 1 ELSE anon_slice
    BY <1>1
  <1> DEFINE e == Mapping(t, l, n)
  <1>3. /\ e \in Entry /\ e.addr = n /\ e.type = t
        /\ t = "file" => n \in Node \ taken
        /\ t = "anon" => n = NULL
        /\ e.len <= LongestMapping
    BY MappingType, MappingLen
  <1> HIDE DEF e
  <1>4. /\ Mapped(t, l, n)
        /\ alloc_track' = [alloc_track EXCEPT ![curr] = Append(@, e)]
        /\ Count(e)
        /\ taken' = IF t = "file" THEN taken \cup {n} ELSE taken
        /\ cnt' = CntAfter(e.len)
        /\ anon_slice' = IF t = "anon" THEN anon_slice - 1 ELSE anon_slice
    BY <1>2 DEF e
  <1>5. l \in Nat /\ cnt > 0 /\ type_cnt' \in Nat /\ anon_slice' \in Int
    BY <1>4, LenType, DrawType DEF Mapped, ATypeOK
  <1>6. \/ filled' = filled
        \/ filled' = filled \cup ScannedFull(taken, l)
    BY <1>4 DEF Mapped, Draw
  <1>7. \/ t = "file" /\ fds < rlimit /\ fds' = fds + 1
        \/ t = "anon" /\ fds' = fds
    BY <1>4 DEF Mapped, Opens, MemType
  <1>8. Adds(e)
    BY <1>3, <1>4, <1>5, <1>6, <1>7 DEF Adds
  <1>9. Drawn(e)
    BY <1>3, <1>4 DEF Drawn, Mapped, Draw
  <1> QED BY <1>3, <1>8, <1>9

-----------------------------------------------------------------------------

(* The types hold at the start. *)
LEMMA InitTypeOK == AInit => ATypeOK
  <1> SUFFICES ASSUME AInit PROVE ATypeOK
    OBVIOUS
  <1>1. speed \in Class
    BY FileListAssumption DEF AInit, Class
  <1>2. alloc_track \in [Phase -> Seq(Entry)]
    BY DEF AInit
  <1>3. curr \in -1..MAX_ALLOC /\ MAX_TRANSITION_CNT \in Nat
    BY AllocatorAssumption DEF AInit
  <1>4. /\ taken \in SUBSET Node /\ filled \in SUBSET Class
        /\ failed \in Failure
        /\ alloc_precision \in BOOLEAN /\ in_transition \in BOOLEAN
    BY DEF AInit, Failure
  <1>5. /\ max_limit \in Nat /\ max_alloc_per_phase \in Nat
        /\ max_alloc_per_phase_byte \in Nat /\ rlimit \in Nat /\ fds \in Nat
        /\ file_cnt \in Nat /\ anon_cnt \in Nat /\ total_alloc_pages \in Nat
        /\ type_cnt \in Nat /\ cnt \in Nat /\ anon_slice \in Int
    BY <1>3, AllocatorAssumption DEF AInit, STD_FDS
  <1> QED
    BY <1>1, <1>2, <1>3, <1>4, <1>5 DEF AInit, ATypeOK

(* A step of the allocator keeps the types. *)
LEMMA StepTypeOK == ATypeOK /\ [ANext]_avars => ATypeOK'
  <1> SUFFICES ASSUME ATypeOK, [ANext]_avars
               PROVE  ATypeOK'
    OBVIOUS
  <1> USE DEF settings, pool, tracker, counters, trans
  <1>1. ASSUME NEW l \in LimitArgs, Configuring, set_max_limit(l)
        PROVE  ATypeOK'
    BY <1>1, AllocatorAssumption DEF set_max_limit, ATypeOK
  <1>2. ASSUME NEW s \in SpeedArgs, Configuring, set_speed(s)
        PROVE  ATypeOK'
    BY <1>2, AllocatorAssumption, FileListAssumption
    DEF set_speed, ATypeOK, Class
  <1>3. CASE Configuring /\ set_precise
    BY <1>3 DEF set_precise, ATypeOK
  <1>4. ASSUME NEW n \in PerPhaseArgs, Budgeting, reset_max_alloc_per_phase(n)
        PROVE  ATypeOK'
    <2>1. n \in Nat /\ n % PAGE_WRAP \in Nat
      BY AllocatorAssumption
    <2> QED BY <1>4, <2>1 DEF reset_max_alloc_per_phase, ATypeOK
  <1>5. CASE Configuring /\ locality_vector_init
    BY <1>5 DEF locality_vector_init, ATypeOK
  <1>6. CASE Configuring /\ set_file_cnt
    BY <1>6, AllocatorAssumption DEF set_file_cnt, ATypeOK
  <1>7. CASE Between /\ trans_begin
    <2>1. curr' \in -1..MAX_ALLOC
      BY <1>7, AllocatorAssumption DEF trans_begin, go_to_nxt_phase, ATypeOK
    <2>2. cnt' \in Nat /\ anon_slice' \in Int
      BY <1>7, AllocatorAssumption DEF trans_begin, ATypeOK
    <2> QED BY <1>7, <2>1, <2>2 DEF trans_begin, ATypeOK
  <1>8. CASE Between /\ trans_refused
    BY <1>8 DEF trans_refused, ATypeOK, Failure
  <1>9. CASE file_refused
    BY <1>9, DrawType DEF file_refused, ATypeOK
  <1>10. CASE open_failed
    BY <1>10, DrawType DEF open_failed, ATypeOK, Failure
  <1>11. CASE map_failed
    BY <1>11, DrawType DEF map_failed, Opens, ATypeOK, Failure
  <1>12. CASE track_overrun
    BY <1>12, DrawType DEF track_overrun, Mapped, Opens, ATypeOK, Failure
  <1>13. CASE track_full
    <2>1. PICK t \in MemType, l \in randomize_alloc_len :
            \E n \in Paths(t, l) : Mapped(t, l, n) /\ Count(Mapping(t, l, n))
      BY <1>13 DEF track_full
    <2>2. PICK n \in Paths(t, l) : Mapped(t, l, n) /\ Count(Mapping(t, l, n))
      BY <2>1
    <2>3. Mapping(t, l, n).len \in Nat
      BY MappingType DEF Entry
    <2>4. fds' \in Nat /\ type_cnt' \in Nat /\ filled' \in SUBSET Class
      BY <2>2, DrawType DEF Mapped, Opens, ATypeOK
    <2>5. /\ file_cnt' \in Nat
          /\ anon_cnt' \in Nat
          /\ total_alloc_pages' \in Nat
      BY <2>2, <2>3 DEF Count, ATypeOK
    <2> QED BY <1>13, <2>4, <2>5 DEF track_full, ATypeOK, Failure
  <1>14. CASE track_added
    <2>1. PICK e \in Entry : Adds(e)
      BY <1>14, AddedMapping
    <2>2. e.len \in Nat \ {0} /\ e.addr \in Node \cup {NULL}
      BY DEF Entry
    <2>3. fds' \in Nat /\ type_cnt' \in Nat /\ filled' \in SUBSET Class
      BY <2>1 DEF Adds, ATypeOK, ScannedFull
    <2>4. /\ file_cnt' \in Nat
          /\ anon_cnt' \in Nat
          /\ total_alloc_pages' \in Nat
      <3>1. Count(e)
        BY <2>1 DEF Adds
      <3> QED BY <3>1, <2>2 DEF Count, ATypeOK
    <2>5. cnt' \in Nat /\ anon_slice' \in Int
      BY <2>1, <2>2, CntAfterType DEF Adds, ATypeOK
    <2>6. alloc_track' \in [Phase -> Seq(Entry)]
      BY <1>14, <2>1 DEF track_added, Adds, ATypeOK
    <2>7. taken' \in SUBSET Node
      BY <2>1 DEF Adds, ATypeOK
    <2> QED
      BY <1>14, <2>3, <2>4, <2>5, <2>6, <2>7 DEF track_added, ATypeOK
  <1>15. CASE trans_end
    BY <1>15 DEF trans_end, ATypeOK
  <1>16. CASE UNCHANGED avars
    BY <1>16 DEF avars, ATypeOK
  <1> QED
    BY <1>1, <1>2, <1>3, <1>4, <1>5, <1>6, <1>7, <1>8, <1>9, <1>10, <1>11,
       <1>12, <1>13, <1>14, <1>15, <1>16 DEF ANext, exited

(* The type invariant: every variable of the allocator keeps its C type;   *)
(* cnt, an unsigned long, never goes below zero.                           *)
THEOREM AllocatorTypeCorrect == ASpec => []ATypeOK
  BY InitTypeOK, StepTypeOK, PTL DEF ASpec

-----------------------------------------------------------------------------
(* The file list: no path is used twice, and filled means full. *)

(* Paths are taken, and the tracker grows, in track_added only. *)
LEMMA OnlyAddedTakes ==
    ASSUME [ANext]_avars, ~track_added
    PROVE  taken' = taken /\ alloc_track' = alloc_track
  <1> USE DEF settings, pool, tracker, counters, trans, avars
  <1>1. ASSUME NEW l \in LimitArgs, Configuring, set_max_limit(l)
        PROVE  taken' = taken /\ alloc_track' = alloc_track
    BY <1>1 DEF set_max_limit
  <1>2. ASSUME NEW s \in SpeedArgs, Configuring, set_speed(s)
        PROVE  taken' = taken /\ alloc_track' = alloc_track
    BY <1>2 DEF set_speed
  <1>3. ASSUME NEW n \in PerPhaseArgs, Budgeting, reset_max_alloc_per_phase(n)
        PROVE  taken' = taken /\ alloc_track' = alloc_track
    BY <1>3 DEF reset_max_alloc_per_phase
  <1>4. CASE Configuring /\ (set_precise \/ locality_vector_init \/ set_file_cnt)
    BY <1>4 DEF set_precise, locality_vector_init, set_file_cnt
  <1>5. CASE (Between /\ (trans_begin \/ trans_refused)) \/ trans_end
    BY <1>5 DEF trans_begin, trans_refused, trans_end
  <1>6. CASE file_refused \/ open_failed \/ map_failed \/ track_overrun \/ track_full
    BY <1>6 DEF file_refused, open_failed, map_failed, track_overrun, track_full
  <1>7. CASE UNCHANGED avars
    BY <1>7
  <1> QED
    BY <1>1, <1>2, <1>3, <1>4, <1>5, <1>6, <1>7 DEF ANext, exited

(* A class is flagged only by a search that finds nothing left in it. *)
LEMMA OnlySearchFlags ==
    ASSUME ATypeOK, [ANext]_avars
    PROVE  \/ filled' = filled
           \/ \E l : filled' = filled \cup ScannedFull(taken, l)
  <1> USE DEF settings, pool, tracker, counters, trans, avars
  <1>1. ASSUME NEW l \in LimitArgs, Configuring, set_max_limit(l)
        PROVE  filled' = filled
    BY <1>1 DEF set_max_limit
  <1>2. ASSUME NEW s \in SpeedArgs, Configuring, set_speed(s)
        PROVE  filled' = filled
    BY <1>2 DEF set_speed
  <1>3. ASSUME NEW n \in PerPhaseArgs, Budgeting, reset_max_alloc_per_phase(n)
        PROVE  filled' = filled
    BY <1>3 DEF reset_max_alloc_per_phase
  <1>4. CASE Configuring /\ (set_precise \/ locality_vector_init \/ set_file_cnt)
    BY <1>4 DEF set_precise, locality_vector_init, set_file_cnt
  <1>5. CASE (Between /\ (trans_begin \/ trans_refused)) \/ trans_end
    BY <1>5 DEF trans_begin, trans_refused, trans_end
  <1>6. CASE file_refused \/ open_failed
    BY <1>6 DEF file_refused, open_failed, Draw
  <1>7. CASE map_failed
    BY <1>7 DEF map_failed, Draw
  <1>8. CASE track_overrun \/ track_full
    BY <1>8 DEF track_overrun, track_full, Mapped, Draw
  <1>9. CASE track_added
    BY <1>9 DEF track_added, Mapped, Draw
  <1>10. CASE UNCHANGED avars
    BY <1>10
  <1> QED
    BY <1>1, <1>2, <1>3, <1>4, <1>5, <1>6, <1>7, <1>8, <1>9, <1>10
    DEF ANext, exited

(* A mapping takes a path that no entry has; no other step records one. *)
LEMMA StepFilesUsedOnce ==
    ASSUME ATypeOK, FilesUsedOnce, [ANext]_avars
    PROVE  FilesUsedOnce'
  <1>1. CASE ~track_added
    BY <1>1, OnlyAddedTakes DEF FilesUsedOnce
  <1>2. CASE track_added
    <2>1. PICK e \in Entry : Adds(e)
      BY <1>2, AddedMapping
    <2>2. curr \in Phase
      BY <1>2 DEF track_added
    <2> DEFINE old == alloc_track[curr]
    <2>3. /\ old \in Seq(Entry)
          /\ alloc_track \in [Phase -> Seq(Entry)]
      BY <2>2 DEF ATypeOK
    <2>4. /\ DOMAIN alloc_track'[curr] = DOMAIN old \cup {Len(old) + 1}
          /\ alloc_track'[curr][Len(old) + 1] = e
          /\ \A i \in DOMAIN old : alloc_track'[curr][i] = old[i]
          /\ Len(old) + 1 \notin DOMAIN old
      BY <2>1, <2>2, <2>3 DEF Adds
    <2>5. \A p \in Phase \ {curr} : alloc_track'[p] = alloc_track[p]
      BY <2>1, <2>2, <2>3 DEF Adds
    <2>6. /\ e.addr \in Node \cup {NULL}
          /\ e.addr # NULL => e.addr \in Node \ taken /\ taken' = taken \cup {e.addr}
          /\ e.addr = NULL => taken' = taken
      BY <2>1, FileListAssumption DEF Adds, Entry
    <2>7. \A p \in Phase : \A i \in DOMAIN alloc_track[p] :
            alloc_track[p][i].addr # e.addr \/ e.addr = NULL
      BY <2>6 DEF FilesUsedOnce
    <2>8. taken' = {n \in Node : \E p \in Phase : \E i \in DOMAIN alloc_track'[p] :
                                   alloc_track'[p][i].addr = n}
      <3>1. ASSUME NEW n \in Node
            PROVE  n \in taken' <=> n \in taken \/ n = e.addr
        BY <2>6, FileListAssumption
      <3>2. ASSUME NEW n \in Node
            PROVE  (\E p \in Phase : \E i \in DOMAIN alloc_track'[p] :
                      alloc_track'[p][i].addr = n)
                   <=> n \in taken \/ n = e.addr
        <4>1. ASSUME NEW p \in Phase, NEW i \in DOMAIN alloc_track[p],
                     alloc_track[p][i].addr = n
              PROVE  i \in DOMAIN alloc_track'[p] /\ alloc_track'[p][i].addr = n
          BY <4>1, <2>4, <2>5
        <4>2. ASSUME NEW p \in Phase, NEW i \in DOMAIN alloc_track'[p],
                     alloc_track'[p][i].addr = n
              PROVE  n = e.addr \/ (i \in DOMAIN alloc_track[p] /\ alloc_track[p][i].addr = n)
          BY <4>2, <2>4, <2>5
        <4>3. n \in taken <=> \E p \in Phase : \E i \in DOMAIN alloc_track[p] :
                                alloc_track[p][i].addr = n
          BY DEF FilesUsedOnce
        <4> QED BY <4>1, <4>2, <4>3, <2>2, <2>4
      <3>3. taken' \subseteq Node
        BY <2>6 DEF ATypeOK
      <3> QED BY <3>1, <3>2, <3>3
    <2>9. ASSUME NEW p \in Phase, NEW q \in Phase,
                 NEW i \in DOMAIN alloc_track'[p], NEW j \in DOMAIN alloc_track'[q],
                 alloc_track'[p][i].addr = alloc_track'[q][j].addr,
                 alloc_track'[p][i].addr # NULL
          PROVE  p = q /\ i = j
      <3>1. CASE i \in DOMAIN alloc_track[p] /\ j \in DOMAIN alloc_track[q]
        <4>1. /\ alloc_track'[p][i] = alloc_track[p][i]
              /\ alloc_track'[q][j] = alloc_track[q][j]
          BY <3>1, <2>4, <2>5
        <4> QED BY <4>1, <3>1, <2>9 DEF FilesUsedOnce
      <3>2. CASE i \notin DOMAIN alloc_track[p]
        <4>1. p = curr /\ i = Len(old) + 1 /\ alloc_track'[p][i] = e
          BY <3>2, <2>4, <2>5
        <4>2. j \notin DOMAIN alloc_track[q]
          BY <4>1, <2>4, <2>5, <2>7, <2>9
        <4>3. q = curr /\ j = Len(old) + 1
          BY <4>2, <2>4, <2>5
        <4> QED BY <4>1, <4>3
      <3>3. CASE j \notin DOMAIN alloc_track[q]
        <4>1. q = curr /\ j = Len(old) + 1 /\ alloc_track'[q][j] = e
          BY <3>3, <2>4, <2>5
        <4>2. i \notin DOMAIN alloc_track[p]
          BY <4>1, <2>4, <2>5, <2>7, <2>9
        <4>3. p = curr /\ i = Len(old) + 1
          BY <4>2, <2>4, <2>5
        <4> QED BY <4>1, <4>3
      <3> QED BY <3>1, <3>2, <3>3
    <2> QED BY <2>8, <2>9 DEF FilesUsedOnce
  <1> QED BY <1>1, <1>2

(* A file is mapped once: the alloc flags are exactly the paths the tracker *)
(* holds, and no two entries of it, of one phase or of two, share a path.   *)
THEOREM EachFileMappedOnce == ASpec => []FilesUsedOnce
  <1>1. AInit => FilesUsedOnce
    BY DEF AInit, FilesUsedOnce
  <1>2. ATypeOK /\ FilesUsedOnce /\ [ANext]_avars => FilesUsedOnce'
    BY StepFilesUsedOnce
  <1> QED BY <1>1, <1>2, AllocatorTypeCorrect, PTL DEF ASpec

(* Of any paths of the drive there is a first one in the order of a scan. *)
LEMMA FirstPath ==
    ASSUME NEW T \in SUBSET Node, T # {}
    PROVE  \E n \in T : \A m \in T : ScannedBefore(n, m)
  <1>1. \A n \in T : n = <<n[1], n[2]>> /\ n[1] \in Nat /\ n[2] \in Nat
    BY FileListAssumption DEF Node, Class
  <1> DEFINE I == {n[1] : n \in T}
  <1>2. PICK i \in I : \A j \in I : i <= j
    <2>1. I \in SUBSET Nat /\ I # {}
      BY <1>1
    <2> HIDE DEF I
    <2> QED BY <2>1, LeastNat
  <1> DEFINE K == {n[2] : n \in {m \in T : m[1] = i}}
  <1>3. PICK k \in K : \A j \in K : k <= j
    <2>1. K \in SUBSET Nat /\ K # {}
      BY <1>1, <1>2
    <2> HIDE DEF K
    <2> QED BY <2>1, LeastNat
  <1>4. PICK n \in T : n[1] = i /\ n[2] = k
    BY <1>3
  <1>5. ASSUME NEW m \in T PROVE ScannedBefore(n, m)
    <2>1. i <= m[1] /\ (m[1] = i => k <= m[2])
      BY <1>2, <1>3
    <2>2. i \in Nat /\ m[1] \in Nat
      BY <1>1, <1>4
    <2> QED BY <1>4, <2>1, <2>2 DEF ScannedBefore
  <1> QED BY <1>5

(* No two paths are first. *)
LEMMA ScanIsStrict ==
    ASSUME NEW m \in Node, NEW n \in Node, ScannedBefore(m, n), ScannedBefore(n, m)
    PROVE  m = n
  <1>1. /\ m = <<m[1], m[2]>> /\ m[1] \in Nat /\ m[2] \in Nat
        /\ n = <<n[1], n[2]>> /\ n[1] \in Nat /\ n[2] \in Nat
    BY FileListAssumption DEF Node, Class
  <1>2. m[1] = n[1] /\ m[2] = n[2]
    BY <1>1 DEF ScannedBefore
  <1> QED BY <1>1, <1>2

(* get_file_path fails only when no path in reach is free, finds one path  *)
(* else, and the one whose file is as small as any that fits: its double   *)
(* loop over classes and paths, with the flags it sets on the way, is a    *)
(* best fit.                                                               *)
THEOREM SearchIsBestFit ==
    ASSUME NEW used, NEW l
    PROVE  /\ get_file_path(used, l) = {} <=> Fits(used, l) = {}
           /\ \A m, n \in get_file_path(used, l) : m = n
           /\ \A n \in get_file_path(used, l) :
                 /\ n \in Node \ used /\ Size[n[1]] >= l
                 /\ \A m \in Fits(used, l) : Size[n[1]] <= Size[m[1]]
                 /\ n[1] \notin ScannedFull(used, l)
  <1> DEFINE F == Fits(used, l)
  <1>1. F \in SUBSET Node
    BY DEF Fits
  <1>2. get_file_path(used, l) = {n \in F : \A m \in F : ScannedBefore(n, m)}
    BY DEF get_file_path
  <1>3. \A n \in F : n \in Node \ used /\ Size[n[1]] >= l
    BY DEF Fits
  <1>4. \A n \in Node : n[1] \in Class /\ n[1] \in Nat /\ Size[n[1]] \in Nat
    BY FileListAssumption DEF Node, Class
  <1>5. ASSUME NEW n \in get_file_path(used, l), NEW m \in F
        PROVE  Size[n[1]] <= Size[m[1]]
    <2>1. n \in Node /\ m \in Node /\ ScannedBefore(n, m)
      BY <1>1, <1>2, <1>5
    <2>2. n[1] < m[1] \/ n[1] = m[1]
      BY <2>1 DEF ScannedBefore
    <2>3. n[1] < m[1] => Size[n[1]] < Size[m[1]]
      BY <1>4, <2>1, FileListAssumption
    <2> QED BY <1>4, <2>1, <2>2, <2>3
  <1>6. ASSUME NEW n \in get_file_path(used, l)
        PROVE  n[1] \notin ScannedFull(used, l)
    <2>1. n \in F /\ n[1] \in Nat
      BY <1>1, <1>2, <1>4, <1>6
    <2> QED BY <2>1 DEF ScannedFull
  <1> HIDE DEF F
  <1>7. F # {} => get_file_path(used, l) # {}
    BY <1>1, <1>2, FirstPath
  <1>8. \A m, n \in get_file_path(used, l) : m = n
    BY <1>1, <1>2, ScanIsStrict
  <1> QED BY <1>2, <1>3, <1>5, <1>6, <1>7, <1>8 DEF F

(* A class found full by one search has nothing left for any other. *)
LEMMA ScannedFullIsFull ==
    ASSUME NEW l, NEW n \in Node, n[1] \in ScannedFull(taken, l)
    PROVE  n \in taken
  <1> SUFFICES ASSUME n \notin taken PROVE FALSE
    OBVIOUS
  <1>1. n \in Fits(taken, l)
    BY DEF ScannedFull, Fits
  <1>2. n[1] \in Class /\ n[1] < n[1]
    BY <1>1 DEF ScannedFull
  <1> QED BY <1>2, FileListAssumption DEF Class

(* The filled flag of a class is never set too early: its paths are all in  *)
(* use, and stay so.                                                       *)
THEOREM FilledFlagsRight == ASpec => []FilledMeansFull
  <1>1. AInit => FilledMeansFull
    BY DEF AInit, FilledMeansFull
  <1>2. ATypeOK /\ FilledMeansFull /\ [ANext]_avars => FilledMeansFull'
    <2> SUFFICES ASSUME ATypeOK, FilledMeansFull, [ANext]_avars,
                        NEW n \in Node, n[1] \in filled'
                 PROVE  n \in taken'
      BY DEF FilledMeansFull
    <2>1. n \in taken
      BY OnlySearchFlags, ScannedFullIsFull DEF FilledMeansFull
    <2>2. taken \subseteq taken'
      <3>1. CASE ~track_added
        BY <3>1, OnlyAddedTakes
      <3>2. CASE track_added
        BY <3>2, AddedMapping DEF Adds
      <3> QED BY <3>1, <3>2
    <2> QED BY <2>1, <2>2
  <1> QED BY <1>1, <1>2, AllocatorTypeCorrect, PTL DEF ASpec

-----------------------------------------------------------------------------
(* A phase overflows only on a budget that is too large for it. *)

Budget == IF alloc_precision THEN max_alloc_per_phase ELSE TRANS_HI

(* FullOnlyWhenAsked is not inductive: it needs that each mapping costs at *)
(* least one of cnt, so that the entries of a phase and what is left of    *)
(* cnt never exceed the budget, and that every phase begins empty.         *)
RoomLeft ==
    /\ \A p \in Phase : p > curr => alloc_track[p] = <<>>
    /\ failed = "no" /\ in_transition /\ curr \in Phase
         => Len(alloc_track[curr]) + cnt <= Budget
    /\ FullOnlyWhenAsked

(* Steps that leave the tracker alone and do not add to cnt *)
LEMMA RoomKept ==
    ASSUME ATypeOK, RoomLeft,
           UNCHANGED <<tracker, in_transition, alloc_precision,
                       max_alloc_per_phase>>,
           cnt' \in Nat, cnt' <= cnt,
           failed' # "tracker" \/ failed' = failed,
           failed = "no" \/ failed' = failed
    PROVE  RoomLeft'
  <1>1. curr \in Phase => Len(alloc_track[curr]) \in Nat
    BY DEF ATypeOK
  <1>2. Budget' = Budget
    BY DEF Budget
  <1>3. FullOnlyWhenAsked'
    BY DEF RoomLeft, FullOnlyWhenAsked
  <1>4. Budget \in Nat
    BY AllocatorAssumption DEF Budget, ATypeOK
  <1> QED BY <1>1, <1>2, <1>3, <1>4 DEF RoomLeft, tracker, ATypeOK

(* A mapping takes from cnt at least what it adds to the phase. *)
LEMMA StepRoomLeft ==
    ASSUME ATypeOK, RoomLeft, [ANext]_avars
    PROVE  RoomLeft'
  <1> USE DEF settings, pool, tracker, counters, trans
  <1>1. ASSUME NEW l \in LimitArgs, Configuring, set_max_limit(l)
        PROVE  RoomLeft'
    BY <1>1, RoomKept DEF set_max_limit, ATypeOK
  <1>2. ASSUME NEW s \in SpeedArgs, Configuring, set_speed(s)
        PROVE  RoomLeft'
    BY <1>2, RoomKept DEF set_speed, ATypeOK
  <1>3. CASE Configuring /\ set_precise
    BY <1>3 DEF set_precise, Configuring, Between, RoomLeft, FullOnlyWhenAsked
  <1>4. ASSUME NEW n \in PerPhaseArgs, Budgeting, reset_max_alloc_per_phase(n)
        PROVE  RoomLeft'
    BY <1>4
    DEF reset_max_alloc_per_phase, Budgeting, Between, RoomLeft, FullOnlyWhenAsked
  <1>5. CASE Configuring /\ (locality_vector_init \/ set_file_cnt)
    BY <1>5, RoomKept DEF locality_vector_init, set_file_cnt, ATypeOK
  <1>6. CASE Between /\ trans_begin
    <2>1. curr' = curr + 1 /\ alloc_track' = alloc_track /\ failed' = "no"
      BY <1>6 DEF trans_begin, Between, go_to_nxt_phase
    <2>2. cnt' <= Budget'
      BY <1>6, AllocatorAssumption DEF trans_begin, Budget, ATypeOK
    <2>3. curr' \in Phase => alloc_track'[curr'] = <<>>
      BY <2>1 DEF RoomLeft, ATypeOK
    <2>4. \A p \in Phase : p > curr' => alloc_track'[p] = <<>>
      BY <2>1 DEF RoomLeft, ATypeOK, Phase
    <2>5. cnt' \in Nat /\ Budget' \in Nat
      BY StepTypeOK, AllocatorAssumption DEF Budget, ATypeOK
    <2> QED
      BY <2>1, <2>2, <2>3, <2>4, <2>5 DEF RoomLeft, FullOnlyWhenAsked
  <1>7. CASE Between /\ trans_refused
    BY <1>7, RoomKept DEF trans_refused, Between, ATypeOK
  <1>8. CASE file_refused
    <2>1. cnt > 0
      BY <1>8, DrawType DEF file_refused
    <2> QED BY <1>8, <2>1, RoomKept DEF file_refused, ATypeOK
  <1>9. CASE open_failed
    <2>1. failed = "no"
      BY <1>9, DrawType DEF open_failed
    <2> QED BY <1>9, <2>1, RoomKept DEF open_failed, ATypeOK
  <1>10. CASE map_failed
    <2>1. failed = "no"
      BY <1>10, DrawType DEF map_failed
    <2> QED BY <1>10, <2>1, RoomKept DEF map_failed, ATypeOK
  <1>11. CASE track_overrun
    <2>1. failed = "no"
      BY <1>11, DrawType DEF track_overrun, Mapped
    <2> QED BY <1>11, <2>1, RoomKept DEF track_overrun, ATypeOK
  <1>12. CASE track_full
    <2>1. failed = "no" /\ in_transition /\ cnt > 0
      BY <1>12, DrawType DEF track_full, Mapped
    <2>2. curr \in Phase /\ Len(alloc_track[curr]) >= MAX_ALLOC_PER_SE
      BY <1>12 DEF track_full
    <2>3. Budget > MAX_ALLOC_PER_SE
      BY <2>1, <2>2, AllocatorAssumption DEF RoomLeft, Budget, ATypeOK
    <2>4. alloc_precision /\ max_alloc_per_phase > MAX_ALLOC_PER_SE
      BY <2>3, AllocatorAssumption DEF Budget
    <2> QED
      BY <1>12, <2>4 DEF track_full, RoomLeft, FullOnlyWhenAsked
  <1>13. CASE track_added
    <2>1. PICK e \in Entry : Adds(e)
      BY <1>13, AddedMapping
    <2>2. /\ curr \in Phase
          /\ UNCHANGED <<curr, in_transition, alloc_precision,
                         max_alloc_per_phase, failed>>
      BY <1>13 DEF track_added
    <2>3. failed = "no" /\ in_transition
      BY <1>13, DrawType DEF track_added, Mapped
    <2>4. cnt' \in Nat /\ cnt' < cnt
      BY <2>1, CntAfterType DEF Adds, Entry
    <2>5. Len(alloc_track'[curr]) = Len(alloc_track[curr]) + 1
      BY <2>1, <2>2 DEF Adds, ATypeOK
    <2>6. \A p \in Phase : p > curr => alloc_track'[p] = <<>>
      BY <2>1, <2>2 DEF Adds, RoomLeft, ATypeOK, Phase
    <2>7. Len(alloc_track[curr]) + cnt <= Budget
      BY <2>2, <2>3 DEF RoomLeft
    <2>8. /\ Budget' = Budget
          /\ Budget \in Nat /\ Len(alloc_track[curr]) \in Nat /\ cnt \in Nat
      BY <2>2, AllocatorAssumption DEF Budget, ATypeOK
    <2>9. Len(alloc_track'[curr]) + cnt' <= Budget'
      BY <2>4, <2>5, <2>7, <2>8
    <2> QED BY <2>2, <2>6, <2>9 DEF RoomLeft, FullOnlyWhenAsked
  <1>14. CASE trans_end
    BY <1>14 DEF trans_end, RoomLeft, FullOnlyWhenAsked
  <1>15. CASE UNCHANGED avars
    BY <1>15, RoomKept DEF avars, ATypeOK
  <1> QED
    BY <1>1, <1>2, <1>3, <1>4, <1>5, <1>6, <1>7, <1>8, <1>9, <1>10, <1>11,
       <1>12, <1>13, <1>14, <1>15 DEF ANext, exited

(* The inductive invariant of the next theorem, and of the budgets *)
LEMMA RoomIsLeft == ASpec => []RoomLeft
  <1>1. AInit => RoomLeft
    BY DEF AInit, RoomLeft, FullOnlyWhenAsked
  <1>2. ATypeOK /\ RoomLeft /\ [ANext]_avars => RoomLeft'
    BY StepRoomLeft
  <1> QED BY <1>1, <1>2, AllocatorTypeCorrect, PTL DEF ASpec

(* The exit "Failed to add new tracker" is reached only if -M or a vector  *)
(* asked for more pages than a phase has entries: the random budgets never *)
(* overflow a phase.                                                       *)
THEOREM PhaseNeverOverflows == ASpec => []FullOnlyWhenAsked
  <1>1. RoomLeft => FullOnlyWhenAsked
    BY DEF RoomLeft
  <1> QED BY <1>1, RoomIsLeft, PTL

-----------------------------------------------------------------------------
(* The descriptors last. *)

(* The drive is finite. *)
LEMMA NodeFinite == IsFiniteSet(Node)
  <1> DEFINE paths(i) == {i} \X (1..PathCnt[i])
  <1> DEFINE lists == {paths(i) : i \in Class}
  <1> DEFINE f == [i \in Class |-> paths(i)]
  <1>1. IsFiniteSet(Class)
    BY FileListAssumption, FS_Interval DEF Class
  <1>2. f \in Surjection(Class, lists)
    BY DEF Surjection
  <1>3. IsFiniteSet(lists)
    <2> HIDE DEF f, lists
    <2> QED BY <1>1, <1>2, FS_Surjection
  <1>4. ASSUME NEW T \in lists PROVE IsFiniteSet(T)
    <2>1. PICK i \in Class : T = paths(i)
      OBVIOUS
    <2>2. IsFiniteSet({i})
      BY FS_Singleton
    <2>3. PathCnt[i] \in Int
      BY FileListAssumption
    <2>4. IsFiniteSet(1..PathCnt[i])
      BY <2>3, FS_Interval
    <2> QED BY <2>1, <2>2, <2>4, FS_Product
  <1>5. IsFiniteSet(UNION lists)
    <2> HIDE DEF lists
    <2> QED BY <1>3, <1>4, FS_UNION
  <1> QED BY <1>5 DEF Node

(* DescriptorsSuffice is not inductive: it needs that a descriptor is open  *)
(* for each path in use and for little else.                               *)
FdsCounted ==
    /\ failed = "no" => fds <= Cardinality(taken) + STD_FDS + 1
    /\ DescriptorsSuffice

(* The paths in use can be counted. *)
LEMMA TakenFinite ==
    ASSUME ATypeOK
    PROVE  /\ IsFiniteSet(taken)
           /\ Cardinality(taken) \in Nat
  BY NodeFinite, FS_Subset, FS_CardinalityType DEF ATypeOK

(* Steps that neither open nor take a path *)
LEMMA FdsKept ==
    ASSUME FdsCounted, UNCHANGED <<fds, taken, rlimit>>,
           failed' # "emfile", failed = "no" \/ failed' = failed
    PROVE  FdsCounted'
  BY DEF FdsCounted, DescriptorsSuffice

(* A descriptor is opened with the path that is flagged, or by the step    *)
(* that fails.                                                             *)
LEMMA StepFdsCounted ==
    ASSUME ATypeOK, FdsCounted, [ANext]_avars
    PROVE  FdsCounted'
  <1> USE DEF settings, pool, tracker, counters, trans
  <1>1. ASSUME NEW l \in LimitArgs, Configuring, set_max_limit(l)
        PROVE  FdsCounted'
    BY <1>1, FdsKept DEF set_max_limit, Configuring, Between
  <1>2. ASSUME NEW s \in SpeedArgs, Configuring, set_speed(s)
        PROVE  FdsCounted'
    BY <1>2, FdsKept DEF set_speed, Configuring, Between
  <1>3. CASE Configuring /\ set_precise
    BY <1>3, FdsKept DEF set_precise, Configuring, Between
  <1>4. ASSUME NEW n \in PerPhaseArgs, Budgeting, reset_max_alloc_per_phase(n)
        PROVE  FdsCounted'
    BY <1>4, FdsKept DEF reset_max_alloc_per_phase, Budgeting, Between
  <1>5. CASE Configuring /\ locality_vector_init
    <2>1. Cardinality(taken) \in Nat
      BY TakenFinite
    <2> QED
      BY <1>5, <2>1 DEF locality_vector_init, Configuring, Between, FdsCounted,
                        DescriptorsSuffice, STD_FDS
  <1>6. CASE Configuring /\ set_file_cnt
    BY <1>6 DEF set_file_cnt, Configuring, Between, FdsCounted, DescriptorsSuffice
  <1>7. CASE Between /\ trans_begin
    BY <1>7, FdsKept DEF trans_begin, Between
  <1>8. CASE Between /\ trans_refused
    BY <1>8, FdsKept DEF trans_refused, Between
  <1>9. CASE file_refused
    <2>1. failed = "no"
      BY <1>9, DrawType DEF file_refused
    <2> QED BY <1>9, <2>1 DEF file_refused, FdsCounted, DescriptorsSuffice
  <1>10. CASE open_failed
    <2>1. PICK l \in randomize_alloc_len : Draw("file", l) /\ Fits(taken, l) # {}
      BY <1>10 DEF open_failed
    <2>2. PICK n \in Node : n \notin taken
      BY <2>1 DEF Fits
    <2>3. failed = "no"
      BY <2>1, DrawType
    <2>4. Cardinality(taken) < Cardinality(Node)
      <3>1. taken \in SUBSET Node /\ taken # Node
        BY <2>2 DEF ATypeOK
      <3>2. Cardinality(taken) <= Cardinality(Node) /\ Cardinality(Node) # Cardinality(taken)
        BY <3>1, NodeFinite, FS_Subset
      <3> QED BY <3>2, TakenFinite, NodeFinite, FS_CardinalityType
    <2>5. Cardinality(Node) \in Nat
      BY NodeFinite, FS_CardinalityType
    <2>6. fds < FILE_MAX
      BY <2>3, <2>4, <2>5, TakenFinite, DescriptorsAssumption, AllocatorAssumption
      DEF FdsCounted, STD_FDS, ATypeOK
    <2>7. CASE fds >= rlimit
      BY <1>10, <2>6, <2>7, AllocatorAssumption
      DEF open_failed, FdsCounted, DescriptorsSuffice, ATypeOK
    <2>8. CASE ~(fds >= rlimit)
      BY <1>10, <2>8 DEF open_failed, FdsCounted, DescriptorsSuffice
    <2> QED BY <2>7, <2>8
  <1>11. CASE map_failed \/ track_overrun \/ track_full
    BY <1>11 DEF map_failed, track_overrun, track_full, FdsCounted,
                 DescriptorsSuffice
  <1>12. CASE track_added
    <2>1. PICK e \in Entry : Adds(e)
      BY <1>12, AddedMapping
    <2>2. failed = "no" /\ failed' = "no"
      BY <1>12, DrawType DEF track_added, Mapped
    <2>3. fds <= Cardinality(taken) + STD_FDS + 1
      BY <2>2 DEF FdsCounted
    <2>4. fds' <= Cardinality(taken') + STD_FDS + 1
      <3>1. CASE e.type = "file"
        <4>1. Cardinality(taken') = Cardinality(taken) + 1
          BY <2>1, <3>1, TakenFinite, FS_AddElement DEF Adds
        <4> QED
          BY <2>1, <2>3, <3>1, <4>1, TakenFinite DEF Adds, STD_FDS, ATypeOK
      <3>2. CASE e.type # "file"
        BY <2>1, <2>3, <3>2 DEF Adds
      <3> QED BY <3>1, <3>2
    <2> QED BY <2>2, <2>4 DEF FdsCounted, DescriptorsSuffice
  <1>13. CASE trans_end
    BY <1>13, FdsKept DEF trans_end
  <1>14. CASE UNCHANGED avars
    BY <1>14 DEF avars, FdsCounted, DescriptorsSuffice
  <1> QED
    BY <1>1, <1>2, <1>3, <1>4, <1>5, <1>6, <1>7, <1>8, <1>9, <1>10, <1>11,
       <1>12, <1>13, <1>14 DEF ANext, exited

(* Although no descriptor is ever closed, open finds none left only where   *)
(* the setrlimit of the program was refused.                               *)
THEOREM DescriptorsLast == ASpec => []DescriptorsSuffice
  <1>1. AInit => FdsCounted
    <2> SUFFICES ASSUME AInit PROVE FdsCounted
      OBVIOUS
    <2>1. Cardinality(taken) = 0
      BY FS_EmptySet DEF AInit
    <2> QED BY <2>1 DEF AInit, FdsCounted, DescriptorsSuffice, STD_FDS
  <1>2. ATypeOK /\ FdsCounted /\ [ANext]_avars => FdsCounted'
    BY StepFdsCounted
  <1>3. FdsCounted => DescriptorsSuffice
    BY DEF FdsCounted
  <1> QED BY <1>1, <1>2, <1>3, AllocatorTypeCorrect, PTL DEF ASpec

=============================================================================
