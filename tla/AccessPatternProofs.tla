------------------------ MODULE AccessPatternProofs -------------------------
(***************************************************************************)
(* What holds of the access patterns for all mappings and all settings.    *)
(***************************************************************************)
EXTENDS AccessPattern, TLAPS

-----------------------------------------------------------------------------
(* The pure functions *)

(* The halvings of the cut reach 1, and none is above the cut.             *)
LEMMA PiecesReachOne == 1 \in Pieces /\ Pieces \subseteq 1..STRIDE_CUT
<1>1. STRIDE_CUT \in 1..1023
  BY PatternAssumption
<1>2. \E h \in Halvings : STRIDE_CUT \div h = 1
  BY <1>1, SMTT(30) DEF Halvings
<1>3. \A h \in Halvings : STRIDE_CUT \div h \in 0..STRIDE_CUT
  BY <1>1, SMTT(30) DEF Halvings
<1> QED  BY <1>1, <1>2, <1>3 DEF Pieces

(* Of the pieces that a length can be cut into there is a largest.         *)
LEMMA LargestPiece ==
    ASSUME NEW l \in Nat \ {0}
    PROVE  \E p \in Pieces : p <= l /\ \A q \in Pieces : q <= l => q <= p
<1> DEFINE c(h) == STRIDE_CUT \div h
<1> DEFINE Best(h) == \A q \in Pieces : q <= l => q <= c(h)
<1>1. STRIDE_CUT \in 1..1023
  BY PatternAssumption
<1>2. \A q \in Pieces : q \in {c(1), c(2), c(4), c(8), c(16), c(32), c(64),
                               c(128), c(256), c(512)} /\ q >= 1
  BY PiecesReachOne, <1>1 DEF Pieces, Halvings
<1>3. /\ c(512) <= c(256) /\ c(256) <= c(128) /\ c(128) <= c(64)
      /\ c(64) <= c(32) /\ c(32) <= c(16) /\ c(16) <= c(8)
      /\ c(8) <= c(4) /\ c(4) <= c(2) /\ c(2) <= c(1)
  BY <1>1, SMTT(30)
<1>4. \A h \in Halvings : c(h) \in Nat
  BY <1>1, SMTT(30) DEF Halvings
<1>5. \A h \in Halvings : c(h) # 0 => c(h) \in Pieces
  BY DEF Pieces
<1>6. 1 <= l
  OBVIOUS
<1> HIDE DEF c
<1> QED  BY <1>2, <1>3, <1>4, <1>5, <1>6, PiecesReachOne, SMTT(60) DEF Halvings

(* A stride moves on, and never beyond the mapping it was made for.        *)
LEMMA StrideInside ==
    ASSUME NEW l \in Nat \ {0}
    PROVE  stride_get_offset(l) \in 1..l
<1> DEFINE p == CHOOSE p \in Pieces :
                  p <= l /\ \A q \in Pieces : q <= l => q <= p
<1>1. p \in Pieces /\ p <= l
  BY LargestPiece
<1> HIDE DEF p
<1>2. p \in Nat \ {0}
  BY <1>1, PiecesReachOne, PatternAssumption
<1>3. \A d \in Nat \ {0} : d <= l => l \div d \in 1..l
  BY SMTT(30)
<1>4. l \div p \in 1..l
  BY <1>1, <1>2, <1>3
<1> QED  BY <1>4 DEF stride_get_offset, p

(* repeat repeats something at least once.                                 *)
LEMMA RepeatCountPositive ==
    ASSUME NEW d \in Nat
    PROVE  repeat_get_count(d) \in Nat \ {0}
<1>1. MAX_DIST \in Nat \ {0} /\ MIN_CNT \in Nat \ {0} /\ MAX_CNT \in Nat \ {0}
  BY PatternAssumption
<1>2. CASE d >= MAX_DIST
  BY <1>1, <1>2 DEF repeat_get_count
<1>3. CASE ~(d >= MAX_DIST)
  <2> DEFINE x == MAX_CNT * (MAX_DIST - d)
  <2>1. x \in Nat /\ x >= 1
    BY <1>1, <1>3, SMTT(30)
  <2> HIDE DEF x
  <2>2. \A y \in Nat : y >= MAX_DIST => y \div MAX_DIST \in Nat \ {0}
    BY <1>1, SMTT(30)
  <2>3. x + MAX_DIST - 1 \in Nat /\ x + MAX_DIST - 1 >= MAX_DIST
    BY <1>1, <2>1
  <2>4. repeat_get_count(d) = (x + MAX_DIST - 1) \div MAX_DIST
    BY <1>3 DEF repeat_get_count, x
  <2> QED  BY <2>2, <2>3, <2>4
<1> QED  BY <1>2, <1>3

-----------------------------------------------------------------------------
(* The inductive invariant *)

(* A byte that fix has decided on lies in its mapping.                     *)
NodesInside ==
    \A k \in DOMAIN fix_head : fix_head[k].loc < Length[fix_head[k].addr]

PInv == TypeOK /\ InBounds /\ NodesInside

(* A mapping is at least a page long. *)
LEMMA LengthPositive ==
    \A m \in Mapping : Length[m] \in Nat \ {0} /\ Length[m] >= PAGE
<1> SUFFICES ASSUME NEW m \in Mapping
             PROVE  Length[m] \in Nat \ {0} /\ Length[m] >= PAGE
  OBVIOUS
<1>1. Length[m] \in Nat /\ Length[m] > 0 /\ Length[m] % PAGE = 0
  BY PatternAssumption
<1>2. PAGE \in Nat \ {0}
  BY PatternAssumption
<1>3. \A l \in Nat : l < PAGE => l % PAGE = l
  BY <1>2, SMTT(30)
<1> QED  BY <1>1, <1>2, <1>3

(* The invariant holds before the first call. *)
LEMMA InitInside == Init => PInv
<1> SUFFICES ASSUME Init PROVE PInv
  OBVIOUS
<1>0. <<>> \in Seq(Node) /\ NoByte \in Span
  BY DEF NoByte, Span
<1>1. TypeOK
  BY <1>0, PatternAssumption DEF Init, TypeOK
<1>2. InBounds /\ NodesInside
  BY DEF Init, InBounds, NodesInside
<1> QED  BY <1>1, <1>2 DEF PInv

(* The bytes of a window of random lie in the mapping: a window that is    *)
(* touched ends before the end of its half, or TAIL bytes before it.       *)
LEMMA WindowInside ==
    ASSUME TypeOK, InWindow,
           NEW index \in 0..(touch_len - MARGIN - 1)
    PROVE  /\ start_index + index \in Nat
           /\ start_index + index <= start_index + index + RUN - 1
           /\ start_index + index + RUN - 1 < len
<1>1. /\ PAGE \in Nat /\ TAIL \in Nat /\ MARGIN \in Nat /\ RUN \in 1..MARGIN
  BY PatternAssumption
<1>2. len \in Nat
  BY LengthPositive DEF TypeOK, len
<1>3. switcher \in 0..len
  BY <1>2, SMTT(30) DEF switcher
<1>4. begin \in Nat /\ end \in 0..len
  BY <1>2, <1>3 DEF begin, end, TypeOK
<1>5. PAGE * i \in Nat
  BY <1>1, SMTT(30) DEF TypeOK
<1>6. start_index \in Nat
  BY <1>4, <1>5 DEF start_index
<1>7. end_index \in Int /\ end_index < end
  BY <1>1, <1>4, <1>6 DEF end_index, InWindow
<1>8. touch_len = end_index - start_index
  BY DEF touch_len
<1> QED  BY <1>1, <1>2, <1>4, <1>6, <1>7, <1>8

-----------------------------------------------------------------------------
(* One step *)

(* What is in the list once a node is put at its head. *)
LEMMA NodeAdded ==
    ASSUME NEW n \in Node, NEW q \in Seq(Node)
    PROVE  /\ <<n>> \o q \in Seq(Node)
           /\ \A k \in DOMAIN (<<n>> \o q) :
                (<<n>> \o q)[k] = n \/ \E j \in DOMAIN q : (<<n>> \o q)[k] = q[j]
<1>1. <<n>> \in Seq(Node)
  OBVIOUS
<1>2. <<n>> \o q \in Seq(Node)
  BY <1>1
<1>3. ASSUME NEW k \in DOMAIN (<<n>> \o q)
      PROVE  (<<n>> \o q)[k] = n \/ \E j \in DOMAIN q : (<<n>> \o q)[k] = q[j]
  <2>1. k \in 1..(1 + Len(q))
    BY <1>1, <1>3
  <2>2. CASE k = 1
    BY <2>2
  <2>3. CASE k # 1
    <3>1. k - 1 \in DOMAIN q
      BY <2>1, <2>3
    <3>2. (<<n>> \o q)[k] = q[k - 1]
      BY <2>1, <2>3
    <3> QED  BY <3>1, <3>2
  <2> QED  BY <2>2, <2>3
<1> QED  BY <1>2, <1>3

(* A turn of any pattern keeps the invariant. *)
LEMMA NextInside == PInv /\ [Next]_vars => PInv'
<1> SUFFICES ASSUME PInv, [Next]_vars PROVE PInv'
  OBVIOUS
<1> USE DEF PInv, args
<1>1. ASSUME NEW m \in Mapping, NEW tr \in BOOLEAN, call(m, tr) PROVE PInv'
  <2>1. stride_get_offset(Length[m]) \in Nat
    BY LengthPositive, StrideInside
  <2>2. rep_count' \in Nat
    BY <1>1, <2>1, RepeatCountPositive DEF call, repeat_get_distance
  <2>3. NoByte \in Span
    BY DEF NoByte, Span
  <2>4. TypeOK'
    BY <1>1, <2>2, <2>3, PatternAssumption DEF call, TypeOK
  <2>5. InBounds'
    BY <1>1 DEF call, InBounds
  <2>6. NodesInside'
    BY <1>1 DEF call, NodesInside
  <2> QED  BY <2>4, <2>5, <2>6
<1>2. ASSUME fix_first PROVE PInv'
  <2>1. PICK loc \in fix_rand_loc :
             /\ fix_head' = <<[addr |-> addr, loc |-> loc]>> \o fix_head
             /\ at' = <<loc, loc>>
    BY <1>2 DEF fix_first
  <2>2. loc \in Nat /\ loc < Length[addr]
    BY LengthPositive, PatternAssumption DEF fix_rand_loc, len, TypeOK
  <2> DEFINE n == [addr |-> addr, loc |-> loc]
  <2>3. n \in Node /\ fix_head \in Seq(Node)
    BY <2>2 DEF TypeOK, Node
  <2>4. fix_head' \in Seq(Node)
    BY <2>1, <2>3, NodeAdded
  <2>5. at' \in Span
    BY <2>1, <2>2 DEF Span
  <2>6. TypeOK'
    BY <1>2, <2>4, <2>5 DEF fix_first, TypeOK, randoms
  <2>7. InBounds'
    BY <1>2, <2>1, <2>2 DEF fix_first, InBounds, len
  <2>8. \A k \in DOMAIN fix_head' :
           fix_head'[k] = n \/ \E j \in DOMAIN fix_head : fix_head'[k] = fix_head[j]
    BY <2>1, <2>3, NodeAdded
  <2>9. NodesInside'
    BY <2>2, <2>8 DEF NodesInside
  <2> QED  BY <2>6, <2>7, <2>9
<1>3. ASSUME fix_no_memory PROVE PInv'
  BY <1>3 DEF fix_no_memory, TypeOK, InBounds, NodesInside, len, randoms
<1>4. ASSUME fix_again PROVE PInv'
  <2>1. PICK j \in DOMAIN fix_head :
             fix_head[j].addr = addr /\ at' = <<fix_head[j].loc, fix_head[j].loc>>
    BY <1>4 DEF fix_again, fix_exists
  <2>2. fix_head[j] \in Node
    BY <2>1 DEF TypeOK
  <2>3. fix_head[j].loc \in Nat /\ fix_head[j].loc < Length[addr]
    BY <2>1, <2>2 DEF NodesInside, Node
  <2>4. at' \in Span
    BY <2>1, <2>3 DEF Span
  <2>5. TypeOK'
    BY <1>4, <2>4 DEF fix_again, TypeOK, randoms
  <2>6. InBounds'
    BY <1>4, <2>1, <2>3 DEF fix_again, InBounds, len
  <2>7. NodesInside'
    BY <1>4 DEF fix_again, NodesInside
  <2> QED  BY <2>5, <2>6, <2>7
<1>5. ASSUME NEW step \in Nat, pc = "running", walk(step) PROVE PInv'
  <2>1. CASE Left(len)
    <3>1. at' = <<i, i>> /\ i' = i + step /\ UNCHANGED pc
      BY <1>5, <2>1 DEF walk
    <3>2. at' \in Span /\ i' \in Nat
      BY <3>1 DEF Span, TypeOK
    <3>3. TypeOK'
      BY <1>5, <3>1, <3>2 DEF walk, TypeOK, randoms
    <3>4. InBounds' /\ NodesInside'
      BY <1>5, <2>1, <3>1 DEF walk, InBounds, NodesInside, Left, len, TypeOK
    <3> QED  BY <3>3, <3>4
  <2>2. CASE ~Left(len)
    BY <1>5, <2>2 DEF walk, TypeOK, InBounds, NodesInside, len, randoms
  <2> QED  BY <2>1, <2>2
<1>6. ASSUME stride_turn PROVE PInv'
  <2>1. stride_get_offset(len) \in Nat
    BY LengthPositive, StrideInside DEF len, TypeOK
  <2> QED  BY <1>5, <1>6, <2>1 DEF stride_turn, Running
<1>7. ASSUME seq_turn PROVE PInv'
  BY <1>5, <1>7 DEF seq_turn, Running
<1>8. ASSUME repeat_turn PROVE PInv'
  <2>1. repeat_get_distance(len) \in 1..len /\ len \in Nat
    BY LengthPositive, StrideInside DEF repeat_get_distance, len, TypeOK
  <2>2. CASE i < repeat_get_distance(len)
    <3>1. at' = <<i, i>> /\ i' = i + 1 /\ UNCHANGED rep_count
      BY <1>8, <2>2 DEF repeat_turn
    <3>2. at' \in Span /\ i' \in Nat
      BY <3>1 DEF Span, TypeOK
    <3>3. TypeOK'
      BY <1>8, <3>1, <3>2 DEF repeat_turn, TypeOK, randoms
    <3>4. i < len
      BY <2>1, <2>2 DEF TypeOK
    <3>5. InBounds' /\ NodesInside'
      BY <1>8, <3>1, <3>4 DEF repeat_turn, InBounds, NodesInside, len, TypeOK
    <3> QED  BY <3>3, <3>5
  <2>3. CASE ~(i < repeat_get_distance(len))
    BY <1>8, <2>3 DEF repeat_turn, TurnsLeft, TypeOK, InBounds, NodesInside, len,
                      randoms
  <2> QED  BY <2>2, <2>3
<1>9. ASSUME repeat_end PROVE PInv'
  BY <1>9 DEF repeat_end, TypeOK, InBounds, NodesInside, len, randoms
<1>10. ASSUME random_touch_page PROVE PInv'
  <2>1. PICK index \in 0..(touch_len - MARGIN - 1) :
             at' = <<start_index + index, start_index + index + RUN - 1>>
    BY <1>10 DEF random_touch_page
  <2>2. /\ start_index + index \in Nat
        /\ start_index + index <= start_index + index + RUN - 1
        /\ start_index + index + RUN - 1 < len
    BY <1>10, WindowInside DEF random_touch_page
  <2>3. RUN \in Nat
    BY PatternAssumption
  <2>4. at' \in Span
    BY <2>1, <2>2, <2>3 DEF Span
  <2>5. TypeOK'
    BY <1>10, <2>4 DEF random_touch_page, TypeOK
  <2>6. InBounds'
    BY <1>10, <2>1, <2>2 DEF random_touch_page, InBounds, len
  <2>7. NodesInside'
    BY <1>10 DEF random_touch_page, NodesInside
  <2> QED  BY <2>5, <2>6, <2>7
<1>11. ASSUME random_next_page PROVE PInv'
  BY <1>11, PatternAssumption
     DEF random_next_page, attempts, TypeOK, InBounds, NodesInside, len
<1>12. ASSUME random_next_slice PROVE PInv'
  BY <1>12, PatternAssumption
     DEF random_next_slice, next_slice, attempts, TypeOK, InBounds, NodesInside, len
<1>13. ASSUME random_end PROVE PInv'
  BY <1>13 DEF random_end, TypeOK, InBounds, NodesInside, len, randoms
<1>14. CASE exited \/ UNCHANGED vars
  BY <1>14 DEF exited, vars, TypeOK, InBounds, NodesInside, len, randoms
<1> QED  BY <1>1, <1>2, <1>3, <1>4, <1>6, <1>7, <1>8, <1>9, <1>10, <1>11, <1>12,
             <1>13, <1>14 DEF Next, Turn

(* So it always holds. *)
LEMMA InsideAlways == Spec => []PInv
<1> QED  BY InitInside, NextInside, PTL DEF Spec

-----------------------------------------------------------------------------
(* Theorems *)

(* Every variable keeps its C type, for every mapping and every setting;   *)
(* the turns of repeat, unsigned, never go below 0.                        *)
THEOREM PatternTypeCorrect == Spec => []TypeOK
<1>1. PInv => TypeOK
  BY DEF PInv
<1> QED  BY <1>1, InsideAlways, PTL

(* No pattern reaches outside its mapping, for mappings of any number of   *)
(* pages, and any numbers that fit the page as the real ones do.           *)
THEOREM PatternsStayInside == Spec => []InBounds
<1>1. PInv => InBounds
  BY DEF PInv
<1> QED  BY <1>1, InsideAlways, PTL

(* The list of fix grows only by a node of a mapping that has none.        *)
LEMMA FixGrowsOnce == PInv /\ FixNodeUnique /\ [Next]_vars => FixNodeUnique'
<1> SUFFICES ASSUME PInv, FixNodeUnique, [Next]_vars PROVE FixNodeUnique'
  OBVIOUS
<1> USE DEF args
<1>1. CASE fix_first
  <2> DEFINE q == fix_head
  <2>1. PICK n \in Node : n.addr = addr /\ fix_head' = <<n>> \o fix_head
    <3>1. PICK loc \in fix_rand_loc :
               fix_head' = <<[addr |-> addr, loc |-> loc]>> \o fix_head
      BY <1>1 DEF fix_first
    <3>2. [addr |-> addr, loc |-> loc] \in Node
      BY <3>1, LengthPositive, PatternAssumption
         DEF fix_rand_loc, len, PInv, TypeOK, Node
    <3> QED  BY <3>1, <3>2
  <2>2. \A k \in DOMAIN fix_head : fix_head[k].addr # addr
    BY <1>1 DEF fix_first, fix_exists
  <2>3. fix_head \in Seq(Node)
    BY DEF PInv, TypeOK
  <2>4. /\ DOMAIN fix_head' = 1..(1 + Len(fix_head))
        /\ fix_head'[1] = n
        /\ \A k \in 2..(1 + Len(fix_head)) :
              k - 1 \in DOMAIN fix_head /\ fix_head'[k] = fix_head[k - 1]
    BY <2>1, <2>3
  <2>5. ASSUME NEW j \in DOMAIN fix_head', NEW k \in DOMAIN fix_head',
               fix_head'[j].addr = fix_head'[k].addr
        PROVE  j = k
    <3>1. CASE j = 1 /\ k = 1
      BY <3>1
    <3>2. CASE j = 1 /\ k # 1
      BY <2>1, <2>2, <2>4, <2>5, <3>2
    <3>3. CASE j # 1 /\ k = 1
      BY <2>1, <2>2, <2>4, <2>5, <3>3
    <3>4. CASE j # 1 /\ k # 1
      <4>1. j - 1 = k - 1
        BY <2>4, <2>5, <3>4 DEF FixNodeUnique
      <4> QED  BY <2>4, <4>1
    <3> QED  BY <3>1, <3>2, <3>3, <3>4
  <2> QED  BY <2>5 DEF FixNodeUnique
<1>2. CASE UNCHANGED fix_head
  BY <1>2 DEF FixNodeUnique
<1>3. fix_first \/ UNCHANGED fix_head
  BY DEF Next, Turn, call, fix_no_memory, fix_again, stride_turn, seq_turn, walk,
         repeat_turn, repeat_end, random_touch_page, random_next_page,
         random_next_slice, random_end, exited, vars, randoms, args
<1> QED  BY <1>1, <1>2, <1>3

(* A mapping has one node in the list of fix, for any sequence of calls.   *)
THEOREM FixNodeOnce == Spec => []FixNodeUnique
<1>1. Init => FixNodeUnique
  BY DEF Init, FixNodeUnique
<1> QED  BY <1>1, FixGrowsOnce, InsideAlways, PTL DEF Spec

(* A call of fix touches the byte that the list holds for its mapping,     *)
(* for any sequence of calls over any mappings.                            *)
THEOREM FixTouchesItsByte == Spec => FixStays
<1>1. ASSUME FixNodeUnique, [Next]_vars
      PROVE  [Running("fix") /\ pc' = "idle"
                => \A j \in DOMAIN fix_head : fix_head[j].addr = addr
                     => at' = <<fix_head[j].loc, fix_head[j].loc>>]_vars
  <2> SUFFICES ASSUME Next, Running("fix"), pc' = "idle",
                      NEW j \in DOMAIN fix_head, fix_head[j].addr = addr
               PROVE  at' = <<fix_head[j].loc, fix_head[j].loc>>
    BY <1>1
  <2>1. fix_first \/ fix_again
    BY DEF Running, Next, Turn, call, fix_no_memory, stride_turn, seq_turn,
           repeat_turn, repeat_end, random_touch_page, random_next_page,
           random_next_slice, random_end, exited, vars, args
  <2>2. ~fix_first
    BY DEF fix_first, fix_exists
  <2>3. PICK k \in DOMAIN fix_head :
             fix_head[k].addr = addr /\ at' = <<fix_head[k].loc, fix_head[k].loc>>
    BY <2>1, <2>2 DEF fix_again, fix_exists
  <2>4. k = j
    BY <1>1, <2>3 DEF FixNodeUnique
  <2> QED  BY <2>3, <2>4
<1> QED  BY <1>1, FixNodeOnce, PTL DEF Spec, FixStays

-----------------------------------------------------------------------------
(* Both halves *)

(* Of the halves random has been in during a call, each has had its first  *)
(* page touched before it was left.                                        *)
slices == IF in_transition THEN 2 ELSE SLICES
FirstPageFirst ==
    Running("random") =>
        /\ slices_left <= slices
        /\ i > 0 \/ att < attempts => <<which_slice, 0>> \in visited
        /\ slices_left < slices => <<1 - which_slice, 0>> \in visited
        /\ slices_left < slices - 1 => <<which_slice, 0>> \in visited

(* The first page of a half has a window, however short the half is.       *)
LEMMA FirstPageInWindow ==
    ASSUME TypeOK, i = 0
    PROVE  InWindow
<1> DEFINE x == end - begin
<1>1. PAGE \in Nat \ {0} /\ TAIL \in Nat \ {0}
  BY PatternAssumption
<1>2. len \in Nat
  BY LengthPositive DEF TypeOK, len
<1>3. switcher \in 0..len
  BY <1>2, SMTT(30) DEF switcher
<1>4. begin \in Nat /\ end \in Nat /\ x \in Nat
  BY <1>2, <1>3 DEF begin, end, TypeOK
<1>5. \A y \in Nat : y \div PAGE \in Nat /\ (y \div PAGE > 1 => y > PAGE)
  BY <1>1, SMTT(30)
<1> HIDE DEF x
<1>6. pages = IF x \div PAGE = 0 THEN 1 ELSE x \div PAGE
  BY DEF pages, x
<1>7. pages \in Nat \ {0}
  BY <1>4, <1>5, <1>6
<1>8. CASE pages > 1
  <2>1. PAGE * i = 0
    BY <1>1
  <2>2. start_index = begin /\ end_index = PAGE + begin
    BY <1>4, <1>8, <2>1 DEF start_index, end_index
  <2>3. x > PAGE
    BY <1>4, <1>5, <1>6, <1>8
  <2>4. end_index < end
    BY <1>1, <1>4, <2>2, <2>3 DEF x
  <2> QED  BY <1>7, <1>8, <2>4 DEF InWindow
<1>9. CASE ~(pages > 1)
  <2>1. end_index < end
    BY <1>1, <1>4, <1>9 DEF end_index
  <2> QED  BY <1>7, <2>1 DEF InWindow
<1> QED  BY <1>8, <1>9

(* A half is left only after its first page; the call begins with neither. *)
LEMMA NextFirstPage == TypeOK /\ FirstPageFirst /\ [Next]_vars => FirstPageFirst'
<1> SUFFICES ASSUME TypeOK, FirstPageFirst, [Next]_vars, Running("random")'
             PROVE  FirstPageFirst'
  BY DEF FirstPageFirst
<1> USE DEF args
<1>0. /\ attempts \in Nat \ {0} /\ slices \in Nat /\ slices >= 2
      /\ i \in Nat /\ att \in Nat /\ slices_left \in Nat
  BY PatternAssumption DEF attempts, slices, TypeOK
<1>1. ASSUME NEW m \in Mapping, NEW tr \in BOOLEAN, call(m, tr)
      PROVE  FirstPageFirst'
  <2>1. slices_left' = slices' /\ att' = attempts' /\ i' = 0
    BY <1>1 DEF call, slices, attempts
  <2>2. slices' \in Nat /\ attempts' \in Nat
    BY <1>1, PatternAssumption DEF call, slices, attempts
  <2>3. \A n \in Nat : n <= n /\ ~(n < n) /\ ~(n < n - 1)
    OBVIOUS
  <2>4. slices_left' <= slices' /\ ~(slices_left' < slices') /\ ~(slices_left' < slices' - 1)
    BY <2>1, <2>2, <2>3, Zenon
  <2>5. ~(i' > 0)
    BY <2>1
  <2>6. ~(att' < attempts')
    BY <2>1, <2>2, <2>3, Zenon
  <2> QED  BY <2>4, <2>5, <2>6 DEF FirstPageFirst
<1>2. CASE random_touch_page
  <2>1. <<which_slice, i>> \in visited' /\ visited \subseteq visited'
    BY <1>2 DEF random_touch_page
  <2>2. i > 0 \/ i = 0
    BY <1>0
  <2>3. <<which_slice, 0>> \in visited'
    BY <1>2, <2>1, <2>2 DEF FirstPageFirst, random_touch_page
  <2> QED  BY <1>2, <2>1, <2>3 DEF FirstPageFirst, random_touch_page, Running, slices
<1>3. CASE random_next_page
  <2>1. <<which_slice, 0>> \in visited
    BY <1>0, <1>3 DEF FirstPageFirst, random_next_page
  <2> QED  BY <1>3, <2>1 DEF FirstPageFirst, random_next_page, Running, slices
<1>4. CASE random_next_slice
  <2>1. i > 0
    BY <1>0, <1>4, FirstPageInWindow DEF random_next_slice
  <2>2. <<which_slice, 0>> \in visited
    BY <1>4, <2>1 DEF FirstPageFirst, random_next_slice
  <2>3. /\ slices_left' = slices_left - 1 /\ which_slice' = 1 - which_slice
        /\ i' = 0 /\ att' = attempts' /\ visited' = visited /\ slices' = slices
        /\ attempts' = attempts
    BY <1>4 DEF random_next_slice, next_slice, attempts, slices
  <2>4. 1 - which_slice' = which_slice
    BY <2>3 DEF TypeOK
  <2>5. slices_left' < slices' - 1 => slices_left < slices
    BY <1>0, <2>3
  <2>6. Running("random")
    BY <1>4 DEF random_next_slice
  <2> QED  BY <1>0, <2>2, <2>3, <2>4, <2>5, <2>6 DEF FirstPageFirst
<1>5. CASE UNCHANGED <<access_type, pc, in_transition, i, slices_left, which_slice, att,
                       visited>>
  BY <1>5 DEF FirstPageFirst, Running, slices, attempts
<1>6. CASE fix_first \/ fix_no_memory \/ fix_again \/ stride_turn \/ seq_turn
           \/ repeat_turn \/ repeat_end
  BY <1>6 DEF fix_first, fix_no_memory, fix_again, stride_turn, seq_turn, repeat_turn,
              repeat_end, Running, walk
<1>7. ~random_end
  BY DEF random_end, Running
<1>8. CASE exited \/ UNCHANGED vars
  BY <1>5, <1>8 DEF exited, vars, randoms
<1> QED  BY <1>1, <1>2, <1>3, <1>4, <1>6, <1>7, <1>8 DEF Next, Turn

(* A random access touches both halves of its mapping before it returns,   *)
(* on mappings of any number of pages: the break on the last page never    *)
(* comes before the first page of a half was touched.                      *)
THEOREM RandomTouchesBothHalves == Spec => BothHalves
<1>1. Init => FirstPageFirst
  BY DEF Init, FirstPageFirst, Running
<1>2. TypeOK /\ FirstPageFirst /\ [Next]_vars => FirstPageFirst'
  BY NextFirstPage
<1>3. TypeOK /\ FirstPageFirst /\ [Next]_vars
        => [Running("random") /\ pc' = "idle"
              => {w[1] : w \in visited} = {0, 1}]_vars
  <2> SUFFICES ASSUME TypeOK, FirstPageFirst, Next, Running("random"), pc' = "idle"
               PROVE  {w[1] : w \in visited} = {0, 1}
    OBVIOUS
  <2>1. random_end
    BY DEF Next, Turn, call, fix_first, fix_no_memory, fix_again, stride_turn, seq_turn,
           repeat_turn, repeat_end, random_touch_page, random_next_page,
           random_next_slice, exited, Running, args
  <2>2. slices_left = 0 /\ slices \in Nat /\ slices >= 2
    BY <2>1, PatternAssumption DEF random_end, slices
  <2>3. <<which_slice, 0>> \in visited /\ <<1 - which_slice, 0>> \in visited
    BY <2>2 DEF FirstPageFirst
  <2>4. visited \in SUBSET ({0, 1} \X Nat) /\ which_slice \in {0, 1}
    BY DEF TypeOK
  <2>5. \A w \in visited : w[1] \in {0, 1}
    BY <2>4
  <2>6. <<0, 0>> \in visited /\ <<1, 0>> \in visited
    BY <2>3, <2>4
  <2> QED  BY <2>5, <2>6
<1> QED  BY <1>1, <1>2, <1>3, PatternTypeCorrect, PTL DEF Spec, BothHalves

=============================================================================
