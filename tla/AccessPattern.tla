--------------------------- MODULE AccessPattern ----------------------------
(***************************************************************************)
(* The access patterns of mem_gobbler.c: what one call of touch does       *)
(* inside a mapping.  A run has one access type (-t), which selects one of *)
(* the five functions of the table pattern; a call touches bytes of the    *)
(* mapping, one step of the model per turn of its innermost loop, and      *)
(* returns.                                                                *)
(*                                                                         *)
(* Abstractions.  A mapping is a model value with a length in bytes, a     *)
(* multiple of PAGE; what is written into a byte is left out.  rand_lim    *)
(* and rand_intr are a choice from their range.  The numbers the code has  *)
(* hard-wired are constants, so that small instances keep their relations. *)
(***************************************************************************)
EXTENDS Integers, Sequences

CONSTANTS
    Mapping,     \* addresses of mappings
    Length,      \* Length[m]: bytes of mapping m
    Patterns,    \* access types in use, a subset of PatternType
    PAGE,        \* bytes of a page                              (4096)
    STRIDE_CUT,  \* pieces a mapping is cut into by a stride     (1000)
    MAX_DIST,    \* repeat distance from which MIN_CNT is used   (1000)
    MIN_CNT, MAX_CNT,    \*                                      (2 and 5)
    FIX_MARGIN,  \* bytes at the end that fix leaves out         (10)
    TAIL,        \* bytes at the end of a short interval that random
                 \*   leaves out                                 (1000)
    MARGIN, RUN, \* random leaves MARGIN bytes of a window out and touches
                 \*   RUN bytes in a row                         (20 and 10)
    MAX_ATT,     \* touches of a window while holding            (50)
    SLICES       \* turns over the two halves while holding      (10)

PatternType == {"fix", "stride", "seq", "repeat", "random"}

ASSUME PatternAssumption ==
    /\ PAGE \in Nat /\ TAIL \in Nat \ {0} /\ MARGIN \in Nat
    /\ RUN \in 1..MARGIN
    /\ PAGE >= 2 * (TAIL + MARGIN + 2)
    /\ FIX_MARGIN \in 1..PAGE
    /\ STRIDE_CUT \in 1..1023
    /\ MAX_DIST \in Nat \ {0}
    /\ MIN_CNT \in Nat \ {0}
    /\ MAX_CNT \in Nat \ {0}
    /\ MAX_ATT \in Nat \ {0}
    /\ SLICES \in Nat \ {0, 1}
    /\ Length \in [Mapping -> Nat]
    /\ \A m \in Mapping : Length[m] % PAGE = 0 /\ Length[m] > 0
    /\ Patterns \subseteq PatternType

VARIABLES
    access_type,    \* the access type of the run
    pc,             \* "idle", "running" or "exited"
    addr,           \* the mapping it was called for
    in_transition,
    i,              \* index into the mapping; for random, the page
    rep_count,      \* turns left of repeat
    slices_left,    \* the n of random_touch_n
    which_slice,    \* 0 or 1: the half random is in
    att,            \* the j of random_touch_page
    fix_head,       \* nodes of the fix bookkeeping, newest first
    at,             \* first and last byte touched by the last step
    visited         \* windows random has touched in this call

vars == <<access_type, pc, addr, in_transition, i, rep_count, slices_left,
          which_slice, att, fix_head, at, visited>>
args == <<access_type, addr, in_transition>>
randoms == <<slices_left, which_slice, att, visited>>

len == Length[addr]
NoByte == <<0, -1>>
Span == Int \X Int

Init ==
    /\ access_type \in Patterns
    /\ pc = "idle"
    /\ addr \in Mapping
    /\ in_transition = FALSE
    /\ i = 0
    /\ rep_count = 0
    /\ slices_left = 0
    /\ which_slice = 0
    /\ att = 0
    /\ fix_head = <<>>
    /\ at = NoByte
    /\ visited = {}

-----------------------------------------------------------------------------
(* Strides and repeats *)

(* The pieces stride_get_offset tries, halving from STRIDE_CUT down to 1   *)
Halvings == {1, 2, 4, 8, 16, 32, 64, 128, 256, 512}
Pieces == {STRIDE_CUT \div h : h \in Halvings} \ {0}

(* The first piece that gives a stride that is not 0 *)
stride_get_offset(l) ==
    l \div (CHOOSE p \in Pieces :
              p <= l /\ \A q \in Pieces : q <= l => q <= p)

repeat_get_distance(l) == stride_get_offset(l)

(* MAX_CNT times the part of MAX_DIST that is left, rounded up.  The       *)
(* rounding of the code is on doubles; it agrees for every dist < MAX_DIST.*)
repeat_get_count(dist) ==
    IF dist >= MAX_DIST THEN MIN_CNT
    ELSE (MAX_CNT * (MAX_DIST - dist) + MAX_DIST - 1) \div MAX_DIST

(* The windows of random: the half of the mapping, its pages, and the      *)
(* window of the current page, which ends the interval when it reaches it. *)
switcher == len \div 2
begin == IF which_slice = 0 THEN 0 ELSE switcher
end == IF which_slice = 0 THEN switcher ELSE len
pages == IF (end - begin) \div PAGE = 0 THEN 1 ELSE (end - begin) \div PAGE
start_index == IF pages > 1 THEN begin + PAGE * i ELSE begin
end_index == IF pages > 1 THEN PAGE + start_index ELSE end - TAIL
touch_len == end_index - start_index
InWindow == i < pages /\ end_index < end

attempts == IF in_transition THEN 2 ELSE MAX_ATT

-----------------------------------------------------------------------------
Running(type) == pc = "running" /\ access_type = type

(* touch calls the function of the access type for a mapping. *)
call(m, tr) ==
    /\ pc = "idle"
    /\ pc' = "running"
    /\ addr' = m
    /\ in_transition' = tr
    /\ i' = 0
    /\ rep_count' = IF access_type = "repeat"
                    THEN repeat_get_count(repeat_get_distance(Length[m])) ELSE 0
    /\ slices_left' = IF tr THEN 2 ELSE SLICES
    /\ which_slice' = 0
    /\ att' = IF tr THEN 2 ELSE MAX_ATT
    /\ visited' = {}
    /\ at' = NoByte
    /\ UNCHANGED <<access_type, fix_head>>

(* Mutated form: the list is not searched. *)
fix_exists_never(m) == {}

(* The node of a mapping: the set of the one found, {} for NULL. *)
fix_exists(m) ==
    {fix_head[k] : k \in {j \in DOMAIN fix_head : fix_head[j].addr = m}}

fix_rand_loc == 0..(len - FIX_MARGIN)

(* The first call for a mapping decides on its byte, and touches it. *)
fix_first ==
    /\ Running("fix")
    /\ fix_exists(addr) = {}
    /\ \E loc \in fix_rand_loc :
         /\ fix_head' = <<[addr |-> addr, loc |-> loc]>> \o fix_head
         /\ at' = <<loc, loc>>
    /\ pc' = "idle"
    /\ UNCHANGED <<args, i, rep_count, randoms>>

(* No memory for the node: the program exits. *)
fix_no_memory ==
    /\ Running("fix")
    /\ fix_exists(addr) = {}
    /\ pc' = "exited"
    /\ UNCHANGED <<args, i, rep_count, randoms, fix_head, at>>

(* Later calls touch the same byte. *)
fix_again ==
    /\ Running("fix")
    /\ \E node \in fix_exists(addr) : at' = <<node.loc, node.loc>>
    /\ pc' = "idle"
    /\ UNCHANGED <<args, i, rep_count, randoms, fix_head>>

(* Mutated form: one byte too many. *)
Left_inclusive(last) == i <= last
Left(last) == i < last

(* One turn of pattern_stride or of pattern_seq *)
walk(step) ==
    /\ IF Left(len)
       THEN at' = <<i, i>> /\ i' = i + step /\ UNCHANGED pc
       ELSE pc' = "idle" /\ UNCHANGED <<at, i>>
    /\ UNCHANGED <<args, rep_count, randoms, fix_head>>

stride_turn == Running("stride") /\ walk(stride_get_offset(len))
seq_turn == Running("seq") /\ walk(1)

(* Mutated form: one turn too many. *)
TurnsLeft_inclusive == rep_count >= 0
TurnsLeft == rep_count > 0

(* One turn of the inner loop of pattern_repeat, or the end of one of its  *)
(* outer loop                                                              *)
repeat_turn ==
    /\ Running("repeat")
    /\ TurnsLeft
    /\ IF i < repeat_get_distance(len)
       THEN at' = <<i, i>> /\ i' = i + 1 /\ UNCHANGED rep_count
       ELSE i' = 0 /\ rep_count' = rep_count - 1 /\ UNCHANGED at
    /\ UNCHANGED <<args, pc, randoms, fix_head>>

repeat_end ==
    /\ Running("repeat")
    /\ ~TurnsLeft
    /\ pc' = "idle"
    /\ UNCHANGED <<args, i, rep_count, randoms, fix_head, at>>

(* random_touch_page: RUN bytes from a random index of the window, the     *)
(* index short of MARGIN bytes                                             *)
random_touch_page ==
    /\ Running("random")
    /\ slices_left > 0
    /\ InWindow
    /\ att > 0
    /\ \E index \in 0..(touch_len - MARGIN - 1) :
         at' = <<start_index + index, start_index + index + RUN - 1>>
    /\ att' = att - 1
    /\ visited' = visited \cup {<<which_slice, i>>}
    /\ UNCHANGED <<args, pc, i, rep_count, slices_left, which_slice,
                   fix_head>>

(* random_touch: the next page *)
random_next_page ==
    /\ Running("random")
    /\ slices_left > 0
    /\ InWindow
    /\ att = 0
    /\ i' = i + 1
    /\ att' = attempts
    /\ UNCHANGED <<args, pc, rep_count, slices_left, which_slice, fix_head, at,
                   visited>>

(* Mutated forms: the halves do not alternate; the turns are not counted.  *)
next_slice_same == slices_left' = slices_left - 1 /\ which_slice' = which_slice
next_slice_uncounted ==
    slices_left' = slices_left /\ which_slice' = 1 - which_slice

next_slice == slices_left' = slices_left - 1 /\ which_slice' = 1 - which_slice

(* random_touch_n: the other half *)
random_next_slice ==
    /\ Running("random")
    /\ slices_left > 0
    /\ ~InWindow
    /\ next_slice
    /\ i' = 0
    /\ att' = attempts
    /\ UNCHANGED <<args, pc, rep_count, fix_head, at, visited>>

random_end ==
    /\ Running("random")
    /\ slices_left = 0
    /\ pc' = "idle"
    /\ UNCHANGED <<args, i, rep_count, randoms, fix_head, at>>

exited == pc = "exited" /\ UNCHANGED vars

Turn ==
    \/ fix_first \/ fix_no_memory \/ fix_again
    \/ stride_turn \/ seq_turn
    \/ repeat_turn \/ repeat_end
    \/ random_touch_page \/ random_next_page \/ random_next_slice \/ random_end

Next ==
    \/ \E m \in Mapping, tr \in BOOLEAN : call(m, tr)
    \/ Turn
    \/ exited

Spec == Init /\ [][Next]_vars

(* A pattern that was called runs on: the program has one thread. *)
FairSpec == Spec /\ WF_vars(Turn)

-----------------------------------------------------------------------------
(* Properties *)

Node == [addr : Mapping, loc : Nat]

(* Every variable keeps its C type. *)
TypeOK ==
    /\ access_type \in PatternType
    /\ pc \in {"idle", "running", "exited"}
    /\ addr \in Mapping
    /\ in_transition \in BOOLEAN
    /\ i \in Nat
    /\ rep_count \in Nat
    /\ slices_left \in Nat
    /\ which_slice \in {0, 1}
    /\ att \in Nat
    /\ fix_head \in Seq(Node)
    /\ at \in Span
    /\ visited \in SUBSET ({0, 1} \X Nat)

(* No pattern reaches outside the mapping it was called for, whatever its  *)
(* length and whatever is drawn.                                           *)
InBounds == at # NoByte => 0 <= at[1] /\ at[1] <= at[2] /\ at[2] < len

(* Fix "always refer[s] the same address": a mapping has one node, and a   *)
(* call of fix touches the byte of the node it finds.                      *)
FixNodeUnique ==
    \A j, k \in DOMAIN fix_head : fix_head[j].addr = fix_head[k].addr => j = k
FixStays ==
    [][Running("fix") /\ pc' = "idle"
        => \A j \in DOMAIN fix_head :
             fix_head[j].addr = addr
               => at' = <<fix_head[j].loc, fix_head[j].loc>>]_vars

(* A random access touches both halves of the mapping, on every length:    *)
(* the break on the last page never skips a half.                          *)
BothHalves ==
    [][Running("random") /\ pc' = "idle"
        => {w[1] : w \in visited} = {0, 1}]_vars

(* A call returns, or the program has no memory left.                      *)
Returns == (pc = "running") ~> (pc \in {"idle", "exited"})

-----------------------------------------------------------------------------
(* What the comments say and the code does not do *)

(* random_touch goes over the pages of its interval, while i < pages; its  *)
(* FIXME says that corner cases are not handled properly.                  *)
EveryPageVisited ==
    Running("random") /\ ~InWindow /\ slices_left > 0 =>
        \A k \in 0..(pages - 1) : <<which_slice, k>> \in visited

=============================================================================
