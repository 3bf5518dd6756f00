------------------------------ MODULE StmaLtma ------------------------------
(***************************************************************************)
(* -S and -L on a customised kernel: reset_stma_ltma sets two lengths of   *)
(* the kernel, STMA and LTMA, through /proc/<pid>/pd_len, and reads them   *)
(* back.  The same code is in mem_gobbler.c and in vector_manager.c.       *)
(*                                                                         *)
(* The lengths are unsigned 64-bit numbers; U64 is 2^64.  The answers of   *)
(* stdio and of the kernel are choices: an open may fail, a write may be   *)
(* lost when the stream is closed, where nobody looks, and the kernel may  *)
(* store less than it was given.                                           *)
(***************************************************************************)
EXTENDS Integers

CONSTANTS
    U64,            \* values of a u64 (2^64)
    KERNEL_MAX,     \* longest length the kernel stores
    OLD_LENGTHS,    \* what pd_len holds before: a pair of lengths
    LengthArgs      \* arguments of -S and -L that are tried

ASSUME LengthAssumption ==
    /\ U64 \in Nat /\ U64 > 1
    /\ KERNEL_MAX \in Nat
    /\ OLD_LENGTHS \in Nat \X Nat
    /\ LengthArgs \subseteq 0..(U64 - 1)

VARIABLES
    stma, ltma,     \* the options
    pd_len,         \* the pair the kernel has
    reset           \* how far the reset is

lengths == <<stma, ltma, pd_len, reset>>

(* "set": the program goes on with the lengths read back; "exit": an error *)
(* was found; "crash": fread on the NULL of a failed fopen                 *)
ResetStates == {"no", "derived", "opened", "written", "set", "exit", "crash"}

LInit ==
    /\ stma = 0 /\ ltma = 0
    /\ pd_len = OLD_LENGTHS
    /\ reset = "no"

opt_S(v) == stma' = v /\ UNCHANGED <<ltma, pd_len, reset>>
opt_L(v) == ltma' = v /\ UNCHANGED <<stma, pd_len, reset>>

(* The length that was not given is derived from the other one. *)
stma_f == IF stma = 0 THEN ltma \div 2 ELSE stma
ltma_f == IF ltma = 0 THEN (stma * 2) % U64 ELSE ltma

Progress(from, to) == reset = from /\ reset' = to /\ UNCHANGED <<stma, ltma>>

(* reset_stma_ltma; main calls it if a length was given. *)
reset_derive ==
    /\ stma # 0 \/ ltma # 0
    /\ Progress("no", IF stma_f # 0 /\ ltma_f # 0 THEN "derived" ELSE "exit")
    /\ UNCHANGED pd_len

(* The old lengths are read, and used for a debug line only. *)
reset_read_old ==
    /\ Progress("derived", "opened") \/ Progress("derived", "exit")
    /\ UNCHANGED pd_len

(* fwrite fills the buffer of the stream; fclose writes it to the kernel.  *)
reset_write ==
    \/ Progress("opened", "exit") /\ UNCHANGED pd_len
    \/ /\ Progress("opened", "written")
       /\ \/ UNCHANGED pd_len
          \/ pd_len' = <<stma_f, ltma_f>>
          \/ stma_f <= KERNEL_MAX /\ ltma_f > KERNEL_MAX
             /\ pd_len' = <<stma_f, KERNEL_MAX>>

(* Mutated form: an error only when both lengths differ. *)
AsAsked_one(data) == data[1] = stma_f \/ data[2] = ltma_f

AsAsked(data) == data[1] = stma_f /\ data[2] = ltma_f

(* A read that fails leaves the zeros of memset. *)
reset_verify ==
    /\ \/ Progress("written", "crash")
       \/ \E data \in {pd_len, <<0, 0>>} :
            Progress("written", IF AsAsked(data) THEN "set" ELSE "exit")
    /\ UNCHANGED pd_len

ResetStep == reset_derive \/ reset_read_old \/ reset_write \/ reset_verify

(* The program may go on. *)
ResetDone == IF stma # 0 \/ ltma # 0 THEN reset = "set" ELSE reset = "no"

-----------------------------------------------------------------------------
(* Properties *)

LTypeOK ==
    /\ stma \in 0..(U64 - 1) /\ ltma \in 0..(U64 - 1)
    /\ pd_len \in Nat \X Nat
    /\ reset \in ResetStates

(* A write that is lost or cut short is found out: the program goes on     *)
(* only when the kernel has each length that was given, neither is 0, and  *)
(* a short one that was derived is not above the long one.                 *)
KernelAsAsked ==
    reset = "set" =>
        /\ stma # 0 => pd_len[1] = stma
        /\ ltma # 0 => pd_len[2] = ltma
        /\ pd_len[1] > 0 /\ pd_len[2] > 0
        /\ stma = 0 => pd_len[1] <= pd_len[2]

=============================================================================
