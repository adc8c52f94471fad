---------------------------- MODULE FeeSchedule ----------------------------
(***************************************************************************)
(* FeeSchedule::compute_message_fee of src/primitives/src/v0.rs:           *)
(* base.saturating_add(n_bytes.saturating_mul(per_byte)) over the unsigned *)
(* Balance, after widening n_bytes from usize (debug_assert: Balance is no *)
(* narrower).  Balance is u128 in the code; here it has BalanceBits bits   *)
(* so that TLC can enumerate every input of a narrower type, including     *)
(* those at and past the point of overflow.                                *)
(***************************************************************************)
EXTENDS Integers

CONSTANTS BalanceBits,   \* width of Balance (128 in the code)
          SizeBits       \* width of usize, at most BalanceBits

ASSUME SizeBits <= BalanceBits

VARIABLE probe

MaxBalance == 2^BalanceBits - 1

Balances == 0..MaxBalance

(* u128::saturating_add and u128::saturating_mul. *)
SaturatingAdd(x, y) == IF x + y > MaxBalance THEN MaxBalance ELSE x + y
SaturatingMul(x, y) == IF x * y > MaxBalance THEN MaxBalance ELSE x * y

(* Mutant: a wrapping multiplication. *)
ComputeMessageFeeWrappingMul(schedule, n_bytes) ==
    SaturatingAdd(schedule.base, (n_bytes * schedule.per_byte) % (MaxBalance + 1))

(* FeeSchedule::compute_message_fee. *)
ComputeMessageFee(schedule, n_bytes) ==
    SaturatingAdd(schedule.base, SaturatingMul(n_bytes, schedule.per_byte))

Probes == [base : Balances, per_byte : Balances, n_bytes : 0..(2^SizeBits - 1)]

Init == probe \in Probes

(* Each input is examined once; the specification then stays where it is. *)
Examine == UNCHANGED probe

Spec == Init /\ [][Examine]_probe

(* The fee of a message is the linear fee base + n_bytes * per_byte       *)
(* whenever that fits in a Balance and the largest Balance otherwise: it  *)
(* never wraps to a small fee at numeric extremes, and a longer message   *)
(* never costs less than a shorter one.                                   *)
FeeIsSaturatedLinearFee ==
    LET s == [base |-> probe.base, per_byte |-> probe.per_byte]
        linear == probe.base + probe.n_bytes * probe.per_byte
    IN /\ ComputeMessageFee(s, probe.n_bytes)
            = IF linear > MaxBalance THEN MaxBalance ELSE linear
       /\ probe.n_bytes > 0 =>
            ComputeMessageFee(s, probe.n_bytes - 1)
                <= ComputeMessageFee(s, probe.n_bytes)
=============================================================================
