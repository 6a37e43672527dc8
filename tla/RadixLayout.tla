----------------------------- MODULE RadixLayout -----------------------------
(***************************************************************************)
(* The arithmetic of radix_join.cpp that all radix joins share: how many   *)
(* radix bits and passes, and how much padding between the clusters.       *)
(***************************************************************************)
EXTENDS Integers, FiniteSets

CONSTANTS
  CacheTuples,     (* max_tuples_in_cache: L2_CACHE_TUPLES / 4          *)
  MaxPassBits,     (* space_in_l1: bits that one pass can partition by  *)
  ForceTwoPasses,  (* FORCE_2_PHASES                                    *)
  SmallPadding     (* SMALL_PADDING_TUPLES                              *)

ASSUME LayoutAssumption ==
  /\ {CacheTuples, MaxPassBits} \subseteq Nat \ {0}
  /\ SmallPadding \in Nat
  /\ ForceTwoPasses \in BOOLEAN

(* The smallest b with 2^b >= n. *)
Log2Ceil(n) == CHOOSE b \in 0 .. n : 2 ^ b >= n /\ \A c \in 0 .. n : 2 ^ c >= n => b <= c

(* The macro wraps to 0 for 0. *)
NextPow2(v) == IF v = 0 THEN 0 ELSE 2 ^ Log2Ceil(v)

calc_num_radix_bits(num_r, nthreads) ==
  LET required == (num_r + CacheTuples - 1) \div CacheTuples
  IN Log2Ceil(IF required > nthreads THEN required ELSE nthreads)

calc_num_passes(bits) == IF ForceTwoPasses \/ bits > MaxPassBits THEN 2 ELSE 1

bits_pass_1(bits, passes) == bits \div passes
bits_pass_2(bits, passes) == bits - bits \div passes
fanout_pass_1(bits, passes) == 2 ^ bits_pass_1(bits, passes)
fanout_pass_2(bits, passes) == 2 ^ bits_pass_2(bits, passes)

(* Empty slots behind each cluster of pass 1. *)
padding_tuples(bits, passes) == SmallPadding * (fanout_pass_2(bits, passes) + 1)

(* HASH_BIT_MODULO(key, ((1 << d) - 1) << r, r) *)
HashBits(key, r, d) == (key \div 2 ^ r) % 2 ^ d
=============================================================================
