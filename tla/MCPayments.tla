----------------------------- MODULE MCPayments -----------------------------
(* Two previews, two keys and three calls: two calls that race and a third   *)
(* that finds what they left.                                                *)
EXTENDS Payments, TLC
Alike == Permutations(Quote) \cup Permutations(Key) \cup Permutations(Call)
=============================================================================
