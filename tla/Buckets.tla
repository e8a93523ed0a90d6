-------------------------------- MODULE Buckets --------------------------------
(* The arithmetic the matching dispatcher shares between its shards            *)
(* (matching/bucket.rs, matching/dispatcher.rs): the bucket that owns a        *)
(* rating, how wide a ticket searches after a wait, and how many buckets that  *)
(* search reaches on either side of the owner.  No recursive operator here, so *)
(* that MatchingProofs can prove about it.                                     *)
EXTENDS Integers

CONSTANTS InitialDelta,    \* initial_elo_delta
          DeltaStep,       \* elo_step
          StepSeconds,     \* elo_step_seconds
          MaximumDelta     \* maximum_elo_delta

(* What ErpsConfig::validate accepts of the four numbers. *)
ValidRange ==
  /\ InitialDelta \in Nat /\ DeltaStep \in Nat /\ MaximumDelta \in Nat
  /\ StepSeconds \in Nat \ {0}
  /\ InitialDelta <= MaximumDelta

ASSUME RangeAssumption == ValidRange

Distance(x, y) == IF x >= y THEN x - y ELSE y - x

(* i32::div_euclid(100): rounds towards minus infinity, as \div does. *)
Bucket(rating) == rating \div 100

(* How many buckets on each side of its own a search of width d reaches. *)
Halo(d) == ((IF d > 0 THEN d ELSE 0) + 99) \div 100

(* The search width of a ticket that has waited that many seconds. *)
SearchDelta(waited) ==
  LET grown == InitialDelta + DeltaStep * (waited \div StepSeconds)
  IN  IF grown <= MaximumDelta THEN grown ELSE MaximumDelta
================================================================================
