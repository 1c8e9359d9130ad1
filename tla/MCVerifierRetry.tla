---------------------------- MODULE MCVerifierRetry ----------------------------
(* VerifierRetry with 20 and 40 minutes of cooldown in units of 20 minutes, or *)
(* with both in one unit where a longer day would leave too many states.       *)
EXTENDS VerifierRetry

PolicyCooldown == [n \in Slots |-> n - 2]
ShortCooldown == [n \in Slots |-> 1]
================================================================================
