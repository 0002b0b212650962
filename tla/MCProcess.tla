----------------------------- MODULE MCProcess -----------------------------
(* Process on small instances. *)
EXTENDS Process

\* Whole and fractional multipliers, ceilings above and below the initial wait,
\* products that overflow, and settings that validate refuses.
MCRetryPolicies ==
    [initialWait : 0..5,
     multiplier  : [num : {1, 2, 3, 5}, den : {1, 2}],
     maxWait     : {0, 1, 4, 7, 12}]

Symmetry == Permutations(Tasks)

=============================================================================
