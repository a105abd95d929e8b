------------------------------ MODULE MC_Sched ------------------------------
(* Instances of Sched: priorities 0 to 2, and values that name them.       *)
EXTENDS Sched, TLC

Values == {0, 2}
Symmetric == Permutations(Goal \ ({Main} \cup Waiter))
=============================================================================
