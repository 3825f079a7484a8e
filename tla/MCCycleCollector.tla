-------------------------- MODULE MCCycleCollector --------------------------
(* Model-checking instance of CycleCollector.                                *)
EXTENDS CycleCollector, TLC

Perms == Permutations(Objects) \cup Permutations(Lists)
=============================================================================
