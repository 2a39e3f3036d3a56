-------------------------- MODULE MCAppDbLifecycle --------------------------
(* An instance of AppDbLifecycle for TLC: neither the dashboards nor the    *)
(* handlers differ.                                                         *)
EXTENDS AppDbLifecycle, TLC

Symmetry == Permutations(Ids) \cup Permutations(Procs)
=============================================================================
