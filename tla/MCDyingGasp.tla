---------------------------- MODULE MCDyingGasp ----------------------------
(* DyingGasp for TLC: two processes that are interchangeable.               *)
EXTENDS DyingGasp, TLC

PidSymmetry == Permutations(Pids)
=============================================================================
