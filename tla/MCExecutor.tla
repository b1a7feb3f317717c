----------------------------- MODULE MCExecutor -----------------------------
(* Instances of Executor for TLC. *)
EXTENDS Executor

Section(number, hard, step) == [number |-> number, hard |-> hard, step |-> step]

MCGarbage == {-1, 3}

MCInitConf == Section(1, 2, 1)

(* A larger pool, a size that is left out, no resizing, a refused section. *)
MCSettings == {Section(2, 3, 1), Section(Missing, 2, 1), Section(1, 1, 0),
               Section(0, 2, 1)}
=============================================================================
