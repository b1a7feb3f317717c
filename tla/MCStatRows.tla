----------------------------- MODULE MCStatRows -----------------------------
(* EventStat and ConnPool for TLC, composed as TinyTask and run() do it:     *)
(* the statistics of a metric first, then its rows into the SQL store.       *)
(* The pool does not look at the statistics, so that it goes on for one of   *)
(* the inputs only.                                                          *)
EXTENDS EventStat, ConnPool

Ev(tag, msgid, value) == [metric |-> "m", tag |-> tag, msgid |-> msgid, value |-> value]

(* Up to three items with two tags, equal message ids and negative values.  *)
ShortInputs ==
    UNION {[1 .. n -> {Ev(t, m, v) : t \in {"T", "F"}, m \in 1 .. 3, v \in {-2, 1, 3}}] :
              n \in 1 .. 3}

(* Nine to eleven values under one tag, where every quantile has a rank of  *)
(* its own.                                                                 *)
LongInputs ==
    UNION {{[i \in 1 .. n |-> Ev("T", i, f[i])] : f \in [1 .. n -> {0, 3}]} : n \in 9 .. 11}

(* Every permutation of 0 .. 4, so that the order of arrival matters.       *)
MixedInputs ==
    {[i \in 1 .. 5 |-> Ev("T", i, f[i])] :
        f \in {g \in [1 .. 5 -> 0 .. 4] : \A i, j \in 1 .. 5 : g[i] = g[j] => i = j}}

AllInputs == ShortInputs \cup LongInputs \cup MixedInputs

StoredInput == <<Ev("T", 1, 3), Ev("F", 2, 1)>>

RowsInit == StatInit /\ PoolInit

RowsNext ==
    \/ Calc /\ UNCHANGED connPoolVars
    \/ done /\ data = StoredInput /\ PoolNext /\ UNCHANGED statVars

RowsSpec == RowsInit /\ [][RowsNext]_<<statVars, connPoolVars>> /\ PoolFairness
=============================================================================
