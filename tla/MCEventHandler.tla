--------------------------- MODULE MCEventHandler ---------------------------
(* Instances of EventHandler for TLC. *)
EXTENDS EventHandler, TLC

CONSTANTS e1, e2

Ev(id, metric, tag, msgid) == [id |-> id, metric |-> metric, tag |-> tag, msgid |-> msgid]
Rep(ts, data) == [service |-> "srv", timestamp |-> ts, data |-> data]

Symmetry == Permutations({e1, e2})

MCConf == [linger |-> 1, step |-> 2, size |-> 1]
ItemsOf(reports) == UNION {ItemsIn(r.data) : r \in reports}

(* Slots of two seconds.  The slot of seconds 2 and 3 is reported in two    *)
(* parts, with two tags, a second metric and one duplicate msgid; with the  *)
(* later slots enough work piles up for the helper threads.                 *)
PipelineReports ==
    { Rep(1, << Ev(1, "m", "T", 1) >>),
      Rep(2, << Ev(2, "m", "T", 2), Ev(3, "n", "T", 2) >>),
      Rep(3, << Ev(4, "m", "F", 2), Ev(5, "m", "T", 3) >>),
      Rep(5, << Ev(6, "m", "T", 4) >>),
      Rep(7, << Ev(7, "m", "T", 5) >>) }
PipelineItems == ItemsOf(PipelineReports)

(* A report of another service and two that fall into different slots of    *)
(* two seconds but into one of three; the second comes from the future as   *)
(* long as the clock shows 1.                                               *)
ChangingReports ==
    { [service |-> "srv#1", timestamp |-> 1, data |-> << Ev(1, "m", "T", 1) >>],
      Rep(1, << Ev(2, "m", "T", 1) >>),
      Rep(2, << Ev(3, "m", "T", 2), Ev(4, "m", "F", 3) >>) }
ChangingItems == ItemsOf(ChangingReports)

=============================================================================
