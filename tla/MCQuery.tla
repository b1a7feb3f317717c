------------------------------- MODULE MCQuery ------------------------------
(* Instances of Query for TLC. *)
EXTENDS Query

CONSTANTS t1, t2, a1, a2

MCSymmetry == Permutations({t1, t2}) \cup Permutations({a1, a2})

Row(ts, tag, entity, count, value) ==
    [timestamp |-> ts, metric |-> "m", tag |-> tag, entity_idx |-> entity,
     count |-> count, value_sum |-> count * value, value_min |-> value - 1,
     value_max |-> value + 1, value_p50 |-> value]

(* Rows on both sides of the end of a month, an empty tag beside "T", a    *)
(* key that is written twice, and equal counts.                            *)
MCRows ==
    { Row(1, 0, "a", 2, 4), Row(2, 2, "b", 2, -3), Row(5, 0, "a", 3, 4), Row(5, 1, "a", 2, 2) }

(* Of the conditions one is refused by the library, one by the server.     *)
MCCalls ==
    { select_stat_count_avg(1, 3),
      select_stat_groupby_tag(2),
      select_stat_groupby_time(0, 0),
      select_stat_groupby_tag_ordered(Order("value_avg", FALSE, 0), 3),
      select_stat_groupby_time_ordered(0, Order("count", TRUE, 1), 3),
      select_stat_groupby_time_ordered(0, Order("count", TRUE, -1), 3),
      select_stat_groupby_tag_ordered(Order("boundary", TRUE, 1), 2),
      [select_stat_groupby_tag_ordered(Order("count", TRUE, 1), 1)
          EXCEPT !.tm_start = 5, !.entity_idx = "a"] }

MCConds == {c \in MCCalls : ~Refused(c) /\ InRange(c)}

(* What the theorem of SelectEndToEnd asks of the conditions.              *)
ASSUME MCNoneReachesBack == NoneReachesBack
=============================================================================
