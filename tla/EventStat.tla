------------------------------ MODULE EventStat ------------------------------
(***************************************************************************)
(* The statistics of one metric of one slot: aggregate_by_tag and          *)
(* calc_event_info_each_metric of Business/EventHandler.cpp.  The result   *)
(* goes into the rows that do_process_event hands to the store.            *)
(*                                                                         *)
(* The values of a report are int64_t, the statistics and the vector they  *)
(* are taken from are int32_t: IntBits is the width of the narrow type.    *)
(***************************************************************************)
EXTENDS EventItem, FiniteSets, SequencesExt

CONSTANTS
    IntBits,    \* width of the narrow integer type
    Inputs      \* the vectors of items (all of one metric) that are tried

ASSUME IntBitsAssumption == IntBits \in Nat \ {0} /\ 2 ^ IntBits \in Nat \ {0}

(* The items of one metric: what calc_event_info_each_metric is given.     *)
ASSUME InputsAssumption ==
    \A d \in Inputs : /\ d \in Seq(Range(d))
                      /\ \A i \in DOMAIN d : d[i].value \in Int
                      /\ \A i, j \in DOMAIN d : d[i].metric = d[j].metric

(* Conversion to the narrow type, modulo 2^IntBits.                        *)
Narrow(v) ==
    LET m == 2 ^ IntBits
        u == v % m
    IN  IF u < m \div 2 THEN u ELSE u - m

(* The contract of std::nth_element: the element at position n (from 0) is *)
(* the one that a sorted vector would have there.                          *)
nth_element(values, n) ==
    CHOOSE v \in Range(values) :
        /\ Cardinality({i \in DOMAIN values : values[i] < v}) <= n
        /\ n < Cardinality({i \in DOMAIN values : values[i] <= v})

-----------------------------------------------------------------------------
(* Mutant: the id is not taken out of the set when its item is copied.     *)
Dedup_KeepsId(data) == data

(* The loop over ids: an item is copied when its id is still in the set.   *)
Dedup(data) ==
    LET copy(acc, item) ==
            IF item.msgid \in acc.ids
            THEN [new |-> Append(acc.new, item), ids |-> acc.ids \ {item.msgid}]
            ELSE acc
        ids == {data[i].msgid : i \in DOMAIN data}
    IN  IF Cardinality(ids) # Len(data)
        THEN FoldLeft(copy, [new |-> <<>>, ids |-> ids], data).new
        ELSE data

EmptyInfo == [count |-> 0, value_sum |-> 0, values |-> <<>>]

aggregate_by_tag(infos, item) ==
    LET old == IF item.tag \in DOMAIN infos THEN infos[item.tag] ELSE EmptyInfo
        new == [count     |-> old.count + 1,
                value_sum |-> old.value_sum + item.value,
                values    |-> Append(old.values, Narrow(item.value))]
    IN  [t \in DOMAIN infos \cup {item.tag} |-> IF t = item.tag THEN new ELSE infos[t]]

(* Mutant: the rank counts from 1, so a quantile is taken one too high.    *)
Stat_OffByOne(info) ==
    LET len == Len(info.values)
        at(n) == nth_element(info.values, IF n + 1 < len THEN n + 1 ELSE n)
    IN  [count |-> info.count, value_sum |-> info.value_sum,
         value_avg |-> Narrow(Quotient(info.value_sum, info.count)),
         value_min |-> nth_element(info.values, 0),
         value_max |-> nth_element(info.values, len - 1),
         value_p10 |-> at(len \div 10),
         value_p50 |-> at(len \div 2),
         value_p90 |-> at((9 * len) \div 10)]

(* len * 0.1, len * 0.5 and len * 0.9 are computed in double and cut off;  *)
(* the doubles 0.1 and 0.9 are above the decimal fractions, so a whole     *)
(* product is never rounded down below itself.                             *)
Stat(info) ==
    LET len == Len(info.values)
        at(n) == nth_element(info.values, n)
    IN  [count     |-> info.count,
         value_sum |-> info.value_sum,
         value_avg |-> Narrow(Quotient(info.value_sum, info.count)),
         value_min |-> at(0),
         value_max |-> at(len - 1),
         value_p10 |-> at(len \div 10),
         value_p50 |-> at(len \div 2),
         value_p90 |-> at((9 * len) \div 10)]

calc_event_info_each_metric(data) ==
    LET infos == FoldLeft(aggregate_by_tag, <<>>, Dedup(data))
    IN  [t \in DOMAIN infos |-> Stat(infos[t])]

-----------------------------------------------------------------------------
VARIABLES
    data,   \* the items of the metric
    info,   \* the statistics by tag
    done

statVars == <<data, info, done>>

StatInit == data \in Inputs /\ info = <<>> /\ done = FALSE

Calc ==
    /\ ~done
    /\ info' = calc_event_info_each_metric(data)
    /\ done' = TRUE
    /\ UNCHANGED data

StatSpec == StatInit /\ [][Calc]_statVars

-----------------------------------------------------------------------------
(* Properties.  They compare the result with definitions that do not       *)
(* follow the code's loops.                                                *)

TagItems(t) == {i \in Kept(data) : data[i].tag = t}

(* The items do_process_event counts for a tag are the first ones of each  *)
(* message id (the set EventHandler puts into its rows), a tag whose items *)
(* are all duplicates has no row, and the sum is taken over the same items *)
(* in full width.                                                          *)
CountsTheKept ==
    done => /\ DOMAIN info = {data[i].tag : i \in Kept(data)}
            /\ \A t \in DOMAIN info :
                  /\ info[t].count = Cardinality(TagItems(t))
                  /\ info[t].value_sum =
                        MapThenSumSet(LAMBDA i : data[i].value, TagItems(t))

Fits(v) == Narrow(v) = v
AllFit == \A i \in DOMAIN data : Fits(data[i].value)

(* A fraction q/10 of the values, rounded down, and no more lies strictly  *)
(* below the quantile's rank.                                              *)
IsQuantile(v, q, t) ==
    LET below == Cardinality({i \in TagItems(t) : data[i].value < v})
        upTo  == Cardinality({i \in TagItems(t) : data[i].value <= v})
    IN  10 * below <= q * Cardinality(TagItems(t)) /\ q * Cardinality(TagItems(t)) < 10 * upTo

(* The quantiles are what their columns say, and in order between the      *)
(* smallest and the largest value, when the values fit the narrow type; so *)
(* is the average, also of negative values, where the division of          *)
(* calc_event_info_each_metric cuts towards zero.                          *)
QuantilesInOrder ==
    done /\ AllFit => \A t \in DOMAIN info :
        /\ IsQuantile(info[t].value_p10, 1, t)
        /\ IsQuantile(info[t].value_p50, 5, t)
        /\ IsQuantile(info[t].value_p90, 9, t)
        /\ info[t].value_min <= info[t].value_p10
        /\ info[t].value_p10 <= info[t].value_p50
        /\ info[t].value_p50 <= info[t].value_p90
        /\ info[t].value_p90 <= info[t].value_max
        /\ info[t].value_min <= info[t].value_avg
        /\ info[t].value_avg <= info[t].value_max

=============================================================================
