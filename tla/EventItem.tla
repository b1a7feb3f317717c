----------------------------- MODULE EventItem -----------------------------
(***************************************************************************)
(* What the business layer does with the time stamp of a report and with   *)
(* the items of one time slot: Business/EventHandler.h (EventHandlerConf)  *)
(* and the duplicate check of Business/EventHandler.cpp.  Constant-level   *)
(* operators only, shared by the modules that handle items and statistics. *)
(*                                                                         *)
(* An item is a record with at least the fields metric, tag and msgid      *)
(* (event_data_t); the value it carries matters to EventStat alone.        *)
(***************************************************************************)
EXTENDS Integers, Sequences

(* Mutant: rounds down, so that an event is filed under a slot that is not *)
(* later than its own time stamp.                                          *)
nice_step_Floor(t, step) == t - (t % step)

(* The slot of time t is the END of its step: strictly later than t.       *)
nice_step(t, step) == t + (step - (t % step))

(* The positions of data that survive the duplicate check: of the items of *)
(* one metric with the same msgid, whatever their tag, only the first.     *)
Kept(data) ==
    {i \in DOMAIN data :
        \A j \in 1 .. (i - 1) :
            data[j].metric = data[i].metric => data[j].msgid # data[i].msgid}

(* The items the duplicate check throws away.                              *)
Duplicates(data) == {data[i] : i \in DOMAIN data \ Kept(data)}

(* A row is written for every metric and tag that still has an item.       *)
RowKeys(data) == {<<data[i].metric, data[i].tag>> : i \in Kept(data)}

(* The items of data that are counted in the row of key k.                 *)
KeptOfKey(data, k) ==
    {data[i] : i \in {j \in Kept(data) : <<data[j].metric, data[j].tag>> = k}}

(* Integer division of C++: towards zero.                                  *)
Quotient(a, b) == IF a < 0 THEN -((-a) \div b) ELSE a \div b
=============================================================================
