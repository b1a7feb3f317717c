------------------------ MODULE HeraclesClientProofs ------------------------
(* Theorems about HeraclesClient, for every value of its constants. *)
EXTENDS HeraclesClient, FiniteSetTheorems, SequenceTheorems, TLAPS

(***************************************************************************)
(* The reports that still exist, as one line: those that were sent, the    *)
(* one in hand, those in the queue.  A step of run() takes nothing from    *)
(* the line, or a piece out of it.                                         *)
(***************************************************************************)
InHand(r) == IF r.data = <<>> THEN <<>> ELSE <<r>>

Line(s, r, q) == s \o InHand(r) \o q

Cat(a, b) == a \o b

(* S is R without the n reports that follow the k-th.                      *)
Drops(R, S, k, n) ==
    /\ k + n <= Len(R) /\ Len(S) = Len(R) - n
    /\ \A i \in 1 .. k : S[i] = R[i]
    /\ \A i \in k + 1 .. Len(S) : S[i] = R[i + n]

(* Where a report of S was in R.                                           *)
Was(i, k, n) == IF i <= k THEN i ELSE i + n

Hand(r) == IF r.data = <<>> THEN 0 ELSE 1

LEMMA LineParts ==
    ASSUME NEW s \in Seq(Report), NEW r \in Report, NEW q \in Seq(Report)
    PROVE  /\ Line(s, r, q) \in Seq(Report)
           /\ Len(Line(s, r, q)) = Len(s) + Hand(r) + Len(q)
           /\ \A i \in 1 .. Len(s) : Line(s, r, q)[i] = s[i]
           /\ r.data # <<>> => Line(s, r, q)[Len(s) + 1] = r
           /\ \A i \in 1 .. Len(q) : Line(s, r, q)[Len(s) + Hand(r) + i] = q[i]
<1>0. PICK h \in Nat : h = Hand(r) /\ h = IF r.data = <<>> THEN 0 ELSE 1
  BY DEF Hand
<1>1. PICK x : x = InHand(r)
  OBVIOUS
<1>2. x \in Seq(Report) /\ Len(x) = h /\ (r.data # <<>> => x[1] = r)
  BY <1>0, <1>1 DEF InHand
<1>3. PICK a \in Nat, b \in Nat : a = Len(s) /\ b = Len(q)
  OBVIOUS
<1>4. PICK c \in Nat : c = a + h
  OBVIOUS
<1>5. PICK sx : /\ sx = s \o x /\ sx \in Seq(Report) /\ Len(sx) = c
                /\ \A i \in 1 .. c : sx[i] = IF i <= a THEN s[i] ELSE x[i - a]
  <2>1. PICK sx : sx = s \o x
    OBVIOUS
  <2>2. /\ sx \in Seq(Report) /\ Len(sx) = Len(s) + Len(x)
        /\ \A i \in 1 .. Len(s) + Len(x) : sx[i] = IF i <= Len(s) THEN s[i] ELSE x[i - Len(s)]
    BY <1>2, <2>1, ConcatProperties
  <2> QED BY <1>2, <1>3, <1>4, <2>1, <2>2
<1>6. PICK l : l = sx \o q
  OBVIOUS
<1>7. /\ l \in Seq(Report) /\ Len(l) = c + b
      /\ \A i \in 1 .. c + b : l[i] = IF i <= c THEN sx[i] ELSE q[i - c]
  <2>1. /\ l \in Seq(Report) /\ Len(l) = Len(sx) + Len(q)
        /\ \A i \in 1 .. Len(sx) + Len(q) : l[i] = IF i <= Len(sx) THEN sx[i] ELSE q[i - Len(sx)]
    <3>1. sx \in Seq(Report)
      BY <1>5
    <3> QED BY ONLY <1>6, <3>1, q \in Seq(Report), ConcatProperties
  <2> QED BY <1>3, <1>5, <2>1
<1>8. l = Line(s, r, q)
  BY <1>1, <1>5, <1>6 DEF Line
<1>9. ASSUME NEW i \in 1 .. a PROVE l[i] = s[i]
  <2>1. i \in 1 .. c + b /\ i \in 1 .. c /\ i <= c /\ i <= a
    BY <1>4
  <2> QED BY <1>5, <1>7, <2>1
<1>10. ASSUME r.data # <<>> PROVE l[a + 1] = r
  <2>1. h = 1
    BY <1>0, <1>10
  <2>2. a + 1 \in 1 .. c + b /\ a + 1 \in 1 .. c /\ a + 1 <= c
        /\ ~(a + 1 <= a) /\ (a + 1) - a = 1
    BY <1>4, <2>1
  <2> QED BY <1>2, <1>5, <1>7, <1>10, <2>2
<1>11. ASSUME NEW i \in 1 .. b PROVE l[c + i] = q[i]
  <2>1. c + i \in 1 .. c + b /\ ~(c + i <= c) /\ (c + i) - c = i
    OBVIOUS
  <2> QED BY <1>7, <2>1
<1> QED BY <1>0, <1>3, <1>4, <1>7, <1>8, <1>9, <1>10, <1>11

LEMMA LineHolds ==
    ASSUME NEW s \in Seq(Report), NEW r \in Report, NEW q \in Seq(Report), r.data # <<>>
    PROVE  /\ Len(Line(s, r, q)) = Len(s) + 1 + Len(q)
           /\ \A i \in 1 .. Len(s) : Line(s, r, q)[i] = s[i]
           /\ Line(s, r, q)[Len(s) + 1] = r
           /\ \A i \in 1 .. Len(q) : Line(s, r, q)[Len(s) + 1 + i] = q[i]
<1>1. Hand(r) = 1
  BY DEF Hand
<1>2. /\ Len(Line(s, r, q)) = Len(s) + Hand(r) + Len(q)
      /\ \A i \in 1 .. Len(s) : Line(s, r, q)[i] = s[i]
      /\ Line(s, r, q)[Len(s) + 1] = r
      /\ \A i \in 1 .. Len(q) : Line(s, r, q)[Len(s) + Hand(r) + i] = q[i]
  BY LineParts, ZenonT(30)
<1> QED BY <1>1, <1>2

LEMMA LineFree ==
    ASSUME NEW s \in Seq(Report), NEW q \in Seq(Report)
    PROVE  /\ Len(Line(s, NoReport, q)) = Len(s) + Len(q)
           /\ \A i \in 1 .. Len(s) : Line(s, NoReport, q)[i] = s[i]
           /\ \A i \in 1 .. Len(q) : Line(s, NoReport, q)[Len(s) + i] = q[i]
<1>1. NoReport \in Report /\ NoReport.data = <<>>
  BY DEF NoReport, Report
<1>2. Hand(NoReport) = 0
  BY <1>1 DEF Hand
<1>3. /\ Len(Line(s, NoReport, q)) = Len(s) + Hand(NoReport) + Len(q)
      /\ \A i \in 1 .. Len(s) : Line(s, NoReport, q)[i] = s[i]
      /\ \A i \in 1 .. Len(q) : Line(s, NoReport, q)[Len(s) + Hand(NoReport) + i] = q[i]
  BY <1>1, LineParts, ZenonT(30)
<1>4. Len(s) \in Nat /\ Len(s) + Hand(NoReport) = Len(s)
  BY <1>2
<1> QED BY <1>3, <1>4

(* What all reports have in common, the line has.                          *)
LEMMA LineIn ==
    ASSUME NEW R, NEW s \in Seq(R), NEW r, InHand(r) \in Seq(R), NEW q \in Seq(R)
    PROVE  Line(s, r, q) \in Seq(R)
<1>1. s \o InHand(r) \in Seq(R)
  BY ConcatProperties
<1> QED BY <1>1, ConcatProperties DEF Line

LEMMA Associative ==
    ASSUME NEW a \in Seq(Report), NEW b \in Seq(Report), NEW c \in Seq(Report)
    PROVE  Cat(Cat(a, b), c) = Cat(a, Cat(b, c))
BY ConcatAssociative DEF Cat

(* do_report: the report in hand becomes the last that was sent.           *)
LEMMA LineSent ==
    ASSUME NEW s \in Seq(Report), NEW r \in Report, NEW q \in Seq(Report), r.data # <<>>
    PROVE  Line(Append(s, r), NoReport, q) = Line(s, r, q)
<1>1. Append(s, r) = s \o <<r>>
  BY AppendIsConcat
<1>2. InHand(NoReport) = <<>> /\ InHand(r) = <<r>>
  BY DEF InHand, NoReport
<1>3. s \o <<r>> \in Seq(Report)
  OBVIOUS
<1>4. (s \o <<r>>) \o <<>> = s \o <<r>>
  BY <1>3, ConcatEmptySeq
<1> QED BY <1>1, <1>2, <1>4 DEF Line

(* POP: the first of the queue is in hand.                                 *)
LEMMA LinePop ==
    ASSUME NEW s \in Seq(Report), NEW q \in Seq(Report), q # <<>>, Head(q).data # <<>>
    PROVE  Line(s, Head(q), Tail(q)) = Line(s, NoReport, q)
<1>1. PICK r, t : r = Head(q) /\ t = Tail(q)
  OBVIOUS
<1>2. r \in Report /\ t \in Seq(Report) /\ r.data # <<>>
  BY <1>1, HeadTailProperties
<1>3. q = Cat(<<r>>, t)
  <2>1. Len(q) \in Nat \ {0}
    BY EmptySeq
  <2>2. 1 \in 1 .. Len(q) /\ Len(q) \in 1 .. Len(q)
    BY <2>1
  <2>3. SubSeq(q, 1, Len(q)) = <<q[1]>> \o SubSeq(q, 1 + 1, Len(q))
    BY <2>2, SubSeqRecursiveFirst
  <2>4. SubSeq(q, 1, Len(q)) = q /\ SubSeq(q, 1 + 1, Len(q)) = t /\ q[1] = r
    BY <1>1, SubSeqFull, TailIsSubSeq
  <2> QED BY <2>3, <2>4 DEF Cat
<1>4. InHand(NoReport) = <<>> /\ InHand(r) = <<r>> /\ <<r>> \in Seq(Report)
  BY <1>2 DEF InHand, NoReport
<1>5. Line(s, r, t) = Cat(Cat(s, <<r>>), t)
  BY <1>4 DEF Line, Cat
<1>6. Cat(Cat(s, <<r>>), t) = Cat(s, Cat(<<r>>, t))
  BY ONLY <1>2, <1>4, s \in Seq(Report), Associative
<1>7. Line(s, NoReport, q) = Cat(s, q)
  <2>1. s \o <<>> = s
    BY ConcatEmptySeq
  <2> QED BY <1>4, <2>1 DEF Line, Cat
<1> QED BY <1>1, <1>3, <1>5, <1>6, <1>7

(* PUSH.                                                                   *)
LEMMA LinePush ==
    ASSUME NEW s \in Seq(Report), NEW r \in Report, NEW q \in Seq(Report), NEW x \in Report
    PROVE  Line(s, r, Append(q, x)) = Append(Line(s, r, q), x)
<1>1. PICK a : a = Cat(s, InHand(r))
  OBVIOUS
<1>2. InHand(r) \in Seq(Report) /\ <<x>> \in Seq(Report)
  BY DEF InHand
<1>3. a \in Seq(Report)
  BY <1>1, <1>2, ConcatProperties DEF Cat
<1>4. Line(s, r, q) = Cat(a, q) /\ Line(s, r, Append(q, x)) = Cat(a, Append(q, x))
  BY <1>1 DEF Line, Cat
<1>5. Append(q, x) = Cat(q, <<x>>)
  BY AppendIsConcat DEF Cat
<1>6. Cat(a, q) \in Seq(Report)
  BY <1>3, ConcatProperties DEF Cat
<1>7. Append(Cat(a, q), x) = Cat(Cat(a, q), <<x>>)
  BY <1>6, AppendIsConcat DEF Cat
<1>8. Cat(Cat(a, q), <<x>>) = Cat(a, Cat(q, <<x>>))
  BY ONLY <1>2, <1>3, q \in Seq(Report), Associative
<1> QED BY <1>4, <1>5, <1>7, <1>8

(* A report that could not be sent.                                        *)
LEMMA LineFails ==
    ASSUME NEW s \in Seq(Report), NEW r \in Report, NEW q \in Seq(Report), r.data # <<>>
    PROVE  /\ Drops(Line(s, r, q), Line(s, NoReport, q), Len(s), 1)
           /\ Line(s, r, q)[Len(s) + 1] = r
<1>1. PICK a \in Nat, b \in Nat : a = Len(s) /\ b = Len(q)
  OBVIOUS
<1>2. PICK R, S : R = Line(s, r, q) /\ S = Line(s, NoReport, q)
  OBVIOUS
<1>3. /\ Len(R) = a + 1 + b /\ R[a + 1] = r
      /\ \A i \in 1 .. a : R[i] = s[i]
      /\ \A i \in 1 .. b : R[a + 1 + i] = q[i]
  <2>1. /\ Len(R) = Len(s) + 1 + Len(q) /\ \A i \in 1 .. Len(s) : R[i] = s[i]
        /\ R[Len(s) + 1] = r /\ \A i \in 1 .. Len(q) : R[Len(s) + 1 + i] = q[i]
    BY <1>2, LineHolds, SMTT(30)
  <2> QED BY <1>1, <2>1
<1>5. /\ Len(S) = a + b
      /\ \A i \in 1 .. a : S[i] = s[i]
      /\ \A i \in 1 .. b : S[a + i] = q[i]
  BY <1>1, <1>2, LineFree
<1>6. ASSUME NEW i \in a + 1 .. Len(S) PROVE S[i] = R[i + 1]
  <2>1. PICK j \in 1 .. b : i = a + j /\ i + 1 = a + 1 + j
    <3>1. i - a \in 1 .. b /\ i = a + (i - a) /\ i + 1 = a + 1 + (i - a)
      BY <1>5
    <3> QED BY <3>1
  <2> QED BY <1>3, <1>5, <2>1
<1>7. a + 1 <= Len(R) /\ Len(S) = Len(R) - 1
  BY <1>3, <1>5
<1>8. \A i \in 1 .. a : S[i] = R[i]
  BY <1>3, <1>5
<1> QED BY <1>1, <1>2, <1>3, <1>6, <1>7, <1>8 DEF Drops

(* SHRINK_FRONT.                                                           *)
LEMMA LineShrinks ==
    ASSUME NEW s \in Seq(Report), NEW q \in Seq(Report), NEW n \in 0 .. Len(q)
    PROVE  /\ Drops(Line(s, NoReport, q), Line(s, NoReport, SubSeq(q, n + 1, Len(q))), Len(s), n)
           /\ \A i \in 1 .. n : Line(s, NoReport, q)[Len(s) + i] = q[i]
<1>1. PICK a \in Nat, b \in Nat : a = Len(s) /\ b = Len(q)
  OBVIOUS
<1>2. PICK t : t = SubSeq(q, n + 1, Len(q))
  OBVIOUS
<1>3. n \in 0 .. b /\ t \in Seq(Report) /\ Len(t) = b - n /\ \A i \in 1 .. b - n : t[i] = q[n + i]
  <2>1. \A i \in n + 1 .. Len(q) : q[i] \in Report
    OBVIOUS
  <2>2. /\ t \in Seq(Report)
        /\ Len(t) = IF n + 1 <= Len(q) THEN Len(q) - (n + 1) + 1 ELSE 0
        /\ \A i \in 1 .. Len(q) - (n + 1) + 1 : t[i] = q[n + 1 + i - 1]
    BY <1>2, <2>1, SubSeqProperties
  <2>3. n \in 0 .. b /\ b - (n + 1) + 1 = b - n
        /\ (IF n + 1 <= b THEN b - (n + 1) + 1 ELSE 0) = b - n
    BY <1>1
  <2>4. \A i \in 1 .. b - n : n + 1 + i - 1 = n + i
    BY <1>1
  <2> QED BY <1>1, <2>2, <2>3, <2>4
<1>4. PICK R, S : R = Line(s, NoReport, q) /\ S = Line(s, NoReport, t)
  OBVIOUS
<1>6. /\ Len(R) = a + b
      /\ \A i \in 1 .. a : R[i] = s[i]
      /\ \A i \in 1 .. b : R[a + i] = q[i]
  BY <1>1, <1>4, LineFree
<1>7. /\ Len(S) = a + Len(t)
      /\ \A i \in 1 .. a : S[i] = s[i]
      /\ \A i \in 1 .. Len(t) : S[a + i] = t[i]
  BY <1>1, <1>3, <1>4, LineFree
<1>8. ASSUME NEW i \in a + 1 .. Len(S) PROVE S[i] = R[i + n]
  <2>1. PICK j \in 1 .. b - n : /\ i = a + j /\ i + n = a + (n + j)
                               /\ j \in 1 .. Len(t) /\ n + j \in 1 .. b
    <3>1. /\ i - a \in 1 .. b - n /\ i = a + (i - a) /\ i + n = a + (n + (i - a))
          /\ n + (i - a) \in 1 .. b /\ i - a \in 1 .. Len(t)
      BY <1>3, <1>7
    <3> QED BY <3>1
  <2>2. S[i] = t[j] /\ t[j] = q[n + j]
    BY <1>3, <1>7, <2>1
  <2>3. R[i + n] = q[n + j]
    BY <1>6, <2>1
  <2> QED BY <2>2, <2>3
<1>9. a + n <= Len(R) /\ Len(S) = Len(R) - n
  BY <1>3, <1>6, <1>7
<1>10. \A i \in 1 .. a : S[i] = R[i]
  BY <1>6, <1>7
<1>11. \A i \in 1 .. n : R[a + i] = q[i]
  <2>1. \A i \in 1 .. n : i \in 1 .. b
    BY <1>3
  <2> QED BY <1>6, <2>1
<1> QED BY <1>1, <1>2, <1>4, <1>8, <1>9, <1>10, <1>11 DEF Drops

-----------------------------------------------------------------------------
(* The slot never holds more events than a size that was configured, so no *)
(* report does; run() has a report in hand while it is in do_report.       *)
GoodReport == {r \in Report : Len(r.data) \in UNION {1 .. z : z \in Sizes}}

HandInv ==
    /\ runPc = "report" => inHand \in GoodReport
    /\ runPc # "report" => inHand = NoReport

SizeInv ==
    /\ sent \in Seq(GoodReport) /\ submit_queue_ \in Seq(GoodReport)
    /\ conf_.size \in Sizes /\ \E z \in Sizes : Len(current_slot_) <= z
    /\ aborted => \E z \in Sizes : conf_.size < z

BaseInv == TypeOK /\ HandInv /\ SizeInv

LEMMA SizesAreSizes == Sizes \subseteq Nat \ {0}
BY ConfAssumption DEF Sizes, Conf

LEMMA Good ==
    /\ NoReport \in Report /\ NoReport.data = <<>>
    /\ \A r \in GoodReport : r \in Report /\ Len(r.data) > 0 /\ r.data # <<>>
    /\ \A S : S \in Seq(GoodReport) => S \in Seq(Report)
<1>1. NoReport \in Report /\ NoReport.data = <<>>
  BY DEF NoReport, Report
<1>2. ASSUME NEW r \in GoodReport PROVE r \in Report /\ Len(r.data) > 0 /\ r.data # <<>>
  <2>1. PICK z \in Sizes : Len(r.data) \in 1 .. z
    BY DEF GoodReport
  <2>2. z \in Nat
    BY <2>1, SizesAreSizes
  <2>3. Len(r.data) > 0 /\ r \in Report
    BY <2>1, <2>2 DEF GoodReport
  <2> QED BY <2>3
<1>3. \A S : S \in Seq(GoodReport) => S \in Seq(Report)
  BY <1>2
<1> QED BY <1>1, <1>2, <1>3

LEMMA EventsTyped ==
    /\ \A data \in Seq(Entry) : EventsIn(data) \subseteq Events
    /\ \A R \in Seq(Report) : EventsOfAll(R) \subseteq Events
<1>1. ASSUME NEW data \in Seq(Entry) PROVE EventsIn(data) \subseteq Events
  <2>1. ASSUME NEW n \in DOMAIN data PROVE data[n].ev \in Events
    <3>1. data[n] \in Entry
      OBVIOUS
    <3> QED BY <3>1 DEF Entry
  <2> QED BY <2>1 DEF EventsIn
<1>2. ASSUME NEW R \in Seq(Report) PROVE EventsOfAll(R) \subseteq Events
  <2>1. ASSUME NEW n \in DOMAIN R PROVE R[n].data \in Seq(Entry)
    <3>1. R[n] \in Report
      OBVIOUS
    <3> QED BY <3>1 DEF Report
  <2> QED BY <1>1, <2>1 DEF EventsOfAll
<1> QED BY <1>1, <1>2

(* A call of report_event puts its event into the slot.                    *)
LEMMA BaseReport ==
    ASSUME BaseInv, NEW t \in Threads, report_event(t)
    PROVE  BaseInv'
<1> USE DEF BaseInv, TypeOK
<1>1. /\ UNCHANGED <<now, conf_, reported, runVars, thread_terminate_, aborted, history>>
      /\ call[t] # None /\ call' = [call EXCEPT ![t] = None]
      /\ msgid_' = NextMsgid /\ current_time_' = now /\ current_slot_' = NewSlot(call[t])
      /\ PushSlot
  BY DEF report_event
<1>2. NextMsgid \in Nat
  BY BoundsAssumption DEF NextMsgid
<1>3. PICK kept : kept = IF MustPush THEN <<>> ELSE current_slot_
  OBVIOUS
<1>4. kept \in Seq(Entry)
  <2>1. <<>> \in Seq(Entry)
    OBVIOUS
  <2> QED BY <1>3, <2>1
<1>5. \E z \in Sizes : Len(kept) + 1 <= z
  <2>1. conf_.size \in Nat \ {0} /\ conf_.size \in Sizes
    BY SizesAreSizes DEF SizeInv
  <2>2. Len(kept) \in Nat /\ Len(kept) < conf_.size
    <3>1. CASE MustPush
      BY <1>3, <2>1, <3>1
    <3>2. CASE ~MustPush
      BY <1>3, <2>1, <3>2 DEF MustPush
    <3> QED BY <3>1, <3>2
  <2>3. Len(kept) + 1 <= conf_.size
    BY <2>1, <2>2
  <2> QED BY <2>1, <2>3
<1>6. current_slot_' \in Seq(Entry) /\ \E z \in Sizes : Len(current_slot_') <= z
  <2>1. CASE call[t] = Empty
    <3>1. current_slot_' = kept
      BY <1>1, <1>3, <2>1 DEF NewSlot
    <3>2. \E z \in Sizes : Len(kept) <= z
      BY <1>4, <1>5, SizesAreSizes
    <3> QED BY <1>4, <3>1, <3>2
  <2>2. CASE call[t] # Empty
    <3>1. PICK x : x = [ev |-> call[t], msgid |-> NextMsgid, at |-> now]
      OBVIOUS
    <3>2. x \in Entry
      BY <1>1, <1>2, <2>2, <3>1 DEF Entry
    <3>3. current_slot_' = Append(kept, x)
      BY <1>1, <1>3, <2>2, <3>1 DEF NewSlot
    <3>4. Append(kept, x) \in Seq(Entry) /\ Len(Append(kept, x)) = Len(kept) + 1
      BY <1>4, <3>2, AppendProperties
    <3> QED BY <1>5, <3>3, <3>4
  <2> QED BY <2>1, <2>2
<1>7. submit_queue_' \in Seq(GoodReport)
  <2>1. CASE MustPush /\ current_slot_ # <<>>
    <3>1. PICK r : r = [timestamp |-> current_time_, data |-> current_slot_]
      OBVIOUS
    <3>2. r \in Report /\ r.data = current_slot_
      BY <3>1 DEF Report
    <3>3. PICK z \in Sizes : Len(current_slot_) <= z
      BY DEF SizeInv
    <3>4. Len(current_slot_) \in Nat \ {0} /\ z \in Nat
      BY <2>1, SizesAreSizes
    <3>5. Len(current_slot_) \in 1 .. z
      BY <3>3, <3>4
    <3>6. r \in GoodReport
      BY <3>2, <3>3, <3>5 DEF GoodReport
    <3>7. submit_queue_' = Append(submit_queue_, r)
      BY <1>1, <2>1, <3>1 DEF PushSlot
    <3> QED BY <3>6, <3>7, AppendProperties DEF SizeInv
  <2>2. CASE ~(MustPush /\ current_slot_ # <<>>)
    BY <1>1, <2>2 DEF PushSlot, SizeInv
  <2> QED BY <2>1, <2>2
<1>8. TypeOK'
  <2>1. submit_queue_' \in Seq(Report)
    BY <1>7, Good
  <2>2. call' \in [Threads -> Events \cup {Empty, None}]
    BY <1>1
  <2> QED BY <1>1, <1>2, <1>6, <2>1, <2>2 DEF runVars, history
<1>9. HandInv' /\ SizeInv'
  BY <1>1, <1>6, <1>7 DEF HandInv, SizeInv, runVars, history
<1> QED BY <1>8, <1>9

LEMMA BaseAbort ==
    ASSUME BaseInv, NEW t \in Threads, report_event_Abort(t)
    PROVE  BaseInv'
<1> USE DEF BaseInv
<1>1. /\ UNCHANGED <<now, conf_, call, reported, slotVars, submit_queue_, runVars,
                     thread_terminate_, history>>
      /\ aborted' = TRUE /\ ~AssertOk
  BY DEF report_event_Abort
<1>2. PICK z \in Sizes : Len(current_slot_) <= z
  BY DEF SizeInv
<1>3. Len(current_slot_) \in Nat /\ z \in Nat /\ conf_.size \in Nat
  <2>1. Len(current_slot_) \in Nat
    BY DEF TypeOK
  <2>2. conf_.size \in Sizes
    BY DEF SizeInv
  <2> QED BY <2>1, <2>2, SizesAreSizes
<1>4. conf_.size < z
  BY <1>1, <1>2, <1>3 DEF AssertOk
<1>5. TypeOK'
  BY <1>1 DEF TypeOK, slotVars, runVars, history
<1> QED BY <1>1, <1>2, <1>4, <1>5 DEF HandInv, SizeInv, slotVars, runVars, history

LEMMA BaseRun ==
    ASSUME BaseInv, run
    PROVE  BaseInv'
<1> USE DEF BaseInv
<1>1. /\ UNCHANGED <<now, conf_, reported, slotVars, thread_terminate_, aborted, ignored>>
      /\ call[Submitter] = None
  BY DEF run, RunTop, RunExit, RunPopTimeout, RunPop, DoReport, DoReportFails, AfterReport,
         RunBelowLimit, RunAboveLimit, RunShrink, At, history
<1>2. call' \in [Threads -> Events \cup {Empty, None}]
  <2>1. call' = call \/ call' = [call EXCEPT ![Submitter] = Empty]
    BY DEF run, RunTop, RunExit, RunPopTimeout, RunPop, DoReport, DoReportFails, AfterReport,
           RunBelowLimit, RunAboveLimit, RunShrink, report_empty_event
  <2> QED BY <2>1 DEF TypeOK
<1>3. CASE RunTop \/ RunExit \/ RunPopTimeout \/ RunBelowLimit \/ RunAboveLimit
  <2>1. /\ UNCHANGED <<submit_queue_, inHand, history>> /\ runPc # "report"
        /\ runPc' \in {"top", "pop", "limit", "shrink", "exit"}
        /\ start' \in {start, now}
    BY <1>3 DEF RunTop, RunExit, RunPopTimeout, RunBelowLimit, RunAboveLimit, At
  <2>2. TypeOK'
    BY <1>1, <1>2, <2>1 DEF TypeOK, slotVars, history
  <2>3. HandInv' /\ SizeInv'
    BY <1>1, <2>1 DEF HandInv, SizeInv, slotVars, history
  <2> QED BY <2>2, <2>3
<1>4. CASE RunPop
  <2>1. /\ UNCHANGED <<start, history>> /\ submit_queue_ # <<>> /\ runPc' = "report"
        /\ inHand' = Head(submit_queue_) /\ submit_queue_' = Tail(submit_queue_)
    BY <1>4 DEF RunPop
  <2>2. inHand' \in GoodReport /\ submit_queue_' \in Seq(GoodReport)
    BY <2>1, HeadTailProperties DEF SizeInv
  <2>3. TypeOK'
    BY <1>1, <1>2, <2>1, <2>2, Good DEF TypeOK, slotVars, history
  <2>4. HandInv' /\ SizeInv'
    BY <1>1, <2>1, <2>2 DEF HandInv, SizeInv, slotVars, history
  <2> QED BY <2>3, <2>4
<1>5. CASE DoReport \/ DoReportFails
  <2>1. /\ UNCHANGED <<submit_queue_, start, shrunk>> /\ runPc = "report" /\ runPc' = "limit"
        /\ inHand' = NoReport
        /\ sent' \in {sent, Append(sent, inHand)} /\ lost' \in {lost, lost \cup EventsIn(inHand.data)}
    BY <1>5 DEF DoReport, DoReportFails, AfterReport, At
  <2>2. inHand \in GoodReport /\ inHand \in Report
    BY <2>1, Good DEF HandInv
  <2>3. sent' \in Seq(GoodReport)
    BY <2>1, <2>2, AppendProperties DEF SizeInv
  <2>4. lost' \subseteq Events
    <3>1. inHand.data \in Seq(Entry)
      BY <2>2 DEF Report
    <3> QED BY <2>1, <3>1, EventsTyped DEF TypeOK
  <2>5. TypeOK'
    BY <1>1, <1>2, <2>1, <2>3, <2>4, Good DEF TypeOK, slotVars
  <2>6. HandInv' /\ SizeInv'
    BY <1>1, <2>1, <2>3 DEF HandInv, SizeInv, slotVars
  <2> QED BY <2>5, <2>6
<1>6. CASE RunShrink
  <2>1. PICK n : n = Surplus(conf_.limit)
    OBVIOUS
  <2>2. n \in 0 .. Len(submit_queue_)
    <3>1. conf_.limit \in Nat /\ Len(submit_queue_) \in Nat
      BY DEF TypeOK, Conf
    <3> QED BY <2>1, <3>1 DEF Surplus
  <2>3. /\ UNCHANGED <<start, inHand, sent, lost>> /\ runPc = "shrink" /\ runPc' = "top"
        /\ shrunk' = shrunk \cup EventsOfAll(SubSeq(submit_queue_, 1, n))
        /\ submit_queue_' = SubSeq(submit_queue_, n + 1, Len(submit_queue_))
    BY <1>6, <2>1 DEF RunShrink, At
  <2>4. /\ Len(submit_queue_) \in Nat
        /\ \A i \in 1 .. Len(submit_queue_) : submit_queue_[i] \in GoodReport
    BY DEF SizeInv
  <2>5. SubSeq(submit_queue_, 1, n) \in Seq(GoodReport)
    <3>1. \A i \in 1 .. n : submit_queue_[i] \in GoodReport
      BY <2>2, <2>4
    <3> QED BY <2>2, <3>1, SubSeqProperties
  <2>6. submit_queue_' \in Seq(GoodReport)
    <3>1. \A i \in n + 1 .. Len(submit_queue_) : submit_queue_[i] \in GoodReport
      BY <2>2, <2>4
    <3> QED BY <2>2, <2>3, <2>4, <3>1, SubSeqProperties
  <2>7. shrunk' \subseteq Events
    <3>1. EventsOfAll(SubSeq(submit_queue_, 1, n)) \subseteq Events
      BY <2>5, Good, EventsTyped
    <3> QED BY <2>3, <3>1 DEF TypeOK
  <2>8. TypeOK'
    BY <1>1, <1>2, <2>3, <2>6, <2>7, Good DEF TypeOK, slotVars
  <2>9. HandInv' /\ SizeInv'
    BY <1>1, <2>3, <2>6 DEF HandInv, SizeInv, slotVars
  <2> QED BY <2>8, <2>9
<1> QED BY <1>3, <1>4, <1>5, <1>6 DEF run

LEMMA BaseNext == BaseInv /\ [Next]_vars => BaseInv'
<1> SUFFICES ASSUME BaseInv, [Next]_vars PROVE BaseInv'
  OBVIOUS
<1>1. CASE UNCHANGED vars
  BY <1>1 DEF BaseInv, TypeOK, HandInv, SizeInv, vars, slotVars, runVars, history
<1>2. CASE Tick
  BY <1>2 DEF Tick, BaseInv, TypeOK, HandInv, SizeInv, slotVars, runVars, history
<1>3. ASSUME NEW a \in Apps, CallReport(a) PROVE BaseInv'
  <2>1. /\ UNCHANGED <<now, conf_, slotVars, submit_queue_, runVars, thread_terminate_,
                       aborted, sent, lost, shrunk>>
        /\ reported < MaxEvents /\ reported' = reported + 1
        /\ \/ call' = [call EXCEPT ![a] = reported + 1] /\ UNCHANGED ignored
           \/ ignored' = ignored \cup {reported + 1} /\ UNCHANGED call
    BY <1>3 DEF CallReport
  <2>2. reported \in 0 .. MaxEvents
    BY DEF BaseInv, TypeOK
  <2>3. reported' \in 0 .. MaxEvents /\ reported + 1 \in Events
    BY <2>1, <2>2, BoundsAssumption DEF Events
  <2>4. TypeOK'
    BY <2>1, <2>3 DEF BaseInv, TypeOK, slotVars, runVars
  <2> QED BY <2>1, <2>4 DEF BaseInv, HandInv, SizeInv, slotVars, runVars
<1>4. ASSUME NEW t \in Threads, report_event(t) \/ report_event_Abort(t) PROVE BaseInv'
  BY <1>4, BaseReport, BaseAbort
<1>5. CASE run
  BY <1>5, BaseRun
<1>6. CASE Terminate
  BY <1>6 DEF Terminate, BaseInv, TypeOK, HandInv, SizeInv, slotVars, runVars, history
<1>7. ASSUME NEW c \in Conf, c.size \in Sizes, UpdateConf(c) PROVE BaseInv'
  BY <1>7 DEF UpdateConf, BaseInv, TypeOK, HandInv, SizeInv, slotVars, runVars, history
<1>8. CASE \E v \in EnabledUpdates : UpdateEnabled(v)
  BY <1>7, <1>8, ConfAssumption DEF UpdateEnabled, Conf, BaseInv, TypeOK, SizeInv
<1>9. CASE \E v \in LimitUpdates : UpdateLimit(v)
  BY <1>7, <1>9, ConfAssumption DEF UpdateLimit, Conf, BaseInv, TypeOK, SizeInv
<1>10. CASE \E v \in SizeUpdates : UpdateSize(v)
  BY <1>7, <1>10, ConfAssumption DEF UpdateSize, Conf, Sizes, BaseInv, TypeOK, SizeInv
<1> QED BY <1>1, <1>2, <1>3, <1>4, <1>5, <1>6, <1>8, <1>9, <1>10 DEF Next

LEMMA BaseInit == Init => BaseInv
<1> SUFFICES ASSUME Init PROVE BaseInv
  OBVIOUS
<1>1. <<>> \in Seq(Entry) /\ <<>> \in Seq(Report) /\ <<>> \in Seq(GoodReport) /\ Len(<<>>) = 0
  OBVIOUS
<1>2. TypeOK
  <2>1. /\ now \in Nat /\ conf_ \in Conf /\ reported \in 0 .. MaxEvents
        /\ msgid_ \in Nat /\ current_time_ \in Nat /\ start \in Nat
    BY ConfAssumption, BoundsAssumption DEF Init
  <2>2. call \in [Threads -> Events \cup {Empty, None}]
    BY DEF Init
  <2>3. /\ current_slot_ \in Seq(Entry) /\ submit_queue_ \in Seq(Report)
        /\ sent \in Seq(Report) /\ inHand \in Report
    BY <1>1, Good DEF Init
  <2>4. /\ runPc \in {"top", "pop", "report", "limit", "shrink", "exit"}
        /\ thread_terminate_ \in BOOLEAN /\ aborted \in BOOLEAN
        /\ lost \subseteq Events /\ shrunk \subseteq Events /\ ignored \subseteq Events
    BY DEF Init
  <2> QED BY <2>1, <2>2, <2>3, <2>4 DEF TypeOK
<1>3. HandInv
  BY DEF Init, HandInv
<1>4. SizeInv
  <2>1. InitConf.size \in Sizes /\ 0 <= InitConf.size
    BY SizesAreSizes DEF Sizes
  <2> QED BY <1>1, <2>1 DEF Init, SizeInv
<1> QED BY <1>2, <1>3, <1>4 DEF BaseInv

(* The line of all reports, as the code's three places hold it.            *)
LEMMA ReportsLine ==
    ASSUME BaseInv
    PROVE  /\ Reports = Line(sent, inHand, submit_queue_)
           /\ sent \in Seq(Report) /\ inHand \in Report /\ submit_queue_ \in Seq(Report)
           /\ Reports \in Seq(Report) /\ Reports \in Seq(GoodReport)
<1>1. Reports = Line(sent, inHand, submit_queue_)
  BY DEF Reports, Line, InHand
<1>2. sent \in Seq(Report) /\ inHand \in Report /\ submit_queue_ \in Seq(Report)
  BY DEF BaseInv, TypeOK
<1>3. InHand(inHand) \in Seq(GoodReport)
  <2>1. <<>> \in Seq(GoodReport)
    OBVIOUS
  <2>2. CASE runPc = "report"
    BY <2>1, <2>2 DEF BaseInv, HandInv, InHand
  <2>3. CASE runPc # "report"
    BY <2>1, <2>3, Good DEF BaseInv, HandInv, InHand
  <2> QED BY <2>2, <2>3
<1>4. Line(sent, inHand, submit_queue_) \in Seq(GoodReport)
  BY <1>3, LineIn DEF BaseInv, SizeInv
<1> QED BY <1>1, <1>2, <1>4, Good

LEMMA ReportsLineNext ==
    ASSUME BaseInv'
    PROVE  Reports' = Line(sent', inHand', submit_queue_') /\ Reports' \in Seq(Report)
<1>1. Reports' = Line(sent', inHand', submit_queue_')
  BY DEF Reports, Line, InHand
<1>2. sent' \in Seq(Report) /\ inHand' \in Report /\ submit_queue_' \in Seq(Report)
  BY DEF BaseInv, TypeOK
<1>3. InHand(inHand') \in Seq(Report)
  BY <1>2 DEF InHand
<1> QED BY <1>1, <1>2, <1>3, LineIn

(* Whatever sizes the configuration is given, no report of report_event is *)
(* empty or fuller than one of them, and the assertion that ends the       *)
(* process fails only below a size that was lowered.                       *)
THEOREM ReportsFit == Spec => []ReportSize
<1>1. BaseInv => ReportSize
  <2> SUFFICES ASSUME BaseInv PROVE ReportSize
    OBVIOUS
  <2>1. \A n \in DOMAIN Reports : Reports[n] \in GoodReport
    BY ReportsLine
  <2> QED BY <2>1 DEF ReportSize, GoodReport, BaseInv, SizeInv
<1> QED BY <1>1, BaseInit, BaseNext, PTL DEF Spec

-----------------------------------------------------------------------------
(* The events of the n reports that follow the k-th of R.                  *)
Piece(R, k, n) == UNION {EventsIn(R[i].data) : i \in k + 1 .. k + n}

(* The reports that remain keep their order.                               *)
LEMMA DropIndex ==
    ASSUME NEW R \in Seq(Report), NEW S \in Seq(Report), NEW k \in Nat, NEW n \in Nat,
           Drops(R, S, k, n)
    PROVE  /\ \A i \in DOMAIN S : /\ Was(i, k, n) \in DOMAIN R /\ S[i] = R[Was(i, k, n)]
                                 /\ Was(i, k, n) \notin k + 1 .. k + n
           /\ \A i, j \in DOMAIN S : i < j => Was(i, k, n) < Was(j, k, n)
           /\ \A i, j \in DOMAIN S : Was(i, k, n) = Was(j, k, n) => i = j
           /\ \A i \in DOMAIN R : i \in k + 1 .. k + n \/ \E j \in DOMAIN S : i = Was(j, k, n)
           /\ \A i \in k + 1 .. k + n : i \in DOMAIN R
<1>1. PICK a \in Nat, b \in Nat : a = Len(R) /\ b = Len(S)
  OBVIOUS
<1>2. k + n <= a /\ b = a - n /\ DOMAIN R = 1 .. a /\ DOMAIN S = 1 .. b
  BY <1>1 DEF Drops
<1>3. /\ \A i \in 1 .. k : S[i] = R[i]
      /\ \A i \in k + 1 .. b : S[i] = R[i + n]
  BY <1>1 DEF Drops
<1>4. ASSUME NEW i \in 1 .. b
      PROVE  Was(i, k, n) \in 1 .. a /\ S[i] = R[Was(i, k, n)] /\ Was(i, k, n) \notin k + 1 .. k + n
  <2>1. CASE i <= k
    <3>1. i \in 1 .. k /\ i \in 1 .. a /\ i \notin k + 1 .. k + n
      BY <1>2, <2>1
    <3> QED BY <1>3, <2>1, <3>1 DEF Was
  <2>2. CASE ~(i <= k)
    <3>1. i \in k + 1 .. b /\ i + n \in 1 .. a /\ i + n \notin k + 1 .. k + n
      BY <1>2, <2>2
    <3> QED BY <1>3, <2>2, <3>1 DEF Was
  <2> QED BY <2>1, <2>2
<1>5. ASSUME NEW i \in 1 .. b, NEW j \in 1 .. b
      PROVE  /\ i < j => Was(i, k, n) < Was(j, k, n)
             /\ Was(i, k, n) = Was(j, k, n) => i = j
  BY DEF Was
<1>6. ASSUME NEW i \in 1 .. a, i \notin k + 1 .. k + n PROVE \E j \in 1 .. b : i = Was(j, k, n)
  <2>1. CASE i <= k
    <3>1. i \in 1 .. b
      BY <1>2, <2>1
    <3> QED BY <2>1, <3>1 DEF Was
  <2>2. CASE ~(i <= k)
    <3>1. i - n \in 1 .. b /\ ~(i - n <= k) /\ (i - n) + n = i
      BY <1>2, <1>6, <2>2
    <3> QED BY <3>1 DEF Was
  <2> QED BY <2>1, <2>2
<1>7. \A i \in k + 1 .. k + n : i \in 1 .. a
  BY <1>2
<1> QED BY <1>2, <1>4, <1>5, <1>6, <1>7

LEMMA NothingDropped == ASSUME NEW R \in Seq(Report) PROVE Drops(R, R, 0, 0) /\ Piece(R, 0, 0) = {}
<1>1. PICK a \in Nat : a = Len(R)
  OBVIOUS
<1>2. 0 + 0 <= a /\ a = a - 0 /\ (\A i \in 0 + 1 .. a : i + 0 = i) /\ 0 + 1 .. 0 + 0 = {}
  OBVIOUS
<1> QED BY <1>1, <1>2 DEF Drops, Piece

(* What a step of run() does to the line and to the events given up.       *)
GivesUp(k, n) ==
    /\ Drops(Reports, Reports', k, n)
    /\ \/ lost' = lost \cup Piece(Reports, k, n) /\ shrunk' = shrunk
       \/ shrunk' = shrunk \cup Piece(Reports, k, n) /\ lost' = lost

LEMMA RunDrops ==
    ASSUME BaseInv, run
    PROVE  Reports' \in Seq(Report) /\ \E k, n \in Nat : GivesUp(k, n)
<1>1. BaseInv'
  BY BaseRun
<1>2. /\ Reports = Line(sent, inHand, submit_queue_)
      /\ sent \in Seq(Report) /\ inHand \in Report /\ submit_queue_ \in Seq(Report)
      /\ Reports \in Seq(Report)
  BY ReportsLine
<1>3. Reports' = Line(sent', inHand', submit_queue_') /\ Reports' \in Seq(Report)
  BY <1>1, ReportsLineNext
<1>4. ASSUME Reports' = Reports, lost' = lost, shrunk' = shrunk
      PROVE  \E k, n \in Nat : GivesUp(k, n)
  <2>1. GivesUp(0, 0)
    BY <1>2, <1>4, NothingDropped DEF GivesUp
  <2> QED BY <2>1
<1>5. CASE RunTop \/ RunExit \/ RunPopTimeout \/ RunBelowLimit \/ RunAboveLimit
  <2>1. UNCHANGED <<submit_queue_, inHand, history>>
    BY <1>5 DEF RunTop, RunExit, RunPopTimeout, RunBelowLimit, RunAboveLimit
  <2> QED BY <1>2, <1>3, <1>4, <2>1 DEF history
<1>6. CASE RunPop
  <2>1. /\ UNCHANGED history /\ submit_queue_ # <<>> /\ inHand = NoReport
        /\ inHand' = Head(submit_queue_) /\ submit_queue_' = Tail(submit_queue_)
    BY <1>6 DEF RunPop, At, BaseInv, HandInv
  <2>2. Head(submit_queue_).data # <<>>
    <3>1. Head(submit_queue_) \in GoodReport
      BY <2>1, HeadTailProperties DEF BaseInv, SizeInv
    <3> QED BY <3>1, Good
  <2>3. Line(sent, Head(submit_queue_), Tail(submit_queue_)) = Line(sent, NoReport, submit_queue_)
    BY <1>2, <2>1, <2>2, LinePop
  <2> QED BY <1>2, <1>3, <1>4, <2>1, <2>3 DEF history
<1>7. CASE DoReport \/ DoReportFails
  <2>1. UNCHANGED <<submit_queue_, shrunk>> /\ runPc = "report" /\ inHand' = NoReport
    BY <1>7 DEF DoReport, DoReportFails, AfterReport, At
  <2>2. inHand.data # <<>>
    BY <2>1, Good DEF BaseInv, HandInv
  <2>3. CASE DoReport
    <3>1. sent' = Append(sent, inHand) /\ lost' = lost
      BY <2>3 DEF DoReport
    <3>2. Line(Append(sent, inHand), NoReport, submit_queue_) = Line(sent, inHand, submit_queue_)
      BY <1>2, <2>2, LineSent
    <3> QED BY <1>2, <1>3, <1>4, <2>1, <3>1, <3>2
  <2>4. CASE DoReportFails
    <3>1. sent' = sent /\ lost' = lost \cup EventsIn(inHand.data)
      BY <2>4 DEF DoReportFails
    <3>2. PICK k \in Nat : k = Len(sent)
      BY <1>2
    <3>3. /\ Drops(Line(sent, inHand, submit_queue_), Line(sent, NoReport, submit_queue_), Len(sent), 1)
          /\ Line(sent, inHand, submit_queue_)[Len(sent) + 1] = inHand
      BY <1>2, <2>2, LineFails
    <3>4. Drops(Reports, Reports', k, 1) /\ Reports[k + 1] = inHand
      BY <1>2, <1>3, <2>1, <3>1, <3>2, <3>3
    <3>5. k + 1 .. k + 1 = {k + 1}
      OBVIOUS
    <3>6. Piece(Reports, k, 1) = EventsIn(inHand.data)
      BY <3>4, <3>5 DEF Piece
    <3>7. GivesUp(k, 1)
      BY <2>1, <3>1, <3>4, <3>6 DEF GivesUp
    <3> QED BY <1>3, <3>2, <3>7
  <2> QED BY <1>7, <2>3, <2>4
<1>8. CASE RunShrink
  <2>1. PICK n : n = Surplus(conf_.limit)
    OBVIOUS
  <2>2. n \in 0 .. Len(submit_queue_)
    <3>1. conf_.limit \in Nat /\ Len(submit_queue_) \in Nat
      BY DEF BaseInv, TypeOK, Conf
    <3> QED BY <2>1, <3>1 DEF Surplus
  <2>3. /\ UNCHANGED <<inHand, sent, lost>> /\ inHand = NoReport
        /\ shrunk' = shrunk \cup EventsOfAll(SubSeq(submit_queue_, 1, n))
        /\ submit_queue_' = SubSeq(submit_queue_, n + 1, Len(submit_queue_))
    BY <1>8, <2>1 DEF RunShrink, At, BaseInv, HandInv
  <2>4. PICK k \in Nat : k = Len(sent)
    BY <1>2
  <2>5. /\ Drops(Line(sent, NoReport, submit_queue_),
                 Line(sent, NoReport, SubSeq(submit_queue_, n + 1, Len(submit_queue_))), Len(sent), n)
        /\ \A i \in 1 .. n : Line(sent, NoReport, submit_queue_)[Len(sent) + i] = submit_queue_[i]
    BY <1>2, <2>2, LineShrinks
  <2>6. Drops(Reports, Reports', k, n) /\ \A i \in 1 .. n : Reports[k + i] = submit_queue_[i]
    BY <1>2, <1>3, <2>3, <2>4, <2>5
  <2>7. n \in Nat
    BY <1>2, <2>2
  <2>8. PICK f : f = SubSeq(submit_queue_, 1, n)
    OBVIOUS
  <2>9. DOMAIN f = 1 .. n /\ \A i \in 1 .. n : f[i] = submit_queue_[i]
    <3>1. PICK b \in Nat : b = Len(submit_queue_)
      BY <1>2
    <3>2. \A i \in 1 .. n : submit_queue_[i] \in Report
      BY <1>2, <2>2, <3>1
    <3>3. /\ f \in Seq(Report) /\ Len(f) = IF 1 <= n THEN n - 1 + 1 ELSE 0
          /\ \A i \in 1 .. n - 1 + 1 : f[i] = submit_queue_[1 + i - 1]
      BY <2>7, <2>8, <3>2, SubSeqProperties
    <3> QED BY <2>7, <3>3
  <2>10. Piece(Reports, k, n) = EventsOfAll(f)
    <3>1. \A i \in k + 1 .. k + n : i - k \in 1 .. n /\ k + (i - k) = i
      BY <2>7
    <3>2. \A i \in 1 .. n : k + i \in k + 1 .. k + n
      BY <2>7
    <3>3. \A i \in 1 .. n : Reports[k + i] = f[i]
      BY <2>6, <2>9
    <3>4. {EventsIn(Reports[i].data) : i \in k + 1 .. k + n} = {EventsIn(f[i].data) : i \in 1 .. n}
      BY <3>1, <3>2, <3>3
    <3> QED BY <2>9, <3>4 DEF Piece, EventsOfAll
  <2>11. GivesUp(k, n)
    BY <2>3, <2>6, <2>8, <2>10 DEF GivesUp
  <2> QED BY <1>3, <2>4, <2>7, <2>11
<1> QED BY <1>3, <1>5, <1>6, <1>7, <1>8 DEF run

(* What report_event does to it: nothing, or a report more at its end.     *)
LEMMA PushAppends ==
    ASSUME BaseInv, NEW t \in Threads, report_event(t)
    PROVE  LET r == [timestamp |-> current_time_, data |-> current_slot_]
               push == MustPush /\ current_slot_ # <<>>
           IN  /\ r \in Report /\ Reports \in Seq(Report) /\ Reports' \in Seq(Report)
               /\ push => Reports' = Append(Reports, r)
               /\ ~push => Reports' = Reports
<1> DEFINE r == [timestamp |-> current_time_, data |-> current_slot_]
<1>1. BaseInv'
  BY BaseReport
<1>2. r \in Report
  BY DEF BaseInv, TypeOK, Report
<1> HIDE DEF r
<1>3. /\ Reports = Line(sent, inHand, submit_queue_)
      /\ sent \in Seq(Report) /\ inHand \in Report /\ submit_queue_ \in Seq(Report)
      /\ Reports \in Seq(Report)
  BY ReportsLine
<1>4. Reports' = Line(sent', inHand', submit_queue_') /\ Reports' \in Seq(Report)
  BY <1>1, ReportsLineNext
<1>5. sent' = sent /\ inHand' = inHand
  BY DEF report_event, runVars, history
<1>6. ASSUME MustPush /\ current_slot_ # <<>> PROVE Reports' = Append(Reports, r)
  <2>1. submit_queue_' = Append(submit_queue_, r)
    BY <1>6 DEF report_event, PushSlot, r
  <2>2. Line(sent, inHand, Append(submit_queue_, r)) = Append(Line(sent, inHand, submit_queue_), r)
    BY <1>2, <1>3, LinePush, ZenonT(30)
  <2> QED BY <1>3, <1>4, <1>5, <2>1, <2>2
<1>7. ASSUME ~(MustPush /\ current_slot_ # <<>>) PROVE Reports' = Reports
  <2>1. submit_queue_' = submit_queue_
    BY <1>7 DEF report_event, PushSlot
  <2> QED BY <1>3, <1>4, <1>5, <2>1
<1> QED BY <1>2, <1>3, <1>4, <1>6, <1>7 DEF r

(* The other steps leave it alone.                                         *)
LEMMA ReportsKept ==
    ASSUME UNCHANGED <<sent, inHand, submit_queue_>>
    PROVE  Reports' = Reports
BY DEF Reports

-----------------------------------------------------------------------------
(* No report is younger than the slot, and the slot not younger than the   *)
(* clock.                                                                  *)
Stamped(data, time) == \A m \in DOMAIN data : data[m].at = time

InOrder(R, time) ==
    /\ \A n \in DOMAIN R : Stamped(R[n].data, R[n].timestamp) /\ R[n].timestamp <= time
    /\ \A m, n \in DOMAIN R : m < n => R[m].timestamp <= R[n].timestamp

OrderInv ==
    /\ InOrder(Reports, current_time_)
    /\ Stamped(current_slot_, current_time_)
    /\ current_time_ <= now

LEMMA OrderDrop ==
    ASSUME NEW R \in Seq(Report), NEW S \in Seq(Report), NEW k \in Nat, NEW n \in Nat,
           Drops(R, S, k, n), NEW time \in Nat, InOrder(R, time)
    PROVE  InOrder(S, time)
<1>1. /\ \A i \in DOMAIN S : Was(i, k, n) \in DOMAIN R /\ S[i] = R[Was(i, k, n)]
      /\ \A i, j \in DOMAIN S : i < j => Was(i, k, n) < Was(j, k, n)
  BY DropIndex
<1> QED BY <1>1 DEF InOrder

LEMMA OrderPush ==
    ASSUME NEW R \in Seq(Report), NEW r \in Report, NEW time \in Nat, NEW later \in Nat,
           InOrder(R, time), time <= later, r.timestamp = time, Stamped(r.data, time)
    PROVE  InOrder(Append(R, r), later)
<1>0. PICK a \in Nat : a = Len(R)
  OBVIOUS
<1>1. PICK S : a = Len(R) /\ S = Append(R, r)
  BY <1>0
<1>2. /\ DOMAIN S = 1 .. a + 1 /\ S[a + 1] = r /\ DOMAIN R = 1 .. a
      /\ \A i \in 1 .. a : S[i] = R[i] /\ R[i].timestamp \in Nat
  <2>1. /\ S \in Seq(Report) /\ Len(S) = a + 1 /\ S[a + 1] = r
        /\ \A i \in 1 .. a : S[i] = R[i]
    BY <1>1, AppendProperties
  <2>2. \A i \in 1 .. a : R[i] \in Report
    BY <1>1
  <2>3. \A x \in Report : x.timestamp \in Nat
    BY DEF Report
  <2> QED BY <1>1, <2>1, <2>2, <2>3
<1>3. ASSUME NEW i \in 1 .. a + 1 PROVE i \in 1 .. a \/ i = a + 1
  OBVIOUS
<1>4. ASSUME NEW i \in 1 .. a + 1
      PROVE  Stamped(S[i].data, S[i].timestamp) /\ S[i].timestamp <= time
  BY <1>2, <1>3 DEF InOrder
<1>5. ASSUME NEW i \in 1 .. a + 1 PROVE S[i].timestamp \in Nat
  BY <1>2, <1>3
<1>6. ASSUME NEW i \in 1 .. a + 1 PROVE S[i].timestamp <= later
  BY <1>4, <1>5
<1>7. ASSUME NEW i \in 1 .. a + 1, NEW j \in 1 .. a + 1, i < j
      PROVE  S[i].timestamp <= S[j].timestamp
  <2>1. i \in 1 .. a
    BY <1>7
  <2>2. CASE j \in 1 .. a
    BY <1>2, <1>7, <2>1, <2>2 DEF InOrder
  <2>3. CASE j = a + 1
    BY <1>2, <1>4, <2>3
  <2> QED BY <1>3, <2>2, <2>3
<1> QED BY <1>1, <1>2, <1>4, <1>6, <1>7 DEF InOrder

LEMMA OrderNext == OrderInv /\ BaseInv /\ [Next]_vars => OrderInv'
<1> SUFFICES ASSUME OrderInv, BaseInv, [Next]_vars PROVE OrderInv'
  OBVIOUS
<1>1. now \in Nat /\ current_time_ \in Nat
  BY DEF BaseInv, TypeOK
<1>2. ASSUME UNCHANGED <<sent, inHand, submit_queue_, current_slot_, current_time_>>,
             now' = now \/ now' = now + 1
      PROVE  OrderInv'
  <2>1. current_time_' <= now'
    BY <1>1, <1>2 DEF OrderInv
  <2> QED BY <1>2, <2>1, ReportsKept DEF OrderInv
<1>3. ASSUME NEW t \in Threads, report_event(t) PROVE OrderInv'
  <2>1. now' = now /\ current_time_' = now /\ current_slot_' = NewSlot(call[t])
    BY <1>3 DEF report_event
  <2>2. InOrder(Reports', current_time_')
    <3>1. PICK r : r = [timestamp |-> current_time_, data |-> current_slot_]
      OBVIOUS
    <3>2. r.timestamp = current_time_ /\ r.data = current_slot_
      BY <3>1
    <3>3. /\ r \in Report /\ Reports \in Seq(Report)
          /\ (MustPush /\ current_slot_ # <<>>) => Reports' = Append(Reports, r)
          /\ ~(MustPush /\ current_slot_ # <<>>) => Reports' = Reports
      BY <1>3, <3>1, PushAppends
    <3>4. /\ InOrder(Reports, current_time_) /\ current_time_ <= now
          /\ Stamped(current_slot_, current_time_)
      BY DEF OrderInv
    <3>5. CASE Reports' = Append(Reports, r)
      <4>1. InOrder(Append(Reports, r), now)
        BY ONLY <1>1, <3>2, <3>3, <3>4, OrderPush
      <4> QED BY <2>1, <3>5, <4>1
    <3>6. CASE Reports' = Reports
      <4>1. \A n \in DOMAIN Reports : Reports[n].timestamp \in Nat
        <5>1. \A n \in DOMAIN Reports : Reports[n] \in Report
          BY <3>3
        <5> QED BY <5>1 DEF Report
      <4>2. \A n \in DOMAIN Reports : Reports[n].timestamp <= now
        BY <1>1, <3>4, <4>1 DEF InOrder
      <4>3. InOrder(Reports, now)
        BY <3>4, <4>2 DEF InOrder
      <4> QED BY <2>1, <3>6, <4>3
    <3> QED BY <3>3, <3>5, <3>6
  <2>3. Stamped(current_slot_', current_time_')
    <3>1. PICK kept : kept = IF MustPush THEN <<>> ELSE current_slot_
      OBVIOUS
    <3>2. kept \in Seq(Entry) /\ Stamped(kept, now)
      <4>1. <<>> \in Seq(Entry) /\ DOMAIN <<>> = {}
        OBVIOUS
      <4>2. CASE MustPush
        BY <3>1, <4>1, <4>2 DEF Stamped
      <4>3. CASE ~MustPush
        <5>1. now = current_time_
          BY <4>3 DEF MustPush, NewSecond
        <5> QED BY <3>1, <4>3, <5>1 DEF OrderInv, BaseInv, TypeOK
      <4> QED BY <4>2, <4>3
    <3>3. CASE call[t] = Empty
      BY <2>1, <3>1, <3>2, <3>3 DEF NewSlot
    <3>4. CASE call[t] # Empty
      <4>1. PICK x : x = [ev |-> call[t], msgid |-> NextMsgid, at |-> now]
        OBVIOUS
      <4>2. x.at = now
        BY <4>1
      <4>3. current_slot_' = Append(kept, x)
        BY <2>1, <3>1, <3>4, <4>1 DEF NewSlot
      <4>4. current_slot_' \in Seq(Entry)
        BY <1>3, BaseReport DEF BaseInv, TypeOK
      <4>5. PICK n \in Nat : n = Len(kept)
        BY <3>2
      <4>6. /\ DOMAIN current_slot_' = 1 .. n + 1 /\ current_slot_'[n + 1] = x
            /\ DOMAIN kept = 1 .. n /\ \A m \in 1 .. n : current_slot_'[m] = kept[m]
        BY <3>2, <4>3, <4>4, <4>5
      <4>7. \A m \in 1 .. n + 1 : m \in 1 .. n \/ m = n + 1
        OBVIOUS
      <4> QED BY <2>1, <3>2, <4>2, <4>6, <4>7 DEF Stamped
    <3> QED BY <3>3, <3>4
  <2>4. current_time_' <= now'
    BY <1>1, <2>1
  <2> QED BY <2>2, <2>3, <2>4 DEF OrderInv
<1>4. CASE run
  <2>1. UNCHANGED <<now, current_slot_, current_time_>>
    BY <1>4 DEF run, RunTop, RunExit, RunPopTimeout, RunPop, DoReport, DoReportFails, AfterReport,
                RunBelowLimit, RunAboveLimit, RunShrink, slotVars
  <2>2. PICK k \in Nat, n \in Nat : GivesUp(k, n)
    BY <1>4, RunDrops
  <2>3. Reports \in Seq(Report) /\ Reports' \in Seq(Report) /\ Drops(Reports, Reports', k, n)
    BY <1>4, <2>2, RunDrops, ReportsLine DEF GivesUp
  <2>4. InOrder(Reports, current_time_)
    BY DEF OrderInv
  <2>5. InOrder(Reports', current_time_)
    BY <1>1, <2>2, <2>3, <2>4, OrderDrop
  <2> QED BY <2>1, <2>5 DEF OrderInv
<1>5. CASE UNCHANGED vars
  BY <1>2, <1>5 DEF vars, slotVars, runVars, history
<1>6. CASE Tick
  BY <1>2, <1>6 DEF Tick, slotVars, runVars, history
<1>7. ASSUME NEW a \in Apps, CallReport(a) PROVE OrderInv'
  BY <1>2, <1>7 DEF CallReport, slotVars, runVars
<1>8. ASSUME NEW t \in Threads, report_event_Abort(t) PROVE OrderInv'
  BY <1>2, <1>8 DEF report_event_Abort, slotVars, runVars, history
<1>9. CASE Terminate
  BY <1>2, <1>9 DEF Terminate, slotVars, runVars, history
<1>10. ASSUME NEW c, UpdateConf(c) PROVE OrderInv'
  BY <1>2, <1>10 DEF UpdateConf, slotVars, runVars, history
<1> QED BY <1>3, <1>4, <1>5, <1>6, <1>7, <1>8, <1>9, <1>10
        DEF Next, UpdateEnabled, UpdateLimit, UpdateSize

LEMMA OrderInit == Init => OrderInv /\ DOMAIN Reports = {}
<1> SUFFICES ASSUME Init PROVE OrderInv /\ DOMAIN Reports = {}
  OBVIOUS
<1>1. sent = <<>> /\ InHand(inHand) = <<>> /\ submit_queue_ = <<>>
  BY DEF Init, InHand, NoReport
<1>2. Reports = <<>> \o <<>> \o <<>>
  BY <1>1 DEF Reports, InHand
<1>3. DOMAIN Reports = {}
  BY <1>2
<1> QED BY <1>3, BoundsAssumption DEF Init, OrderInv, InOrder, Stamped

(* Each report carries the second in which its events were recorded, and   *)
(* run() sends the reports in the order of their time stamps, whichever of *)
(* them fail or are dropped and however the clock moves.                   *)
THEOREM ReportsInOrder == Spec => []SentInOrder
<1>1. OrderInv => SentInOrder
  BY DEF OrderInv, InOrder, Stamped, SentInOrder
<1> QED BY <1>1, OrderInit, OrderNext, BaseInit, BaseNext, PTL DEF Spec

-----------------------------------------------------------------------------
(* The places of an event.                                                 *)
Distinct(R) ==
    \A i, j \in DOMAIN R : \A m \in DOMAIN R[i].data, p \in DOMAIN R[j].data :
        R[i].data[m].ev = R[j].data[p].ev => i = j /\ m = p

SlotDistinct(data) == \A m, p \in DOMAIN data : data[m].ev = data[p].ev => m = p

InCall(e) == \E t \in Threads : call[t] = e
InSlot(e) == e \in EventsIn(current_slot_)
InReport(e) == e \in EventsOfAll(Reports)

OnePlace(e) ==
    /\ e <= reported <=>
          \/ InCall(e) \/ InSlot(e) \/ InReport(e)
          \/ e \in lost \/ e \in shrunk \/ e \in ignored
    /\ InCall(e) => ~InSlot(e) /\ ~InReport(e) /\ e \notin lost /\ e \notin shrunk /\ e \notin ignored
    /\ InSlot(e) => ~InReport(e) /\ e \notin lost /\ e \notin shrunk /\ e \notin ignored
    /\ InReport(e) => e \notin lost /\ e \notin shrunk /\ e \notin ignored
    /\ e \in lost => e \notin shrunk /\ e \notin ignored
    /\ e \in shrunk => e \notin ignored

CallsDistinct == \A t, u \in Threads : call[t] = call[u] /\ call[t] \in Events => t = u

OnceInv ==
    /\ Distinct(Reports) /\ SlotDistinct(current_slot_) /\ CallsDistinct
    /\ \A e \in Events : OnePlace(e)

LEMMA NoEvent == Empty \notin Events /\ None \notin Events /\ Events \subseteq Nat
                 /\ None # Empty /\ Submitter \in Threads /\ Apps \subseteq Threads
<1>1. Events \subseteq Nat /\ Empty \notin Events /\ Events \subseteq 0 .. MaxEvents
      /\ Empty \in 0 .. MaxEvents
  BY BoundsAssumption DEF Events, Empty
<1> QED BY <1>1, BoundsAssumption DEF Threads

LEMMA OnceDrop ==
    ASSUME NEW R \in Seq(Report), NEW S \in Seq(Report), NEW k \in Nat, NEW n \in Nat,
           Drops(R, S, k, n), Distinct(R)
    PROVE  /\ Distinct(S) /\ EventsOfAll(R) = EventsOfAll(S) \cup Piece(R, k, n)
           /\ EventsOfAll(S) \cap Piece(R, k, n) = {}
<1>1. /\ \A i \in DOMAIN S : /\ Was(i, k, n) \in DOMAIN R /\ S[i] = R[Was(i, k, n)]
                            /\ Was(i, k, n) \notin k + 1 .. k + n
      /\ \A i, j \in DOMAIN S : Was(i, k, n) = Was(j, k, n) => i = j
      /\ \A i \in DOMAIN R : i \in k + 1 .. k + n \/ \E j \in DOMAIN S : i = Was(j, k, n)
      /\ \A i \in k + 1 .. k + n : i \in DOMAIN R
  <2>1. \A i \in DOMAIN S : /\ Was(i, k, n) \in DOMAIN R /\ S[i] = R[Was(i, k, n)]
                            /\ Was(i, k, n) \notin k + 1 .. k + n
    BY DropIndex
  <2>2. \A i, j \in DOMAIN S : Was(i, k, n) = Was(j, k, n) => i = j
    BY DropIndex
  <2>3. \A i \in DOMAIN R : i \in k + 1 .. k + n \/ \E j \in DOMAIN S : i = Was(j, k, n)
    BY DropIndex
  <2>4. \A i \in k + 1 .. k + n : i \in DOMAIN R
    BY DropIndex
  <2> QED BY <2>1, <2>2, <2>3, <2>4
<1>2. Distinct(S)
  BY <1>1 DEF Distinct
<1>3. ASSUME NEW e PROVE e \in EventsOfAll(R) <=> e \in EventsOfAll(S) \/ e \in Piece(R, k, n)
  BY <1>1 DEF EventsOfAll, Piece
<1>4. ASSUME NEW e, e \in EventsOfAll(S), e \in Piece(R, k, n) PROVE FALSE
  <2>1. PICK i \in DOMAIN S : e \in EventsIn(S[i].data)
    BY <1>4 DEF EventsOfAll
  <2>2. PICK j \in k + 1 .. k + n : e \in EventsIn(R[j].data)
    BY <1>4 DEF Piece
  <2>3. PICK w \in DOMAIN R : w = Was(i, k, n) /\ S[i] = R[w] /\ w \notin k + 1 .. k + n
    BY <1>1, <2>1
  <2>4. PICK m \in DOMAIN R[w].data : e = R[w].data[m].ev
    BY <2>1, <2>3 DEF EventsIn
  <2>5. PICK p \in DOMAIN R[j].data : e = R[j].data[p].ev
    BY <2>2 DEF EventsIn
  <2>6. w = j
    <3>1. j \in DOMAIN R /\ R[w].data[m].ev = R[j].data[p].ev
      BY <1>1, <2>4, <2>5
    <3> QED BY <3>1, Distinct(R) DEF Distinct
  <2> QED BY <2>2, <2>3, <2>6
<1> QED BY <1>2, <1>3, <1>4

LEMMA OncePush ==
    ASSUME NEW R \in Seq(Report), NEW r \in Report, Distinct(R), SlotDistinct(r.data),
           EventsOfAll(R) \cap EventsIn(r.data) = {}
    PROVE  /\ Distinct(Append(R, r))
           /\ EventsOfAll(Append(R, r)) = EventsOfAll(R) \cup EventsIn(r.data)
<1>1. PICK a \in Nat : a = Len(R)
  OBVIOUS
<1>2. PICK S : S = Append(R, r)
  OBVIOUS
<1>3. /\ DOMAIN S = 1 .. a + 1 /\ S[a + 1] = r /\ DOMAIN R = 1 .. a
      /\ \A i \in 1 .. a : S[i] = R[i]
  <2>1. /\ S \in Seq(Report) /\ Len(S) = a + 1 /\ S[a + 1] = r
        /\ \A i \in 1 .. a : S[i] = R[i]
    BY <1>1, <1>2, AppendProperties
  <2> QED BY <1>1, <2>1
<1>4. \A i : i \in 1 .. a + 1 <=> i \in 1 .. a \/ i = a + 1
  OBVIOUS
<1>5. ASSUME NEW i \in DOMAIN S, NEW j \in DOMAIN S,
             NEW m \in DOMAIN S[i].data, NEW p \in DOMAIN S[j].data,
             S[i].data[m].ev = S[j].data[p].ev
      PROVE  i = j /\ m = p
  <2>1. CASE i \in 1 .. a /\ j \in 1 .. a
    BY <1>3, <1>5, <2>1 DEF Distinct
  <2>2. CASE i = a + 1 /\ j = a + 1
    BY <1>3, <1>5, <2>2 DEF SlotDistinct
  <2>3. CASE i \in 1 .. a /\ j = a + 1
    <3>1. S[i].data[m].ev \in EventsOfAll(R)
      BY <1>3, <2>3 DEF EventsOfAll, EventsIn
    <3>2. S[j].data[p].ev \in EventsIn(r.data)
      BY <1>3, <2>3 DEF EventsIn
    <3> QED BY <1>5, <3>1, <3>2
  <2>4. CASE i = a + 1 /\ j \in 1 .. a
    <3>1. S[j].data[p].ev \in EventsOfAll(R)
      BY <1>3, <2>4 DEF EventsOfAll, EventsIn
    <3>2. S[i].data[m].ev \in EventsIn(r.data)
      BY <1>3, <2>4 DEF EventsIn
    <3> QED BY <1>5, <3>1, <3>2
  <2> QED BY <1>3, <1>4, <2>1, <2>2, <2>3, <2>4
<1>6. ASSUME NEW e PROVE e \in EventsOfAll(S) <=> e \in EventsOfAll(R) \/ e \in EventsIn(r.data)
  <2>1. a + 1 \in 1 .. a + 1
    OBVIOUS
  <2> QED BY <1>3, <1>4, <2>1 DEF EventsOfAll
<1>7. Distinct(S)
  BY <1>5 DEF Distinct
<1>8. EventsOfAll(S) = EventsOfAll(R) \cup EventsIn(r.data)
  BY <1>6
<1> QED BY <1>2, <1>7, <1>8

LEMMA OnceAppend ==
    ASSUME NEW data \in Seq(Entry), NEW x \in Entry, SlotDistinct(data), x.ev \notin EventsIn(data)
    PROVE  /\ SlotDistinct(Append(data, x))
           /\ EventsIn(Append(data, x)) = EventsIn(data) \cup {x.ev}
<1>1. PICK a \in Nat : a = Len(data)
  OBVIOUS
<1>2. PICK S : S = Append(data, x)
  OBVIOUS
<1>3. /\ DOMAIN S = 1 .. a + 1 /\ S[a + 1] = x /\ DOMAIN data = 1 .. a
      /\ \A i \in 1 .. a : S[i] = data[i]
  <2>1. /\ S \in Seq(Entry) /\ Len(S) = a + 1 /\ S[a + 1] = x
        /\ \A i \in 1 .. a : S[i] = data[i]
    BY <1>1, <1>2, AppendProperties
  <2> QED BY <1>1, <2>1
<1>4. \A i : i \in 1 .. a + 1 <=> i \in 1 .. a \/ i = a + 1
  OBVIOUS
<1>5. \A i \in 1 .. a : data[i].ev # x.ev
  BY <1>3 DEF EventsIn
<1>6. SlotDistinct(S)
  BY <1>3, <1>4, <1>5 DEF SlotDistinct
<1>7. ASSUME NEW e PROVE e \in EventsIn(S) <=> e \in EventsIn(data) \/ e = x.ev
  BY <1>3, <1>4 DEF EventsIn
<1>8. EventsIn(S) = EventsIn(data) \cup {x.ev}
  BY <1>7
<1> QED BY <1>2, <1>6, <1>8

(* A step that moves no event.                                             *)
LEMMA OnceQuiet ==
    ASSUME OnceInv, UNCHANGED <<sent, inHand, submit_queue_, current_slot_, reported,
                                lost, shrunk, ignored>>,
           CallsDistinct', \A e \in Events : InCall(e)' <=> InCall(e)
    PROVE  OnceInv'
<1>1. Reports' = Reports
  BY ReportsKept
<1>2. ASSUME NEW e \in Events PROVE OnePlace(e)'
  BY <1>1 DEF OnceInv, OnePlace, InSlot, InReport
<1> QED BY <1>1, <1>2 DEF OnceInv

LEMMA OnceCall ==
    ASSUME OnceInv, BaseInv, NEW a \in Apps, CallReport(a)
    PROVE  OnceInv'
<1>1. /\ UNCHANGED <<slotVars, submit_queue_, runVars, sent, lost, shrunk>>
      /\ call[a] = None /\ reported < MaxEvents /\ reported' = reported + 1
      /\ \/ call' = [call EXCEPT ![a] = reported + 1] /\ UNCHANGED ignored
         \/ ignored' = ignored \cup {reported + 1} /\ UNCHANGED call
  BY DEF CallReport
<1>2. PICK new : new = reported + 1
  OBVIOUS
<1>3. reported \in Nat /\ new \in Events /\ ~(new <= reported)
  <2>1. reported \in 0 .. MaxEvents
    BY DEF BaseInv, TypeOK
  <2> QED BY <1>1, <1>2, <2>1, BoundsAssumption DEF Events
<1>4. Reports' = Reports
  BY <1>1, ReportsKept DEF runVars
<1>5. a \in Threads /\ call \in [Threads -> Events \cup {Empty, None}]
  BY NoEvent DEF BaseInv, TypeOK
<1>6. \A e \in Events : e <= reported' <=> e <= reported \/ e = new
  BY <1>1, <1>2, <1>3 DEF Events
<1>7. ~InCall(new) /\ ~InSlot(new) /\ ~InReport(new)
      /\ new \notin lost /\ new \notin shrunk /\ new \notin ignored
  BY <1>3 DEF OnceInv, OnePlace
<1>8. \A e \in Events : (InSlot(e)' <=> InSlot(e)) /\ (InReport(e)' <=> InReport(e))
  BY <1>1, <1>4 DEF InSlot, InReport, slotVars
<1>9. CASE call' = [call EXCEPT ![a] = reported + 1] /\ UNCHANGED ignored
  <2>1. \A t \in Threads : call'[t] = IF t = a THEN new ELSE call[t]
    BY <1>2, <1>5, <1>9
  <2>2. ASSUME NEW e \in Events PROVE InCall(e)' <=> InCall(e) \/ e = new
    BY <1>1, <1>5, <2>1, NoEvent DEF InCall
  <2>3. CallsDistinct'
    BY <1>7, <2>1 DEF OnceInv, CallsDistinct, InCall
  <2>4. ASSUME NEW e \in Events PROVE OnePlace(e)'
    <3>1. CASE e = new
      BY <1>1, <1>3, <1>6, <1>7, <1>8, <1>9, <2>2, <3>1 DEF OnePlace
    <3>2. CASE e # new
      BY <1>1, <1>6, <1>8, <1>9, <2>2, <3>2 DEF OnceInv, OnePlace
    <3> QED BY <3>1, <3>2
  <2> QED BY <1>1, <1>4, <2>3, <2>4 DEF OnceInv, slotVars
<1>10. CASE ignored' = ignored \cup {reported + 1} /\ UNCHANGED call
  <2>1. \A e : e \in ignored' <=> e \in ignored \/ e = new
    BY <1>2, <1>10
  <2>2. CallsDistinct' /\ \A e : InCall(e)' <=> InCall(e)
    BY <1>10 DEF OnceInv, CallsDistinct, InCall
  <2>3. ASSUME NEW e \in Events PROVE OnePlace(e)'
    <3>1. CASE e = new
      BY <1>1, <1>3, <1>6, <1>7, <1>8, <2>1, <2>2, <3>1 DEF OnePlace
    <3>2. CASE e # new
      BY <1>1, <1>6, <1>8, <2>1, <2>2, <3>2 DEF OnceInv, OnePlace
    <3> QED BY <3>1, <3>2
  <2> QED BY <1>1, <1>4, <2>2, <2>3 DEF OnceInv, slotVars
<1> QED BY <1>1, <1>9, <1>10

LEMMA OnceReport ==
    ASSUME OnceInv, BaseInv, NEW t \in Threads, report_event(t)
    PROVE  OnceInv'
<1>1. /\ UNCHANGED <<reported, lost, shrunk, ignored>>
      /\ call[t] # None /\ call' = [call EXCEPT ![t] = None]
      /\ current_slot_' = NewSlot(call[t])
  BY DEF report_event, history
<1>2. PICK r : r = [timestamp |-> current_time_, data |-> current_slot_]
  OBVIOUS
<1>3. r.data = current_slot_
  BY <1>2
<1>4. /\ r \in Report /\ Reports \in Seq(Report)
      /\ (MustPush /\ current_slot_ # <<>>) => Reports' = Append(Reports, r)
      /\ ~(MustPush /\ current_slot_ # <<>>) => Reports' = Reports
  BY <1>2, PushAppends
<1>5. call \in [Threads -> Events \cup {Empty, None}] /\ current_slot_ \in Seq(Entry)
  BY DEF BaseInv, TypeOK
<1>6. PICK pushed : pushed = IF MustPush THEN EventsIn(current_slot_) ELSE {}
  OBVIOUS
<1>7. EventsOfAll(Reports) \cap EventsIn(current_slot_) = {}
  <2>1. EventsIn(current_slot_) \subseteq Events
    BY <1>5, EventsTyped
  <2> QED BY <2>1 DEF OnceInv, OnePlace, InSlot, InReport
<1>8. Distinct(Reports') /\ EventsOfAll(Reports') = EventsOfAll(Reports) \cup pushed
  <2>1. Distinct(Reports) /\ SlotDistinct(current_slot_)
    BY DEF OnceInv
  <2>2. CASE MustPush /\ current_slot_ # <<>>
    <3>1. /\ Distinct(Append(Reports, r))
          /\ EventsOfAll(Append(Reports, r)) = EventsOfAll(Reports) \cup EventsIn(r.data)
      BY ONLY <1>3, <1>4, <1>7, <2>1, OncePush
    <3> QED BY <1>3, <1>4, <1>6, <2>2, <3>1
  <2>3. CASE ~(MustPush /\ current_slot_ # <<>>)
    <3>1. EventsIn(<<>>) = {}
      BY DEF EventsIn
    <3>2. pushed = {}
      BY <1>6, <2>3, <3>1
    <3> QED BY <1>4, <2>1, <2>3, <3>2
  <2> QED BY <2>2, <2>3
<1>9. PICK kept : kept = IF MustPush THEN <<>> ELSE current_slot_
  OBVIOUS
<1>10. /\ kept \in Seq(Entry) /\ SlotDistinct(kept)
       /\ EventsIn(current_slot_) = EventsIn(kept) \cup pushed /\ EventsIn(kept) \cap pushed = {}
  <2>1. <<>> \in Seq(Entry) /\ DOMAIN <<>> = {}
    OBVIOUS
  <2>2. CASE MustPush
    BY <1>6, <1>9, <2>1, <2>2 DEF SlotDistinct, EventsIn
  <2>3. CASE ~MustPush
    BY <1>5, <1>6, <1>9, <2>3 DEF OnceInv
  <2> QED BY <2>2, <2>3
<1>11. \A u \in Threads : call'[u] = IF u = t THEN None ELSE call[u]
  BY <1>1, <1>5
<1>12. CallsDistinct'
  BY <1>11, NoEvent DEF OnceInv, CallsDistinct
<1>13. ASSUME NEW e \in Events
       PROVE  /\ e \in EventsOfAll(Reports') <=> e \in EventsOfAll(Reports) \/ e \in pushed
              /\ e \in EventsIn(current_slot_) <=> e \in EventsIn(kept) \/ e \in pushed
              /\ ~(e \in EventsIn(kept) /\ e \in pushed)
  BY <1>8, <1>10
<1>14. CASE call[t] \notin Events
  <2>1. call[t] = Empty /\ current_slot_' = kept
    BY <1>1, <1>5, <1>9, <1>14 DEF NewSlot
  <2>2. ASSUME NEW e \in Events PROVE InCall(e)' <=> InCall(e)
    BY <1>11, <1>14, NoEvent DEF InCall
  <2>3. ASSUME NEW e \in Events PROVE OnePlace(e)'
    <3>1. InSlot(e)' <=> e \in EventsIn(kept)
      BY <2>1 DEF InSlot
    <3>2. OnePlace(e)
      BY DEF OnceInv
    <3> QED BY <1>1, <1>13, <2>2, <3>1, <3>2 DEF OnePlace, InSlot, InReport
  <2> QED BY <1>8, <1>10, <1>12, <2>1, <2>3 DEF OnceInv
<1>15. CASE call[t] \in Events
  <2>1. PICK new \in Events : new = call[t]
    BY <1>15
  <2>2. PICK x : x = [ev |-> call[t], msgid |-> NextMsgid, at |-> now]
    OBVIOUS
  <2>a. NextMsgid \in Nat /\ now \in Nat
    BY BoundsAssumption DEF NextMsgid, BaseInv, TypeOK
  <2>3. x \in Entry /\ x.ev = new
    BY ONLY <2>1, <2>2, <2>a, new \in Events DEF Entry
  <2>4. current_slot_' = Append(kept, x)
    BY <1>1, <1>9, <1>15, <2>2, NoEvent DEF NewSlot
  <2>5. InCall(new) /\ OnePlace(new)
    BY <2>1 DEF InCall, OnceInv
  <2>6. new \notin EventsIn(kept)
    BY <1>10, <2>5 DEF OnePlace, InSlot
  <2>7. /\ SlotDistinct(Append(kept, x))
        /\ EventsIn(Append(kept, x)) = EventsIn(kept) \cup {x.ev}
    BY <1>10, <2>3, <2>6, OnceAppend
  <2>8. ASSUME NEW e \in Events PROVE InCall(e)' <=> InCall(e) /\ e # new
    BY <1>11, <2>1, NoEvent DEF InCall, OnceInv, CallsDistinct
  <2>9. ASSUME NEW e \in Events PROVE OnePlace(e)'
    <3>1. InSlot(e)' <=> e \in EventsIn(kept) \/ e = new
      BY <2>3, <2>4, <2>7 DEF InSlot
    <3>2. OnePlace(e) /\ (e = new => InCall(e))
      BY <2>5 DEF OnceInv
    <3>3. InReport(e)' <=> InReport(e) \/ e \in pushed
      BY <1>13 DEF InReport
    <3>4. InSlot(e) <=> e \in EventsIn(kept) \/ e \in pushed
      BY <1>13 DEF InSlot
    <3>5. e \in lost' <=> e \in lost
      BY <1>1
    <3>6. e \in shrunk' <=> e \in shrunk
      BY <1>1
    <3>7. e \in ignored' <=> e \in ignored
      BY <1>1
    <3> QED BY <1>1, <1>13, <2>8, <3>1, <3>2, <3>3, <3>4, <3>5, <3>6, <3>7 DEF OnePlace
  <2> QED BY <1>8, <1>12, <2>4, <2>7, <2>9 DEF OnceInv
<1> QED BY <1>14, <1>15

LEMMA OnceRun ==
    ASSUME OnceInv, BaseInv, run
    PROVE  OnceInv'
<1>1. UNCHANGED <<reported, current_slot_, ignored>> /\ call[Submitter] = None
  BY DEF run, RunTop, RunExit, RunPopTimeout, RunPop, DoReport, DoReportFails, AfterReport,
         RunBelowLimit, RunAboveLimit, RunShrink, At, slotVars, history
<1>2. call' = call \/ call' = [call EXCEPT ![Submitter] = Empty]
  BY DEF run, RunTop, RunExit, RunPopTimeout, RunPop, DoReport, DoReportFails, AfterReport,
         RunBelowLimit, RunAboveLimit, RunShrink, report_empty_event
<1>3. CallsDistinct' /\ \A e \in Events : InCall(e)' <=> InCall(e)
  <2>1. call \in [Threads -> Events \cup {Empty, None}]
    BY DEF BaseInv, TypeOK
  <2>2. \A t \in Threads : call'[t] = call[t] \/ (call[t] = None /\ call'[t] = Empty)
    BY <1>1, <1>2, <2>1
  <2> QED BY <2>2, NoEvent DEF OnceInv, CallsDistinct, InCall
<1>4. PICK k \in Nat, n \in Nat : GivesUp(k, n)
  BY RunDrops
<1>5. Reports \in Seq(Report) /\ Reports' \in Seq(Report) /\ Drops(Reports, Reports', k, n)
  BY <1>4, RunDrops, ReportsLine DEF GivesUp
<1>6. PICK gone : gone = Piece(Reports, k, n)
  OBVIOUS
<1>7. /\ Distinct(Reports') /\ EventsOfAll(Reports) = EventsOfAll(Reports') \cup gone
      /\ EventsOfAll(Reports') \cap gone = {}
  <2>1. Distinct(Reports)
    BY DEF OnceInv
  <2> QED BY <1>4, <1>5, <1>6, <2>1, OnceDrop
<1>8. ASSUME NEW e \in Events PROVE OnePlace(e)'
  <2>1. OnePlace(e)
    BY DEF OnceInv
  <2>2. /\ InReport(e) <=> InReport(e)' \/ e \in gone
        /\ ~(InReport(e)' /\ e \in gone)
    BY <1>7 DEF InReport
  <2>3. InSlot(e)' <=> InSlot(e)
    BY <1>1 DEF InSlot
  <2>4. InCall(e)' <=> InCall(e)
    BY <1>3
  <2>5. reported' = reported /\ (e \in ignored' <=> e \in ignored)
    BY <1>1
  <2>6. \/ (e \in lost' <=> e \in lost \/ e \in gone) /\ (e \in shrunk' <=> e \in shrunk)
        \/ (e \in shrunk' <=> e \in shrunk \/ e \in gone) /\ (e \in lost' <=> e \in lost)
    BY <1>4, <1>6 DEF GivesUp
  <2> QED BY <2>1, <2>2, <2>3, <2>4, <2>5, <2>6 DEF OnePlace
<1> QED BY <1>1, <1>3, <1>7, <1>8 DEF OnceInv

LEMMA OnceNext == OnceInv /\ BaseInv /\ [Next]_vars => OnceInv'
<1> SUFFICES ASSUME OnceInv, BaseInv, [Next]_vars PROVE OnceInv'
  OBVIOUS
<1>1. ASSUME UNCHANGED <<call, reported, slotVars, submit_queue_, runVars, history>> PROVE OnceInv'
  <2>1. CallsDistinct' /\ \A e \in Events : InCall(e)' <=> InCall(e)
    BY <1>1 DEF OnceInv, CallsDistinct, InCall
  <2> QED BY <1>1, <2>1, OnceQuiet DEF slotVars, runVars, history
<1>2. CASE UNCHANGED vars
  BY <1>1, <1>2 DEF vars
<1>3. CASE Tick \/ Terminate
  BY <1>1, <1>3 DEF Tick, Terminate
<1>4. ASSUME NEW a \in Apps, CallReport(a) PROVE OnceInv'
  BY <1>4, OnceCall
<1>5. ASSUME NEW t \in Threads, report_event(t) PROVE OnceInv'
  BY <1>5, OnceReport
<1>6. ASSUME NEW t \in Threads, report_event_Abort(t) PROVE OnceInv'
  BY <1>1, <1>6 DEF report_event_Abort
<1>7. CASE run
  BY <1>7, OnceRun
<1>8. ASSUME NEW c, UpdateConf(c) PROVE OnceInv'
  BY <1>1, <1>8 DEF UpdateConf
<1> QED BY <1>2, <1>3, <1>4, <1>5, <1>6, <1>7, <1>8
        DEF Next, UpdateEnabled, UpdateLimit, UpdateSize

LEMMA OnceInit == Init => OnceInv
<1> SUFFICES ASSUME Init PROVE OnceInv
  OBVIOUS
<1>1. Reports = <<>> \o <<>> \o <<>>
  BY DEF Init, Reports, NoReport
<1>2. DOMAIN Reports = {} /\ DOMAIN <<>> = {}
  BY <1>1
<1>3. EventsOfAll(Reports) = {} /\ EventsIn(current_slot_) = {}
  BY <1>2 DEF Init, EventsOfAll, EventsIn
<1>4. \A t \in Threads : call[t] = None
  BY DEF Init
<1>5. ASSUME NEW e \in Events PROVE OnePlace(e)
  <2>1. ~(e <= reported)
    BY BoundsAssumption DEF Init, Events
  <2> QED BY <1>3, <1>4, <2>1, NoEvent DEF Init, OnePlace, InCall, InSlot, InReport
<1> QED BY <1>2, <1>4, <1>5, NoEvent DEF Init, OnceInv, Distinct, SlotDistinct, CallsDistinct

(* A set whose members are all equal has one member, or none.              *)
LEMMA AtMostOne ==
    ASSUME NEW S, \A x, y \in S : x = y
    PROVE  Cardinality(S) = IF S = {} THEN 0 ELSE 1
<1>1. CASE S = {}
  BY <1>1, FS_EmptySet
<1>2. CASE S # {}
  <2>1. PICK x : x \in S
    BY <1>2
  <2>2. S = {x}
    BY <2>1
  <2> QED BY <1>2, <2>2, FS_Singleton
<1> QED BY <1>1, <1>2

(* Every event an application reported is in exactly one place: neither    *)
(* report_event, which hands the slot over, nor run(), which empties the   *)
(* queue, loses it or sends it twice, and what is given up is accounted    *)
(* for.                                                                    *)
THEOREM EventsAreNotLost == Spec => []EveryEventOnce
<1>1. OnceInv => EveryEventOnce
  <2> SUFFICES ASSUME OnceInv, NEW e \in Events PROVE EveryEventOnce!(e)
    BY DEF EveryEventOnce
  <2>1. PICK C : C = {t \in Threads : call[t] = e}
    OBVIOUS
  <2>2. PICK D : D = {n \in DOMAIN current_slot_ : current_slot_[n].ev = e}
    OBVIOUS
  <2>3. PICK P : P = {p \in UNION {{n} \X DOMAIN Reports[n].data : n \in DOMAIN Reports} :
                          Reports[p[1]].data[p[2]].ev = e}
    OBVIOUS
  <2>4. PICK G : G = {S \in {<<1, lost>>, <<2, shrunk>>, <<3, ignored>>} : e \in S[2]}
    OBVIOUS
  <2>5. Cardinality(C) = IF InCall(e) THEN 1 ELSE 0
    <3>1. \A x, y \in C : x = y
      BY <2>1 DEF OnceInv, CallsDistinct
    <3>2. Cardinality(C) = IF C = {} THEN 0 ELSE 1
      BY ONLY <3>1, AtMostOne
    <3>3. C = {} <=> ~InCall(e)
      BY <2>1 DEF InCall
    <3> QED BY <3>2, <3>3
  <2>6. Cardinality(D) = IF InSlot(e) THEN 1 ELSE 0
    <3>1. \A x, y \in D : x = y
      BY <2>2 DEF OnceInv, SlotDistinct
    <3>2. Cardinality(D) = IF D = {} THEN 0 ELSE 1
      BY ONLY <3>1, AtMostOne
    <3>3. D = {} <=> ~InSlot(e)
      BY <2>2 DEF InSlot, EventsIn
    <3> QED BY <3>2, <3>3
  <2>7. Cardinality(P) = IF InReport(e) THEN 1 ELSE 0
    <3>1. ASSUME NEW x \in P
          PROVE  \E n \in DOMAIN Reports : \E m \in DOMAIN Reports[n].data :
                     x = <<n, m>> /\ Reports[n].data[m].ev = e
      BY <2>3
    <3>2. ASSUME NEW x \in P, NEW y \in P PROVE x = y
      <4>1. PICK n, m : /\ n \in DOMAIN Reports /\ m \in DOMAIN Reports[n].data
                        /\ x = <<n, m>> /\ Reports[n].data[m].ev = e
        BY <3>1
      <4>2. PICK i, j : /\ i \in DOMAIN Reports /\ j \in DOMAIN Reports[i].data
                        /\ y = <<i, j>> /\ Reports[i].data[j].ev = e
        BY <3>1
      <4>3. Distinct(Reports)
        BY DEF OnceInv
      <4>4. n = i /\ m = j
        BY <4>1, <4>2, <4>3 DEF Distinct
      <4> QED BY <4>1, <4>2, <4>4
    <3>3. Cardinality(P) = IF P = {} THEN 0 ELSE 1
      BY ONLY <3>2, AtMostOne
    <3>4. ASSUME InReport(e) PROVE P # {}
      <4>1. PICK n \in DOMAIN Reports : e \in EventsIn(Reports[n].data)
        BY <3>4 DEF InReport, EventsOfAll
      <4>2. PICK m \in DOMAIN Reports[n].data : e = Reports[n].data[m].ev
        BY <4>1 DEF EventsIn
      <4>3. <<n, m>> \in P
        BY <2>3, <4>1, <4>2
      <4> QED BY <4>3
    <3>5. ASSUME P # {} PROVE InReport(e)
      BY <3>1, <3>5 DEF InReport, EventsOfAll, EventsIn
    <3> QED BY <3>3, <3>4, <3>5
  <2>8. OnePlace(e)
    BY DEF OnceInv
  <2>9. Cardinality(G) = IF e \in lost \/ e \in shrunk \/ e \in ignored THEN 1 ELSE 0
    <3>1. \A x : x \in G <=> \/ x = <<1, lost>> /\ e \in lost
                             \/ x = <<2, shrunk>> /\ e \in shrunk
                             \/ x = <<3, ignored>> /\ e \in ignored
      BY <2>4
    <3>2. \A x, y \in G : x = y
      BY <2>8, <3>1 DEF OnePlace
    <3>3. Cardinality(G) = IF G = {} THEN 0 ELSE 1
      BY ONLY <3>2, AtMostOne
    <3>4. G = {} <=> ~(e \in lost \/ e \in shrunk \/ e \in ignored)
      BY <3>1
    <3> QED BY <3>3, <3>4
  <2>10. Cardinality(C) + Cardinality(D) + Cardinality(P) + Cardinality(G)
            = IF e <= reported THEN 1 ELSE 0
    BY <2>5, <2>6, <2>7, <2>8, <2>9 DEF OnePlace
  <2> QED BY <2>1, <2>2, <2>3, <2>4, <2>10
<1> QED BY <1>1, OnceInit, OnceNext, BaseInit, BaseNext, PTL DEF Spec

-----------------------------------------------------------------------------
(* The message ids.  An id differs from the ones before it unless as many  *)
(* calls of report_event have come to an end since as it takes for the     *)
(* counter to come round; so the calls since an entry was recorded are     *)
(* bounded, by what the state tells.  *)

(* The threads of the application that are in report_event.                *)
Pending == {t \in Apps : call[t] \in Events}

(* run() has made, or need not make, the call with the empty event that    *)
(* the time since its start asks for.                                      *)
EmptyDone ==
    /\ runPc \in {"top", "limit", "shrink", "exit"} /\ call[Submitter] = None
    /\ start < now

(* At most so many calls with the empty event since time t: one for the    *)
(* start before it, and one for each second that the start has moved on.   *)
EmptyCalls(t) ==
    (IF start < t THEN 0 ELSE 1 + start - t) + (IF EmptyDone THEN 1 ELSE 0)

(* At most so many calls since the entry e was recorded.                   *)
CallsSince(e) ==
    (reported - e.ev) + (Cardinality(Apps) - Cardinality(Pending)) + EmptyCalls(e.at)

(* Where the counter is, seen from an id it gave n calls ago, or fewer:    *)
(* ahead of it by no more than two for each, or below it, by almost all    *)
(* that there is, after it has started again.                              *)
Near(id, n) ==
    \/ id <= msgid_ /\ msgid_ - id <= 2 * n
    \/ id - msgid_ >= MaxMsgid - 2 - 2 * n

CallsInv ==
    /\ start <= now
    /\ call[Submitter] \in {Empty, None}
    /\ call[Submitter] = Empty => runPc \in {"top", "limit"} /\ start < now
    /\ \A t \in Apps : call[t] = None \/ (call[t] \in Events /\ call[t] <= reported)

SameSlot(d, e) == nice_step(d.at, ServerStep) = nice_step(e.at, ServerStep)

IdsInv ==
    /\ CallsInv
    /\ \A e \in Entries : e.ev <= reported /\ e.at <= now /\ Near(e.msgid, CallsSince(e))
    /\ \A d, e \in Entries : SameSlot(d, e) /\ d.msgid = e.msgid => d = e

(* The end of a step of time stamps: at most a step away.                  *)
LEMMA SlotLength ==
    ASSUME NEW t \in Nat, NEW u \in Nat, NEW step \in Nat \ {0}, t <= u,
           nice_step(t, step) = nice_step(u, step)
    PROVE  u - t <= step - 1
<1>1. t % step \in 0 .. (step - 1) /\ u % step \in 0 .. (step - 1)
  OBVIOUS
<1>2. PICK a \in 0 .. (step - 1), b \in 0 .. (step - 1) : t + (step - a) = u + (step - b)
  BY <1>1 DEF nice_step
<1> QED BY <1>2

(* One more call: the counter is near the id still, and away from it.      *)
LEMMA CounterMoves ==
    ASSUME NEW id \in Nat, NEW c \in Nat, NEW d \in Nat, NEW n \in Int, NEW m \in Int, n + 1 <= m,
           d = c + 1 \/ d = c + 2 \/ (d = 1 /\ c + 1 >= MaxMsgid),
           \/ id <= c /\ c - id <= 2 * n
           \/ id - c >= MaxMsgid - 2 - 2 * n
    PROVE  /\ \/ id <= d /\ d - id <= 2 * m
              \/ id - d >= MaxMsgid - 2 - 2 * m
           /\ 2 * m < MaxMsgid - 2 => id # d
<1>1. MaxMsgid \in Nat \ {0}
  BY BoundsAssumption
<1>2. CASE d = c + 1 \/ d = c + 2
  <2>1. CASE id <= c /\ c - id <= 2 * n
    BY <1>2, <2>1
  <2>2. CASE id - c >= MaxMsgid - 2 - 2 * n
    BY <1>1, <1>2, <2>2
  <2> QED BY <2>1, <2>2
<1>3. CASE d = 1 /\ c + 1 >= MaxMsgid
  <2>1. CASE id <= c /\ c - id <= 2 * n
    BY <1>1, <1>3, <2>1
  <2>2. CASE id - c >= MaxMsgid - 2 - 2 * n
    BY <1>1, <1>3, <2>2
  <2> QED BY <2>1, <2>2
<1> QED BY <1>2, <1>3

LEMMA EntryTyped ==
    \A e \in Entry : e.ev \in Events /\ e.ev \in Nat /\ e.msgid \in Nat /\ e.at \in Nat
<1>1. Events \subseteq Nat
  BY NoEvent
<1> QED BY <1>1 DEF Entry

LEMMA EmptyBound ==
    ASSUME NEW z \in Nat, NEW y \in Nat, NEW t \in Nat, NEW b \in BOOLEAN, z <= y, t <= y, b => z < y
    PROVE  LET n == (IF z < t THEN 0 ELSE 1 + z - t) + (IF b THEN 1 ELSE 0)
           IN  n \in Nat /\ n <= 1 + y - t
<1>1. CASE b
  BY <1>1
<1>2. CASE ~b
  BY <1>2
<1> QED BY <1>1, <1>2

(* The bound on the calls is one, and what it is made of is numbers.       *)
LEMMA CallsTyped ==
    ASSUME TypeOK, start <= now
    PROVE  /\ IsFiniteSet(Pending) /\ Cardinality(Pending) \in Nat /\ Cardinality(Apps) \in Nat
           /\ Cardinality(Pending) <= Cardinality(Apps)
           /\ \A t \in Nat : t <= now => EmptyCalls(t) \in Nat /\ EmptyCalls(t) <= 1 + now - t
           /\ \A e \in Entry : e.at <= now =>
                 /\ CallsSince(e) \in Int
                 /\ CallsSince(e) <= (reported - e.ev) + Cardinality(Apps) + 1 + (now - e.at)
           /\ \A e \in Entry : e.at <= now /\ e.ev <= reported => CallsSince(e) >= 0
<1>1. IsFiniteSet(Apps) /\ Pending \subseteq Apps
  BY BoundsAssumption DEF Pending
<1>2. /\ IsFiniteSet(Pending) /\ Cardinality(Pending) \in Nat /\ Cardinality(Apps) \in Nat
      /\ Cardinality(Pending) <= Cardinality(Apps)
  BY <1>1, FS_Subset, FS_CardinalityType
<1>3. start \in Nat /\ now \in Nat /\ reported \in Nat
  BY BoundsAssumption DEF TypeOK
<1>4. ASSUME NEW t \in Nat, t <= now
      PROVE  EmptyCalls(t) \in Nat /\ EmptyCalls(t) <= 1 + now - t
  BY <1>3, <1>4 DEF EmptyCalls, EmptyDone
<1>5. ASSUME NEW e \in Entry, e.at <= now
      PROVE  /\ CallsSince(e) \in Int
             /\ CallsSince(e) <= (reported - e.ev) + Cardinality(Apps) + 1 + (now - e.at)
             /\ e.ev <= reported => CallsSince(e) >= 0
  <2>1. e.ev \in Nat /\ e.at \in Nat
    BY EntryTyped
  <2>2. PICK x \in Nat : x = EmptyCalls(e.at) /\ x <= 1 + now - e.at
    BY <1>4, <1>5, <2>1
  <2>3. PICK a \in Nat, p \in Nat : a = Cardinality(Apps) /\ p = Cardinality(Pending) /\ p <= a
    BY <1>2
  <2>4. CallsSince(e) = (reported - e.ev) + (a - p) + x
    BY <2>2, <2>3 DEF CallsSince
  <2> QED BY <1>3, <1>5, <2>1, <2>2, <2>3, <2>4
<1> QED BY <1>2, <1>4, <1>5

LEMMA CallsTypedNext ==
    ASSUME TypeOK', start' <= now'
    PROVE  /\ IsFiniteSet(Pending') /\ Cardinality(Pending') \in Nat
           /\ Cardinality(Pending') <= Cardinality(Apps)
           /\ \A t \in Nat : t <= now' => EmptyCalls(t)' \in Nat
           /\ \A e \in Entry : e.at <= now' =>
                 /\ CallsSince(e)' \in Int
                 /\ CallsSince(e)' <= (reported' - e.ev) + Cardinality(Apps) + 1 + (now' - e.at)
           /\ \A e \in Entry : e.at <= now' /\ e.ev <= reported' => CallsSince(e)' >= 0
<1>1. IsFiniteSet(Apps) /\ Pending' \subseteq Apps
  BY BoundsAssumption DEF Pending
<1>2. /\ IsFiniteSet(Pending') /\ Cardinality(Pending') \in Nat /\ Cardinality(Apps) \in Nat
      /\ Cardinality(Pending') <= Cardinality(Apps)
  BY <1>1, FS_Subset, FS_CardinalityType
<1>3. start' \in Nat /\ now' \in Nat /\ reported' \in Nat
  BY BoundsAssumption DEF TypeOK
<1>4. ASSUME NEW t \in Nat, t <= now'
      PROVE  EmptyCalls(t)' \in Nat /\ EmptyCalls(t)' <= 1 + now' - t
  <2>1. PICK b \in BOOLEAN : b = EmptyDone' /\ (b => start' < now')
    BY DEF EmptyDone
  <2>2. PICK z \in Nat, y \in Nat : z = start' /\ y = now' /\ z <= y /\ t <= y /\ (b => z < y)
    BY <1>3, <1>4, <2>1
  <2>3. EmptyCalls(t)' = (IF z < t THEN 0 ELSE 1 + z - t) + (IF b THEN 1 ELSE 0)
    BY <2>1, <2>2 DEF EmptyCalls
  <2>4. PICK n : n = (IF z < t THEN 0 ELSE 1 + z - t) + (IF b THEN 1 ELSE 0)
    OBVIOUS
  <2>5. n \in Nat /\ n <= 1 + y - t
    BY <2>2, <2>4, EmptyBound
  <2> QED BY <2>2, <2>3, <2>4, <2>5
<1>5. ASSUME NEW e \in Entry, e.at <= now'
      PROVE  /\ CallsSince(e)' \in Int
             /\ CallsSince(e)' <= (reported' - e.ev) + Cardinality(Apps) + 1 + (now' - e.at)
             /\ e.ev <= reported' => CallsSince(e)' >= 0
  <2>1. e.ev \in Nat /\ e.at \in Nat
    BY EntryTyped
  <2>2. PICK x \in Nat : x = EmptyCalls(e.at)' /\ x <= 1 + now' - e.at
    BY <1>4, <1>5, <2>1
  <2>3. PICK a \in Nat, p \in Nat : a = Cardinality(Apps) /\ p = Cardinality(Pending') /\ p <= a
    BY <1>2
  <2>4. CallsSince(e)' = (reported' - e.ev) + (a - p) + x
    BY <2>2, <2>3 DEF CallsSince
  <2> QED BY <1>3, <1>5, <2>1, <2>2, <2>3, <2>4
<1> QED BY <1>2, <1>4, <1>5

LEMMA EntriesTyped == BaseInv => Entries \subseteq Entry
<1> SUFFICES ASSUME BaseInv PROVE Entries \subseteq Entry
  OBVIOUS
<1>1. \A n \in DOMAIN Reports : Reports[n] \in Report
  BY ReportsLine
<1>2. \A n \in DOMAIN Reports : Reports[n].data \in Seq(Entry)
  BY <1>1 DEF Report
<1>3. \A n \in DOMAIN Reports : EntriesIn(Reports[n].data) \subseteq Entry
  BY <1>2 DEF EntriesIn
<1>4. EntriesIn(current_slot_) \subseteq Entry
  BY DEF EntriesIn, BaseInv, TypeOK
<1> QED BY <1>3, <1>4 DEF Entries

(* A step of run() takes entries away, if anything.                        *)
LEMMA EntriesRun ==
    ASSUME BaseInv, run
    PROVE  Entries' \subseteq Entries
<1>1. current_slot_' = current_slot_
  BY DEF run, RunTop, RunExit, RunPopTimeout, RunPop, DoReport, DoReportFails, AfterReport,
         RunBelowLimit, RunAboveLimit, RunShrink, slotVars
<1>2. PICK k \in Nat, n \in Nat : GivesUp(k, n)
  BY RunDrops
<1>3. Reports \in Seq(Report) /\ Reports' \in Seq(Report) /\ Drops(Reports, Reports', k, n)
  BY <1>2, RunDrops, ReportsLine DEF GivesUp
<1>4. \A i \in DOMAIN Reports' : \E j \in DOMAIN Reports : Reports'[i] = Reports[j]
  <2>1. PICK R, S : R = Reports /\ S = Reports'
    OBVIOUS
  <2>2. R \in Seq(Report) /\ S \in Seq(Report) /\ Drops(R, S, k, n)
    BY <1>3, <2>1
  <2>3. \A i \in DOMAIN S : Was(i, k, n) \in DOMAIN R /\ S[i] = R[Was(i, k, n)]
    BY ONLY <2>2, k \in Nat, n \in Nat, DropIndex
  <2> QED BY <2>1, <2>3
<1>5. ASSUME NEW e \in Entries' PROVE e \in Entries
  <2>1. CASE e \in EntriesIn(current_slot_')
    BY <1>1, <2>1 DEF Entries
  <2>2. CASE \E i \in DOMAIN Reports' : e \in EntriesIn(Reports'[i].data)
    BY <1>4, <2>2 DEF Entries
  <2>3. e \in EntriesIn(current_slot_') \/ \E i \in DOMAIN Reports' : e \in EntriesIn(Reports'[i].data)
    BY DEF Entries, EntriesIn
  <2> QED BY <2>1, <2>2, <2>3
<1> QED BY <1>5

(* report_event records one entry more, or none.                           *)
LEMMA EntriesReport ==
    ASSUME BaseInv, NEW t \in Threads, report_event(t),
           NEW x, x = [ev |-> call[t], msgid |-> NextMsgid, at |-> now]
    PROVE  /\ Entries' \subseteq Entries \cup {x}
           /\ call[t] = Empty => Entries' \subseteq Entries
<1>1. PICK r : r = [timestamp |-> current_time_, data |-> current_slot_]
  OBVIOUS
<1>2. /\ r \in Report /\ Reports \in Seq(Report) /\ Reports' \in Seq(Report)
      /\ Reports' = Append(Reports, r) \/ Reports' = Reports
  BY <1>1, PushAppends
<1>3. \A i \in DOMAIN Reports' : Reports'[i] = r \/ \E j \in DOMAIN Reports : Reports'[i] = Reports[j]
  <2>1. CASE Reports' = Reports
    BY <2>1
  <2>2. CASE Reports' = Append(Reports, r)
    <3>1. PICK n \in Nat : n = Len(Reports)
      BY <1>2
    <3>2. /\ DOMAIN Reports' = 1 .. n + 1 /\ Reports'[n + 1] = r /\ DOMAIN Reports = 1 .. n
          /\ \A i \in 1 .. n : Reports'[i] = Reports[i]
      BY <1>2, <2>2, <3>1, AppendProperties
    <3>3. \A i \in 1 .. n + 1 : i \in 1 .. n \/ i = n + 1
      OBVIOUS
    <3> QED BY <3>2, <3>3
  <2> QED BY <1>2, <2>1, <2>2
<1>4. r.data = current_slot_
  BY <1>1
<1>5. PICK kept : kept = IF MustPush THEN <<>> ELSE current_slot_
  OBVIOUS
<1>6. kept \in Seq(Entry) /\ EntriesIn(kept) \subseteq EntriesIn(current_slot_)
  BY <1>5 DEF EntriesIn, BaseInv, TypeOK
<1>7. current_slot_' = IF call[t] = Empty THEN kept ELSE Append(kept, x)
  BY <1>5 DEF report_event, NewSlot
<1>8. /\ EntriesIn(current_slot_') \subseteq EntriesIn(kept) \cup {x}
      /\ call[t] = Empty => EntriesIn(current_slot_') = EntriesIn(kept)
  <2>1. CASE call[t] = Empty
    BY <1>7, <2>1
  <2>2. CASE call[t] # Empty
    <3>1. PICK n \in Nat : n = Len(kept)
      BY <1>6
    <3>2. current_slot_' \in Seq(Entry)
      BY BaseReport DEF BaseInv, TypeOK
    <3>3. /\ DOMAIN current_slot_' = 1 .. n + 1 /\ current_slot_'[n + 1] = x
          /\ DOMAIN kept = 1 .. n /\ \A m \in 1 .. n : current_slot_'[m] = kept[m]
      BY <1>6, <1>7, <2>2, <3>1, <3>2
    <3>4. \A m \in 1 .. n + 1 : m \in 1 .. n \/ m = n + 1
      OBVIOUS
    <3> QED BY <2>2, <3>3, <3>4 DEF EntriesIn
  <2> QED BY <2>1, <2>2
<1>9. ASSUME NEW e \in Entries' PROVE e \in Entries \/ e \in EntriesIn(current_slot_')
  <2>1. CASE \E i \in DOMAIN Reports' : e \in EntriesIn(Reports'[i].data)
    BY <1>3, <1>4, <2>1 DEF Entries
  <2>2. e \in EntriesIn(current_slot_') \/ \E i \in DOMAIN Reports' : e \in EntriesIn(Reports'[i].data)
    BY DEF Entries, EntriesIn
  <2> QED BY <2>1, <2>2
<1>10. EntriesIn(kept) \subseteq Entries
  BY <1>6 DEF Entries
<1> QED BY <1>8, <1>9, <1>10

(* The two ways in which the bound on the empty calls moves: run() is at   *)
(* the same start, or at a new one.                                        *)
LEMMA EmptyCallsGrow ==
    ASSUME TypeOK, TypeOK', start <= now, start' <= now', NEW t \in Nat, t <= now,
           \/ start' = start /\ (EmptyDone => EmptyDone')
           \/ start' = now /\ now' = now
    PROVE  EmptyCalls(t) <= EmptyCalls(t)'
<1>1. start \in Nat /\ now \in Nat /\ start' \in Nat /\ now' \in Nat
  BY DEF TypeOK
<1>2. PICK b \in BOOLEAN : b = EmptyDone /\ (b => start < now)
  BY DEF EmptyDone
<1>3. PICK c \in BOOLEAN : c = EmptyDone' /\ (c => start' < now')
  BY DEF EmptyDone
<1>4. EmptyCalls(t) = (IF start < t THEN 0 ELSE 1 + start - t) + (IF b THEN 1 ELSE 0)
  BY <1>2 DEF EmptyCalls
<1>5. EmptyCalls(t)' = (IF start' < t THEN 0 ELSE 1 + start' - t) + (IF c THEN 1 ELSE 0)
  BY <1>3 DEF EmptyCalls
<1>6. CASE start' = start /\ (EmptyDone => EmptyDone')
  <2>1. b => c
    BY <1>2, <1>3, <1>6
  <2> QED BY <1>1, <1>4, <1>5, <1>6, <2>1
<1>7. CASE start' = now /\ now' = now
  <2>1. ~c
    BY <1>1, <1>3, <1>7
  <2>2. EmptyCalls(t)' = 1 + now - t
    BY <1>1, <1>5, <1>7, <2>1
  <2> QED BY <1>1, <2>2, CallsTyped
<1> QED BY <1>6, <1>7

(* A step in which no call of report_event comes to its end.               *)
LEMMA IdsQuiet ==
    ASSUME BaseInv, BaseInv', IdsInv, CallsInv', Entries' \subseteq Entries, msgid_' = msgid_,
           now' = now \/ now' = now + 1, reported <= reported',
           reported - Cardinality(Pending) <= reported' - Cardinality(Pending'),
           \/ start' = start /\ (EmptyDone => EmptyDone')
           \/ start' = now /\ now' = now
    PROVE  IdsInv'
<1>1. /\ TypeOK /\ TypeOK' /\ start <= now /\ start' <= now' /\ Entries \subseteq Entry
      /\ reported \in Nat /\ reported' \in Nat /\ now \in Nat /\ msgid_ \in Nat
  BY EntriesTyped, BoundsAssumption DEF BaseInv, IdsInv, CallsInv, TypeOK
<1>2. ASSUME NEW e \in Entries
      PROVE  e.ev <= reported' /\ e.at <= now' /\ Near(e.msgid, CallsSince(e))'
  <2>1. e.ev <= reported /\ e.at <= now /\ Near(e.msgid, CallsSince(e)) /\ e \in Entry
    BY <1>1 DEF IdsInv
  <2>2. e.ev \in Nat /\ e.msgid \in Nat /\ e.at \in Nat
    BY <2>1, EntryTyped
  <2>3. e.ev <= reported' /\ e.at <= now'
    BY <1>1, <2>1, <2>2
  <2>4. PICK n \in Int : n = CallsSince(e)
    BY <1>1, <2>1, CallsTyped
  <2>5. PICK m \in Int : m = CallsSince(e)'
    BY <1>1, <2>1, <2>3, CallsTypedNext
  <2>6. n <= m
    <3>1. PICK x \in Nat, y \in Nat : x = EmptyCalls(e.at) /\ y = EmptyCalls(e.at)'
      BY <1>1, <2>1, <2>2, <2>3, CallsTyped, CallsTypedNext
    <3>2. x <= y
      BY <1>1, <2>1, <2>2, <3>1, EmptyCallsGrow
    <3>3. PICK a \in Nat, p \in Nat, q \in Nat :
             a = Cardinality(Apps) /\ p = Cardinality(Pending) /\ q = Cardinality(Pending')
      BY <1>1, CallsTyped, CallsTypedNext
    <3>4. n = (reported - e.ev) + (a - p) + x /\ m = (reported' - e.ev) + (a - q) + y
      BY <2>4, <2>5, <3>1, <3>3 DEF CallsSince
    <3> QED BY <1>1, <2>2, <3>2, <3>3, <3>4
  <2>7. Near(e.msgid, n)
    BY <2>1, <2>4
  <2>8. Near(e.msgid, m)
    BY <1>1, <2>2, <2>6, <2>7, BoundsAssumption DEF Near
  <2> QED BY <2>3, <2>5, <2>8 DEF Near
<1>3. \A d, e \in Entries' : SameSlot(d, e) /\ d.msgid = e.msgid => d = e
  BY DEF IdsInv
<1> QED BY <1>2, <1>3 DEF IdsInv, SameSlot

(* A call comes to its end: its id is unlike those that the server files   *)
(* with it.                                                                *)
LEMMA IdsReport ==
    ASSUME BaseInv, BaseInv', IdsInv, EnoughIds', NEW t \in Threads, report_event(t)
    PROVE  IdsInv'
<1>1. /\ TypeOK /\ TypeOK' /\ CallsInv /\ Entries \subseteq Entry
      /\ reported \in Nat /\ now \in Nat /\ msgid_ \in Nat /\ msgid_' \in Nat /\ start \in Nat
      /\ start <= now
  BY EntriesTyped, BoundsAssumption DEF BaseInv, IdsInv, CallsInv, TypeOK
<1>2. /\ call[t] # None /\ call' = [call EXCEPT ![t] = None]
      /\ msgid_' = NextMsgid
      /\ UNCHANGED <<now, reported, runPc, start>>
  BY DEF report_event, runVars
<1>3. call'[t] = None /\ \A u \in Threads : u # t => call'[u] = call[u]
  BY <1>1, <1>2 DEF TypeOK
<1>4. Submitter \in Threads /\ Apps \subseteq Threads /\ Submitter \notin Apps /\ None # Empty
      /\ None \notin Events /\ Events \subseteq Nat
  BY NoEvent, BoundsAssumption
<1>5. CallsInv'
  BY <1>1, <1>2, <1>3, <1>4 DEF CallsInv
<1>6. /\ t = Submitter => call[t] = Empty
      /\ t # Submitter => t \in Apps /\ call[t] \in Events /\ call[t] <= reported
  BY <1>1, <1>2, <1>4 DEF CallsInv, Threads
<1>7. start' <= now'
  BY <1>1, <1>2
<1>8. ASSUME NEW e \in Entry, e.at <= now PROVE CallsSince(e) + 1 <= CallsSince(e)'
  <2>1. e.ev \in Nat /\ e.at \in Nat
    BY EntryTyped
  <2>2. PICK a \in Nat, p \in Nat, q \in Nat :
           a = Cardinality(Apps) /\ p = Cardinality(Pending) /\ q = Cardinality(Pending')
    BY <1>1, <1>7, CallsTyped, CallsTypedNext
  <2>3. PICK x \in Nat, y \in Nat : x = EmptyCalls(e.at) /\ y = EmptyCalls(e.at)'
    BY <1>1, <1>2, <1>7, <1>8, <2>1, CallsTyped, CallsTypedNext
  <2>4. CallsSince(e) = (reported - e.ev) + (a - p) + x
        /\ CallsSince(e)' = (reported - e.ev) + (a - q) + y
    BY <1>2, <2>2, <2>3 DEF CallsSince
  <2>5. SUFFICES q <= p /\ x <= y /\ (q + 1 = p \/ x + 1 = y)
    BY <1>1, <2>1, <2>4, <2>5
  <2>6. CASE t = Submitter
    <3>1. Pending' = Pending
      BY <1>3, <1>4, <2>6 DEF Pending
    <3>2. ~EmptyDone /\ EmptyDone'
      <4>1. call[Submitter] = Empty /\ runPc \in {"top", "limit"} /\ start < now
        BY <1>1, <1>6, <2>6 DEF CallsInv
      <4> QED BY <1>2, <1>3, <1>4, <2>6, <4>1 DEF EmptyDone
    <3>3. x + 1 = y
      <4>1. x = (IF start < e.at THEN 0 ELSE 1 + start - e.at) + 0
        BY <2>3, <3>2 DEF EmptyCalls
      <4>2. y = (IF start < e.at THEN 0 ELSE 1 + start - e.at) + 1
        BY <1>2, <2>3, <3>2 DEF EmptyCalls
      <4> QED BY <1>1, <2>1, <4>1, <4>2
    <3>4. q = p
      BY <2>2, <3>1
    <3> QED BY <3>3, <3>4
  <2>7. CASE t # Submitter
    <3>1. t \in Pending /\ Pending' = Pending \ {t}
      BY <1>3, <1>4, <1>6, <2>7 DEF Pending
    <3>2. q = p - 1
      BY <1>1, <2>2, <3>1, CallsTyped, FS_RemoveElement
    <3>3. x = y
      <4>1. EmptyDone' <=> EmptyDone
        BY <1>2, <1>3, <1>4, <2>7 DEF EmptyDone
      <4> QED BY <1>2, <2>3, <4>1 DEF EmptyCalls
    <3> QED BY <3>2, <3>3
  <2> QED BY <2>6, <2>7
<1>9. msgid_' = msgid_ + 1 \/ msgid_' = msgid_ + 2 \/ (msgid_' = 1 /\ msgid_ + 1 >= MaxMsgid)
  <2>1. (msgid_ + 1) + 1 = msgid_ + 2
    BY <1>1
  <2> QED BY <1>2, <2>1 DEF NextMsgid
<1>10. PICK x : x = [ev |-> call[t], msgid |-> NextMsgid, at |-> now]
  OBVIOUS
<1>11. Entries' \subseteq Entries \cup {x} /\ (call[t] = Empty => Entries' \subseteq Entries)
  BY <1>10, EntriesReport
<1>12. x.ev = call[t] /\ x.msgid = msgid_' /\ x.at = now
  BY <1>2, <1>10
<1>13. ASSUME NEW e \in Entries
       PROVE  /\ e.ev <= reported' /\ e.at <= now' /\ Near(e.msgid, CallsSince(e))'
              /\ e \in Entries' /\ SameSlot(e, x) => e.msgid # x.msgid
  <2>1. e.ev <= reported /\ e.at <= now /\ Near(e.msgid, CallsSince(e)) /\ e \in Entry
    BY <1>1 DEF IdsInv
  <2>2. e.ev \in Nat /\ e.msgid \in Nat /\ e.at \in Nat
    BY <2>1, EntryTyped
  <2>3. PICK n \in Int : n = CallsSince(e)
    BY <1>1, <2>1, CallsTyped
  <2>4. PICK m \in Int : m = CallsSince(e)' /\ n + 1 <= m
    BY <1>1, <1>2, <1>7, <1>8, <2>1, <2>3, CallsTypedNext
  <2>5. \/ e.msgid <= msgid_ /\ msgid_ - e.msgid <= 2 * n
        \/ e.msgid - msgid_ >= MaxMsgid - 2 - 2 * n
    BY <2>1, <2>3 DEF Near
  <2>6. /\ \/ e.msgid <= msgid_' /\ msgid_' - e.msgid <= 2 * m
           \/ e.msgid - msgid_' >= MaxMsgid - 2 - 2 * m
        /\ 2 * m < MaxMsgid - 2 => e.msgid # msgid_'
    BY <1>1, <1>9, <2>2, <2>4, <2>5, CounterMoves
  <2>7. Near(e.msgid, CallsSince(e))'
    BY <2>4, <2>6 DEF Near
  <2>8. ASSUME e \in Entries', SameSlot(e, x) PROVE 2 * m < MaxMsgid - 2
    <3>1. nice_step(e.at, ServerStep) = nice_step(now, ServerStep)
      BY <1>12, <2>8 DEF SameSlot
    <3>2. now - e.at <= ServerStep - 1
      BY <1>1, <2>1, <2>2, <3>1, SlotLength, BoundsAssumption
    <3>3. PICK a \in Nat : a = Cardinality(Apps)
      BY <1>1, CallsTyped
    <3>4. 2 * (reported - e.ev + a + ServerStep + 1) < MaxMsgid
      BY <1>2, <2>8, <3>1, <3>3 DEF EnoughIds
    <3>5. m <= (reported - e.ev) + a + 1 + (now - e.at)
      BY <1>1, <1>2, <1>7, <2>1, <2>4, <3>3, CallsTypedNext
    <3> QED BY <1>1, <2>2, <3>2, <3>4, <3>5, BoundsAssumption
  <2> QED BY <1>2, <1>12, <2>1, <2>6, <2>7, <2>8
<1>14. ASSUME x \in Entries', call[t] # Empty
       PROVE  x.ev <= reported' /\ x.at <= now' /\ Near(x.msgid, CallsSince(x))'
  <2>1. x \in Entry
    BY <1>1, <1>6, <1>10, <1>14, <1>2 DEF Entry
  <2>2. x.ev <= reported /\ x.at <= now
    BY <1>1, <1>6, <1>12, <1>14
  <2>3. PICK m \in Int : m = CallsSince(x)' /\ m >= 0
    BY <1>1, <1>2, <1>7, <2>1, <2>2, CallsTypedNext
  <2>4. msgid_' <= msgid_' /\ msgid_' - msgid_' <= 2 * m
    BY <1>1, <2>3
  <2> QED BY <1>2, <1>12, <2>2, <2>3, <2>4 DEF Near
<1>15. \A d, e \in Entries' : SameSlot(d, e) /\ d.msgid = e.msgid => d = e
  <2> SUFFICES ASSUME NEW d \in Entries', NEW e \in Entries', SameSlot(d, e), d.msgid = e.msgid
               PROVE  d = e
    OBVIOUS
  <2>1. CASE d \in Entries /\ e \in Entries
    BY <2>1 DEF IdsInv
  <2>2. CASE d \in Entries /\ e = x
    BY <1>13, <2>2
  <2>3. CASE d = x /\ e \in Entries
    <3>1. SameSlot(e, x)
      BY <2>3 DEF SameSlot
    <3> QED BY <1>13, <2>3, <3>1
  <2>4. CASE d = x /\ e = x
    BY <2>4
  <2> QED BY <1>11, <2>1, <2>2, <2>3, <2>4
<1>16. \A e \in Entries' : e.ev <= reported' /\ e.at <= now' /\ Near(e.msgid, CallsSince(e))'
  BY <1>11, <1>13, <1>14
<1> QED BY <1>5, <1>15, <1>16 DEF IdsInv, SameSlot

LEMMA IdsCall ==
    ASSUME BaseInv, BaseInv', IdsInv, NEW a \in Apps, CallReport(a)
    PROVE  IdsInv'
<1>1. /\ TypeOK /\ CallsInv /\ reported \in Nat /\ now \in Nat /\ start <= now
  BY BoundsAssumption DEF BaseInv, IdsInv, CallsInv, TypeOK
<1>2. /\ call[a] = None /\ reported < MaxEvents /\ reported' = reported + 1
      /\ call' = [call EXCEPT ![a] = reported + 1] \/ call' = call
      /\ UNCHANGED <<now, msgid_, current_slot_, current_time_, submit_queue_, runPc, start, inHand,
                     sent>>
  BY DEF CallReport, slotVars, runVars
<1>3. Entries' = Entries
  BY <1>2, ReportsKept DEF Entries
<1>4. Submitter \in Threads /\ Apps \subseteq Threads /\ Submitter \notin Apps /\ a # Submitter
      /\ None \notin Events /\ reported + 1 \in Events
  BY <1>1, <1>2, NoEvent, BoundsAssumption DEF Events
<1>5. call'[Submitter] = call[Submitter] /\ \A t \in Apps : t # a => call'[t] = call[t]
  BY <1>1, <1>2, <1>4 DEF TypeOK
<1>6. call'[a] = reported + 1 \/ call'[a] = None
  BY <1>1, <1>2, <1>4 DEF TypeOK
<1>7. CallsInv'
  <2>1. \A t \in Apps : call'[t] = None \/ (call'[t] \in Events /\ call'[t] <= reported')
    <3> SUFFICES ASSUME NEW t \in Apps, call'[t] # None
                 PROVE  call'[t] \in Events /\ call'[t] <= reported'
      OBVIOUS
    <3>1. CASE t = a
      BY <1>1, <1>2, <1>4, <1>6, <3>1
    <3>2. CASE t # a
      <4>1. call'[t] \in Events /\ call'[t] <= reported /\ call'[t] \in Nat
        <5>1. call'[t] = call[t]
          BY <1>5, <3>2
        <5>2. call[t] \in Events /\ call[t] <= reported
          BY <1>1, <5>1 DEF CallsInv
        <5> QED BY <5>1, <5>2, NoEvent
      <4> QED BY <1>1, <1>2, <4>1
    <3> QED BY <3>1, <3>2
  <2> QED BY <1>1, <1>2, <1>5, <2>1 DEF CallsInv
<1>8. EmptyDone' <=> EmptyDone
  BY <1>2, <1>5 DEF EmptyDone
<1>9. reported - Cardinality(Pending) <= reported' - Cardinality(Pending')
  <2>1. IsFiniteSet(Pending) /\ Cardinality(Pending) \in Nat
    BY <1>1, CallsTyped
  <2>2. a \notin Pending
    BY <1>2, <1>4 DEF Pending
  <2>3. CASE call'[a] = None
    <3>1. Pending' = Pending
      BY <1>2, <1>5, <2>3 DEF Pending
    <3> QED BY <1>1, <1>2, <2>1, <3>1
  <2>4. CASE call'[a] = reported + 1
    <3>1. Pending' = Pending \cup {a}
      BY <1>4, <1>5, <2>4 DEF Pending
    <3>2. Cardinality(Pending') = Cardinality(Pending) + 1
      BY <2>1, <2>2, <3>1, FS_AddElement
    <3> QED BY <1>1, <1>2, <2>1, <3>2
  <2> QED BY <1>6, <2>3, <2>4
<1>10. reported <= reported'
  BY <1>1, <1>2
<1> QED BY <1>2, <1>3, <1>7, <1>8, <1>9, <1>10, IdsQuiet

LEMMA IdsRun ==
    ASSUME BaseInv, BaseInv', IdsInv, run
    PROVE  IdsInv'
<1>1. /\ TypeOK /\ CallsInv /\ reported \in Nat /\ now \in Nat /\ start \in Nat /\ start <= now
  BY BoundsAssumption DEF BaseInv, IdsInv, CallsInv, TypeOK
<1>2. Submitter \in Threads /\ Apps \subseteq Threads /\ Submitter \notin Apps
      /\ None \notin Events /\ None # Empty
  BY NoEvent, BoundsAssumption
<1>3. Entries' \subseteq Entries
  BY EntriesRun
<1>4. /\ UNCHANGED <<now, reported, msgid_>> /\ call[Submitter] = None
      /\ \/ call' = call
         \/ call' = [call EXCEPT ![Submitter] = Empty] /\ runPc' \in {"top", "limit"}
            /\ start' = start /\ start # now /\ runPc \in {"pop", "report"}
  BY <1>1 DEF run, RunTop, RunExit, RunPopTimeout, RunPop, DoReport, DoReportFails, AfterReport,
          RunBelowLimit, RunAboveLimit, RunShrink, slotVars, At, report_empty_event
<1>5. \/ start' = now
      \/ /\ start' = start
         /\ \/ runPc \in {"pop", "report"}
            \/ runPc' \in {"top", "limit", "shrink", "exit"} /\ call' = call
  BY DEF run, RunTop, RunExit, RunPopTimeout, RunPop, DoReport, DoReportFails, AfterReport,
          RunBelowLimit, RunAboveLimit, RunShrink, At
<1>6. \A t \in Apps : call'[t] = call[t]
  BY <1>1, <1>2, <1>4 DEF TypeOK
<1>7. Pending' = Pending
  BY <1>6 DEF Pending
<1>8. start' <= now'
  BY <1>1, <1>4, <1>5
<1>9. CallsInv'
  <2>1. CASE call' = call
    BY <1>1, <1>2, <1>4, <1>8, <2>1 DEF CallsInv
  <2>2. CASE call' # call
    <3>1. call'[Submitter] = Empty
      BY <1>1, <1>2, <1>4, <2>2 DEF TypeOK
    <3>2. start' < now'
      BY <1>1, <1>4, <2>2
    <3> QED BY <1>1, <1>4, <1>6, <1>8, <2>2, <3>1, <3>2 DEF CallsInv
  <2> QED BY <2>1, <2>2
<1>10. \/ start' = start /\ (EmptyDone => EmptyDone')
       \/ start' = now /\ now' = now
  BY <1>4, <1>5 DEF EmptyDone
<1>11. /\ reported <= reported'
       /\ reported - Cardinality(Pending) <= reported' - Cardinality(Pending')
  <2>1. Cardinality(Pending) \in Nat
    BY <1>1, CallsTyped
  <2> QED BY <1>1, <1>4, <1>7, <2>1
<1> QED BY <1>3, <1>4, <1>9, <1>10, <1>11, IdsQuiet

LEMMA IdsNext == IdsInv /\ BaseInv /\ EnoughIds' /\ [Next]_vars => IdsInv'
<1> SUFFICES ASSUME IdsInv, BaseInv, EnoughIds', [Next]_vars PROVE IdsInv'
  OBVIOUS
<1>1. BaseInv'
  BY BaseNext
<1>2. /\ TypeOK /\ CallsInv /\ reported \in Nat /\ now \in Nat /\ start \in Nat /\ start <= now
      /\ Cardinality(Pending) \in Nat
  <2>1. TypeOK /\ CallsInv /\ start <= now
    BY DEF BaseInv, IdsInv, CallsInv
  <2>2. reported \in Nat /\ now \in Nat /\ start \in Nat
    BY <2>1, BoundsAssumption DEF TypeOK
  <2>3. Cardinality(Pending) \in Nat
    BY <2>1, CallsTyped
  <2> QED BY <2>1, <2>2, <2>3
<1>3. ASSUME UNCHANGED <<call, reported, msgid_, current_slot_, submit_queue_, runPc, start, inHand,
                         sent>>,
             now' = now \/ now' = now + 1
      PROVE  IdsInv'
  <2>1. Entries' = Entries
    BY <1>3, ReportsKept DEF Entries
  <2>2. Pending' = Pending
    BY <1>3 DEF Pending
  <2>3. start < now => start' < now'
    BY <1>2, <1>3
  <2>4. EmptyDone => EmptyDone'
    BY <1>3, <2>3 DEF EmptyDone
  <2>5. CallsInv'
    BY <1>2, <1>3, <2>3 DEF CallsInv
  <2>6. /\ reported <= reported'
        /\ reported - Cardinality(Pending) <= reported' - Cardinality(Pending')
    BY <1>2, <1>3, <2>2
  <2> QED BY <1>1, <1>3, <2>1, <2>4, <2>5, <2>6, IdsQuiet
<1>4. CASE UNCHANGED vars
  BY <1>3, <1>4 DEF vars, slotVars, runVars, history
<1>5. CASE Tick
  BY <1>3, <1>5 DEF Tick, slotVars, runVars, history
<1>6. ASSUME NEW a \in Apps, CallReport(a) PROVE IdsInv'
  BY <1>1, <1>6, IdsCall
<1>7. ASSUME NEW t \in Threads, report_event(t) PROVE IdsInv'
  BY <1>1, <1>7, IdsReport
<1>8. ASSUME NEW t \in Threads, report_event_Abort(t) PROVE IdsInv'
  BY <1>3, <1>8 DEF report_event_Abort, slotVars, runVars, history
<1>9. CASE run
  BY <1>1, <1>9, IdsRun
<1>10. CASE Terminate
  BY <1>3, <1>10 DEF Terminate, slotVars, runVars, history
<1>11. ASSUME NEW c, UpdateConf(c) PROVE IdsInv'
  BY <1>3, <1>11 DEF UpdateConf, slotVars, runVars, history
<1> QED BY <1>4, <1>5, <1>6, <1>7, <1>8, <1>9, <1>10, <1>11
        DEF Next, UpdateEnabled, UpdateLimit, UpdateSize

LEMMA IdsInit == Init => IdsInv
<1> SUFFICES ASSUME Init PROVE IdsInv
  OBVIOUS
<1>1. Entries = {}
  BY OrderInit DEF Init, Entries, EntriesIn
<1>2. \A t \in Threads : call[t] = None
  BY DEF Init
<1>3. CallsInv
  BY <1>2, NoEvent, BoundsAssumption DEF Init, CallsInv
<1> QED BY <1>1, <1>3 DEF IdsInv

(* While the ids of report_event do not come round within a slot of the    *)
(* server, no two events that it files under the same slot have the same   *)
(* id, wherever the counter starts again and whichever threads, the submit *)
(* thread with its empty events among them, draw from it.                  *)
THEOREM IdsAreDistinct == Spec /\ []EnoughIds => []IdsDistinctInSlot
<1>1. IdsInv /\ OrderInv => IdsDistinctInSlot
  <2> SUFFICES ASSUME IdsInv, OrderInv PROVE IdsDistinctInSlot
    OBVIOUS
  <2> DEFINE all == UNION {{<<Reports[n].timestamp, Reports[n].data[m]>> : m \in DOMAIN Reports[n].data} :
                              n \in DOMAIN Reports}
  <2>1. ASSUME NEW a \in all PROVE a = <<a[2].at, a[2]>> /\ a[2] \in Entries
    <3>1. PICK n \in DOMAIN Reports : \E m \in DOMAIN Reports[n].data :
             a = <<Reports[n].timestamp, Reports[n].data[m]>>
      OBVIOUS
    <3>2. PICK m \in DOMAIN Reports[n].data : a = <<Reports[n].timestamp, Reports[n].data[m]>>
      BY <3>1
    <3>3. Reports[n].data[m].at = Reports[n].timestamp
      BY DEF OrderInv, InOrder, Stamped
    <3>4. Reports[n].data[m] \in Entries
      BY DEF Entries, EntriesIn
    <3> QED BY <3>2, <3>3, <3>4
  <2>2. ASSUME NEW a \in all, NEW b \in all,
               nice_step(a[1], ServerStep) = nice_step(b[1], ServerStep), a[2].msgid = b[2].msgid
        PROVE  a = b
    <3>1. a[1] = a[2].at /\ b[1] = b[2].at /\ a[2] \in Entries /\ b[2] \in Entries
      BY <2>1
    <3>2. a[2] = b[2]
      BY <2>2, <3>1 DEF IdsInv, SameSlot
    <3> QED BY <2>1, <3>2
  <2> HIDE DEF all
  <2>3. \A a, b \in all : /\ nice_step(a[1], ServerStep) = nice_step(b[1], ServerStep)
                          /\ a[2].msgid = b[2].msgid
                          => a = b
    BY <2>2
  <2> QED BY <2>3 DEF IdsDistinctInSlot, all
<1>2. Init => BaseInv /\ OrderInv /\ IdsInv
  BY BaseInit, OrderInit, IdsInit
<1>3. BaseInv /\ OrderInv /\ IdsInv /\ EnoughIds' /\ [Next]_vars => BaseInv' /\ OrderInv' /\ IdsInv'
  BY BaseNext, OrderNext, IdsNext
<1> QED BY <1>1, <1>2, <1>3, PTL DEF Spec
=============================================================================
