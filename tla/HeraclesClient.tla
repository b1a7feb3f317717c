--------------------------- MODULE HeraclesClient ---------------------------
(***************************************************************************)
(* The client library (Client/HeraclesClient.cpp): application threads     *)
(* call report_event, which collects the events of one second in           *)
(* current_slot_; the submit thread (run) takes full reports out of        *)
(* submit_queue_ and sends them with rpc_event_submit, which is not        *)
(* repeated when it fails.  The submit thread calls report_event itself    *)
(* with an empty metric to push out a slot that nobody fills.              *)
(*                                                                         *)
(* Events are numbered in the order in which they are reported.            *)
(***************************************************************************)
EXTENDS EventItem, FiniteSets

CONSTANTS
    Apps,           \* the application threads
    InitConf,       \* conf_ after init()
    EnabledUpdates, LimitUpdates, SizeUpdates,  \* values module_runtime may load
    MaxEvents,      \* bound: number of events that are reported
    InitTime, MaxTime, LastReport,  \* bounds of the clock and of report_event
    MaxMsgid,       \* numeric_limits<int32_t>::max()
    ServerStep,     \* event_step of the server, for the properties
    Submitter, None \* the submit thread; "no call of report_event under way"

Conf == [enabled : BOOLEAN, limit : Nat, size : Nat \ {0}]

ASSUME ConfAssumption ==
    /\ InitConf \in Conf
    /\ EnabledUpdates \subseteq BOOLEAN
    /\ LimitUpdates \subseteq Nat /\ SizeUpdates \subseteq Nat \ {0}

ASSUME BoundsAssumption ==
    /\ MaxEvents \in Nat /\ MaxMsgid \in Nat \ {0} /\ ServerStep \in Nat \ {0}
    /\ InitTime \in Nat \ {0} /\ MaxTime \in Nat /\ LastReport \in Nat
    /\ IsFiniteSet(Apps) /\ Submitter \notin Apps /\ None \notin 0 .. MaxEvents

Threads == Apps \cup {Submitter}
Empty   == 0                        \* the event with the empty metric
Events  == 1 .. MaxEvents

(* An event in a slot: its number, its message id and, for the properties, *)
(* the time at which it was put there.                                     *)
Entry  == [ev : Events, msgid : Nat, at : Nat]
Report == [timestamp : Nat, data : Seq(Entry)]

VARIABLES
    now,            \* ::time(NULL)
    conf_,          \* HeraclesClientConf, read without a lock
    call,           \* per thread: the event of its report_event call
    reported,       \* number of events whose report_event call has begun
    msgid_, current_time_, current_slot_,   \* guarded by lock_
    submit_queue_,
    runPc, start, inHand,   \* run(): position, locals start and report_ptr
    thread_terminate_,
    aborted,        \* the assert in report_event has ended the process
    sent,           \* reports that reached the server
    lost,           \* events of reports whose submit failed
    shrunk,         \* events of reports that SHRINK_FRONT dropped
    ignored         \* events reported while reporting was disabled

slotVars == <<msgid_, current_time_, current_slot_>>
runVars  == <<runPc, start, inHand>>
history  == <<sent, lost, shrunk, ignored>>
vars == <<now, conf_, call, reported, slotVars, submit_queue_, runVars,
          thread_terminate_, aborted, history>>

NoReport == [timestamp |-> 0, data |-> <<>>]

(* init() succeeded and started the thread.                                *)
Init ==
    /\ now = InitTime
    /\ conf_ = InitConf
    /\ call = [t \in Threads |-> None]
    /\ reported = 0
    /\ msgid_ = 0 /\ current_time_ = 0 /\ current_slot_ = <<>>
    /\ submit_queue_ = <<>>
    /\ runPc = "top" /\ start = 0 /\ inHand = NoReport
    /\ thread_terminate_ = FALSE
    /\ aborted = FALSE
    /\ sent = <<>> /\ lost = {} /\ shrunk = {} /\ ignored = {}

EventsIn(data) == {data[n].ev : n \in DOMAIN data}
EventsOfAll(reports) == UNION {EventsIn(reports[n].data) : n \in DOMAIN reports}

(* Every thread waits for the clock: no call is under way and run() waits  *)
(* in POP.                                                                 *)
AllWait ==
    /\ \A t \in Threads : call[t] = None
    /\ runPc = "pop" /\ submit_queue_ = <<>> /\ start = now

(* The clock runs ahead of the threads as far as it likes while events are *)
(* reported; the few ticks after LastReport are kept until all wait.       *)
Tick ==
    /\ now < MaxTime
    /\ now < LastReport \/ AllWait
    /\ now' = now + 1
    /\ UNCHANGED <<conf_, call, reported, slotVars, submit_queue_, runVars,
                   thread_terminate_, aborted, history>>

-----------------------------------------------------------------------------
(* report_event.  The test of report_enabled_ is made without lock_; the   *)
(* rest runs under lock_ and is one step.                                  *)
CallReport(a) ==
    /\ ~aborted
    /\ call[a] = None
    /\ reported < MaxEvents /\ now <= LastReport
    /\ reported' = reported + 1
    /\ IF conf_.enabled
       THEN call' = [call EXCEPT ![a] = reported + 1] /\ UNCHANGED ignored
       ELSE ignored' = ignored \cup {reported + 1} /\ UNCHANGED call
    /\ UNCHANGED <<now, conf_, slotVars, submit_queue_, runVars, thread_terminate_,
                   aborted, sent, lost, shrunk>>

NewSecond == now # current_time_

(* Mutant: > for >=, a report is pushed one event too late.                *)
MustPush_OneLate == Len(current_slot_) > conf_.size \/ NewSecond

MustPush == Len(current_slot_) >= conf_.size \/ NewSecond

PushSlot ==
    submit_queue_' = IF MustPush /\ current_slot_ # <<>>
                     THEN Append(submit_queue_, [timestamp |-> current_time_, data |-> current_slot_])
                     ELSE submit_queue_

(* Mutant: the counter starts again in every second.                       *)
NextMsgid_EverySecond == IF NewSecond THEN 1 ELSE msgid_ + 1

(* The id is counted up, and once more in a new second, where the counter  *)
(* also starts again when it has reached the 32 bit limit.                 *)
NextMsgid ==
    LET up == msgid_ + 1
    IN  IF ~NewSecond THEN up
        ELSE IF up >= MaxMsgid THEN 1 ELSE up + 1

(* Mutant: a slot that is pushed in the same second is not emptied.        *)
NewSlot_NotSwapped(e) ==
    LET kept == IF NewSecond THEN <<>> ELSE current_slot_
    IN  IF e = Empty THEN kept
                     ELSE Append(kept, [ev |-> e, msgid |-> NextMsgid, at |-> now])

NewSlot(e) ==
    LET kept == IF MustPush THEN <<>> ELSE current_slot_
    IN  IF e = Empty THEN kept
                     ELSE Append(kept, [ev |-> e, msgid |-> NextMsgid, at |-> now])

(* assert(current_slot_.size() <= conf_.size_per_report_)                  *)
AssertOk == MustPush => Len(current_slot_) <= conf_.size

(* It goes on whatever the assertion says: the default build type,         *)
(* RelWithDebInfo, defines NDEBUG.                                         *)
report_event(t) ==
    /\ ~aborted
    /\ call[t] # None
    /\ PushSlot
    /\ msgid_' = NextMsgid
    /\ current_time_' = now
    /\ current_slot_' = NewSlot(call[t])
    /\ call' = [call EXCEPT ![t] = None]
    /\ UNCHANGED <<now, conf_, reported, runVars, thread_terminate_, aborted, history>>

(* A build with BUILD_DEBUG, or an application that compiles the client    *)
(* library without NDEBUG, ends here.                                      *)
report_event_Abort(t) ==
    /\ ~aborted
    /\ call[t] # None
    /\ ~AssertOk
    /\ aborted' = TRUE
    /\ UNCHANGED <<now, conf_, call, reported, slotVars, submit_queue_, runVars,
                   thread_terminate_, history>>

-----------------------------------------------------------------------------
(* run().  A step of it waits while its own report_event call is under     *)
(* way.                                                                    *)
At(pc) == ~aborted /\ runPc = pc /\ call[Submitter] = None

RunTop ==
    /\ At("top")
    /\ ~thread_terminate_
    /\ start' = now
    /\ runPc' = "pop"
    /\ UNCHANGED <<now, conf_, call, reported, slotVars, submit_queue_, inHand,
                   thread_terminate_, aborted, history>>

RunExit ==
    /\ At("top")
    /\ thread_terminate_
    /\ runPc' = "exit"
    /\ UNCHANGED <<now, conf_, call, reported, slotVars, submit_queue_, start, inHand,
                   thread_terminate_, aborted, history>>

(* report_empty_event, which returns at once when reporting is disabled.   *)
report_empty_event ==
    call' = IF conf_.enabled THEN [call EXCEPT ![Submitter] = Empty] ELSE call

(* Mutant: does not report the empty event when POP times out.             *)
RunPopTimeout_NoEmptyEvent ==
    /\ At("pop")
    /\ submit_queue_ = <<>> /\ now > start
    /\ runPc' = "top"
    /\ UNCHANGED <<now, conf_, call, reported, slotVars, submit_queue_, start, inHand,
                   thread_terminate_, aborted, history>>

(* POP waited 1000 ms in vain: the clock has moved on.                     *)
RunPopTimeout ==
    /\ At("pop")
    /\ submit_queue_ = <<>> /\ now > start
    /\ report_empty_event
    /\ runPc' = "top"
    /\ UNCHANGED <<now, conf_, reported, slotVars, submit_queue_, start, inHand,
                   thread_terminate_, aborted, history>>

RunPop ==
    /\ At("pop")
    /\ submit_queue_ # <<>>
    /\ inHand' = Head(submit_queue_)
    /\ submit_queue_' = Tail(submit_queue_)
    /\ runPc' = "report"
    /\ UNCHANGED <<now, conf_, call, reported, slotVars, start, thread_terminate_, aborted, history>>

(* After do_report: the empty event if a second has passed.                *)
AfterReport ==
    /\ runPc' = "limit"
    /\ inHand' = NoReport
    /\ IF now # start THEN report_empty_event ELSE UNCHANGED call
    /\ UNCHANGED <<now, conf_, reported, slotVars, submit_queue_, start,
                   thread_terminate_, aborted, shrunk, ignored>>

(* do_report: the report reaches the server ...                            *)
DoReport ==
    /\ At("report")
    /\ sent' = Append(sent, inHand)
    /\ UNCHANGED lost
    /\ AfterReport

(* Mutant: a report that could not be sent goes back into the queue.       *)
DoReportFails_Requeue ==
    /\ At("report")
    /\ submit_queue_' = Append(submit_queue_, inHand)
    /\ runPc' = "limit" /\ inHand' = NoReport
    /\ IF now # start THEN report_empty_event ELSE UNCHANGED call
    /\ UNCHANGED <<now, conf_, reported, slotVars, start, thread_terminate_, aborted, history>>

(* ... or rpc_event_submit fails, and the report is dropped.               *)
DoReportFails ==
    /\ At("report")
    /\ lost' = lost \cup EventsIn(inHand.data)
    /\ UNCHANGED sent
    /\ AfterReport

(* The limit is read once for the test and again for SHRINK_FRONT.         *)
RunBelowLimit ==
    /\ At("limit")
    /\ conf_.limit = 0 \/ Len(submit_queue_) <= conf_.limit
    /\ runPc' = "top"
    /\ UNCHANGED <<now, conf_, call, reported, slotVars, submit_queue_, start, inHand,
                   thread_terminate_, aborted, history>>

RunAboveLimit ==
    /\ At("limit")
    /\ conf_.limit # 0 /\ Len(submit_queue_) > conf_.limit
    /\ runPc' = "shrink"
    /\ UNCHANGED <<now, conf_, call, reported, slotVars, submit_queue_, start, inHand,
                   thread_terminate_, aborted, history>>

(* How many reports SHRINK_FRONT(sz) takes from the front.                 *)
Surplus(sz) == IF Len(submit_queue_) <= sz THEN 0 ELSE Len(submit_queue_) - sz

RunShrink ==
    LET n == Surplus(conf_.limit)
    IN  /\ At("shrink")
        /\ shrunk' = shrunk \cup EventsOfAll(SubSeq(submit_queue_, 1, n))
        /\ submit_queue_' = SubSeq(submit_queue_, n + 1, Len(submit_queue_))
        /\ runPc' = "top"
        /\ UNCHANGED <<now, conf_, call, reported, slotVars, start, inHand,
                       thread_terminate_, aborted, sent, lost, ignored>>

(* The destructor; it then waits for run() to leave its loop.              *)
Terminate ==
    /\ ~aborted /\ ~thread_terminate_
    /\ thread_terminate_' = TRUE
    /\ UNCHANGED <<now, conf_, call, reported, slotVars, submit_queue_, runVars, aborted, history>>

-----------------------------------------------------------------------------
(* module_runtime assigns the fields one after the other, unlocked.        *)
UpdateConf(c) ==
    /\ ~aborted
    /\ conf_' = c
    /\ UNCHANGED <<now, call, reported, slotVars, submit_queue_, runVars,
                   thread_terminate_, aborted, history>>

UpdateEnabled(v) == UpdateConf([conf_ EXCEPT !.enabled = v])
UpdateLimit(v)   == UpdateConf([conf_ EXCEPT !.limit = v])
UpdateSize(v)    == UpdateConf([conf_ EXCEPT !.size = v])

run ==
    \/ RunTop \/ RunExit \/ RunPopTimeout \/ RunPop \/ DoReport \/ DoReportFails
    \/ RunBelowLimit \/ RunAboveLimit \/ RunShrink

Next ==
    \/ Tick
    \/ \E a \in Apps : CallReport(a)
    \/ \E t \in Threads : report_event(t) \/ report_event_Abort(t)
    \/ run
    \/ Terminate
    \/ \E v \in EnabledUpdates : UpdateEnabled(v)
    \/ \E v \in LimitUpdates : UpdateLimit(v)
    \/ \E v \in SizeUpdates : UpdateSize(v)

(* The clock goes on, a call of report_event comes to its end and the      *)
(* submit thread keeps running.  rpc_event_submit returns: the server      *)
(* answers or the connection breaks.                                       *)
Fairness ==
    /\ WF_vars(Tick)
    /\ \A t \in Threads : WF_vars(report_event(t) \/ report_event_Abort(t))
    /\ WF_vars(run)

Spec == Init /\ [][Next]_vars
FairSpec == Spec /\ Fairness

-----------------------------------------------------------------------------
(* Properties                                                              *)

(* Every variable has its type.                                            *)
TypeOK ==
    /\ now \in Nat /\ conf_ \in Conf
    /\ call \in [Threads -> Events \cup {Empty, None}]
    /\ reported \in 0 .. MaxEvents
    /\ msgid_ \in Nat /\ current_time_ \in Nat /\ current_slot_ \in Seq(Entry)
    /\ submit_queue_ \in Seq(Report)
    /\ runPc \in {"top", "pop", "report", "limit", "shrink", "exit"}
    /\ start \in Nat /\ inHand \in Report
    /\ thread_terminate_ \in BOOLEAN /\ aborted \in BOOLEAN
    /\ sent \in Seq(Report)
    /\ lost \subseteq Events /\ shrunk \subseteq Events /\ ignored \subseteq Events

(* All reports that still exist, oldest first.                             *)
Reports == sent \o (IF inHand.data = <<>> THEN <<>> ELSE <<inHand>>) \o submit_queue_

(* Every event that was reported is in exactly one place: in a call under  *)
(* way, the current slot, one report, or given up - a failed submit, the   *)
(* queue limit, reporting disabled.  Nothing is lost or sent twice when    *)
(* the slot changes hands in report_event or the queue in run().           *)
EveryEventOnce ==
    \A e \in Events :
        LET places ==
                  Cardinality({t \in Threads : call[t] = e})
                + Cardinality({n \in DOMAIN current_slot_ : current_slot_[n].ev = e})
                + Cardinality({p \in UNION {{n} \X DOMAIN Reports[n].data : n \in DOMAIN Reports} :
                                  Reports[p[1]].data[p[2]].ev = e})
                + Cardinality({S \in {<<1, lost>>, <<2, shrunk>>, <<3, ignored>>} : e \in S[2]})
        IN  places = IF e <= reported THEN 1 ELSE 0

(* The time stamp of a report is the second in which each of its events    *)
(* was recorded ("must be of the same time", EventTypes.h), whoever pushed *)
(* it in report_event, and run() sends the reports in the order of their   *)
(* time stamps, whatever was dropped or failed between them.               *)
SentInOrder ==
    /\ \A n \in DOMAIN Reports : \A m \in DOMAIN Reports[n].data :
          Reports[n].data[m].at = Reports[n].timestamp
    /\ \A m \in DOMAIN current_slot_ : current_slot_[m].at = current_time_
    /\ \A m, n \in DOMAIN Reports : m < n => Reports[m].timestamp <= Reports[n].timestamp

Sizes == {InitConf.size} \cup SizeUpdates

(* No report is empty or carries more events than some configured          *)
(* size_per_report, also where the assertion in report_event ("every       *)
(* report makes this check, so there cannot be too many") is compiled out; *)
(* where it is not, it fails only when a reload has lowered the size under *)
(* a fuller slot.                                                          *)
ReportSize ==
    /\ aborted => \E s \in Sizes : conf_.size < s
    /\ \A n \in DOMAIN Reports : Len(Reports[n].data) \in UNION {1 .. s : s \in Sizes}

(* Two events that the server files under the same slot have different     *)
(* message ids, so its duplicate check never drops one of a client that    *)
(* keeps running - also when the counter starts again.                     *)
IdsDistinctInSlot ==
    LET all == UNION {{<<Reports[n].timestamp, Reports[n].data[m]>> : m \in DOMAIN Reports[n].data} :
                         n \in DOMAIN Reports}
    IN  \A a, b \in all :
            /\ nice_step(a[1], ServerStep) = nice_step(b[1], ServerStep)
            /\ a[2].msgid = b[2].msgid
            => a = b

(* What is recorded and not given up.                                      *)
EntriesIn(data) == {data[m] : m \in DOMAIN data}
Entries ==
    EntriesIn(current_slot_) \cup UNION {EntriesIn(Reports[n].data) : n \in DOMAIN Reports}

(* The ids do not come round while the server's slot lasts: with every     *)
(* event reported since, a call more of every thread and an empty event a  *)
(* second, each of them worth two ids, fewer than MaxMsgid are used.       *)
EnoughIds ==
    \A e \in Entries : nice_step(e.at, ServerStep) = nice_step(now, ServerStep) =>
        2 * (reported - e.ev + Cardinality(Apps) + ServerStep + 1) < MaxMsgid

Gone(e) == e \in EventsOfAll(sent) \cup lost \cup shrunk \cup ignored

(* An event that was reported is sent or given up in the end, also when    *)
(* no other event ever follows it, unless the client is shut down, the     *)
(* assertion in report_event ends the process or reporting is disabled:    *)
(* the empty event is then disabled too and the slot stays where it is.    *)
ReportedIsSubmitted ==
    \A e \in Events :
        e <= reported ~> Gone(e) \/ thread_terminate_ \/ aborted \/ ~conf_.enabled
=============================================================================
