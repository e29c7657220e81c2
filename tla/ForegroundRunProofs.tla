------------------------- MODULE ForegroundRunProofs -------------------------
(***************************************************************************)
(* The inductive invariant of a foreground run and what follows from it,   *)
(* for any finite set of calls, any ids, kinds and action limit, and for   *)
(* native and direct runs: every safety property that the runs check, and  *)
(* that the run implements RunPromise.  One lemma per action shows that it *)
(* keeps the invariant, with a step for each group of conjuncts.           *)
(***************************************************************************)
EXTENDS ForegroundRun, TLAPS

(* The steps after a call has done its work on the project. *)
Served == {"record", "push", "persist", "announce", "drop", "notify", "answer",
           "error", "close", "closing", "gone"}

(* The steps after a completion is in the gate's list. *)
Listed == Served \ {"record", "push"}

(* GateState.in_flight counts the Admissions that are alive. *)
FlightCounted == \A c \in Calls : pc[c] \in Admitted <=> c \in inFlight

(* Past CloseGate, or ResponseFinished, nothing reopens the gate. *)
DoorShut == at \notin {"step", "batch", "close"} => ~accepting

(* A run that finishes stays drained. *)
Drained == at \in {"drained", "report", "over"} /\ ending \in Reported => inFlight = {}

(* How a run ends follows from what it was about to report. *)
Ended ==
    /\ at = "report" => ending \in Reported
    /\ outcome = "running" <=> at # "over"
    /\ outcome \in Reported => ending \in Reported

(* One call at a time is inside record_completion. *)
RecorderAlone == \A c \in Calls : pc[c] \in {"push", "persist"} <=> recorder = c

(* What it writes to the receipt is the whole list. *)
CloneCurrent == \A c \in Calls : pc[c] = "persist" => clone[c] = completed

ReceiptFollows == native => durable \subseteq completed

CompletedServed == \A c \in completed : pc[c] \in Listed

(* A call that was carried out is recorded: in the list, and in a direct   *)
(* run in the transcript too unless that failed.                           *)
ExecutedRecorded ==
    \A c \in executed :
        /\ pc[c] \in Served
        /\ pc[c] \in Listed => c \in completed
        /\ ~native /\ pc[c] # "record" => c \in durable \cup failed

AnswersAreSound == \A c \in Calls : pc[c] = "answer" => c \notin failed

(* A direct run waits for its call or has given up.                        *)
BatchWaits ==
    ~native =>
        \A c \in Calls :
            pc[c] \notin {"idle", "gone"} \/ c \in failed =>
                ending \in GivenUp \/ (at = "batch" /\ active = c)

(* Calls that were given their id have one of their own.                   *)
Named == completed \cup {c \in Calls : pc[c] \in Admitted \cup {"admitScope", "admit"}}

IdsTaken ==
    /\ \A c \in Calls : pc[c] # "idle" => id[c] \in Ids
    /\ \A c \in Named : id[c] \in seen
    /\ \A c, d \in Named : c # d => id[c] # id[d]

(* A mutation is deferred with a write request behind it, and from then on *)
(* a run can only report the transition; a call is refused at a boundary,  *)
(* and from then on a run cannot report that it completed.                 *)
TurnedAway ==
    /\ \A c \in Calls :
          /\ pc[c] = "flag" => asked
          /\ outcomeOf[c] = "deferred" => deferred /\ asked
          /\ outcomeOf[c] = "refused" => boundary
    /\ ~native /\ deferred =>
          at = "batch" \/ ending \in GivenUp \cup {"transition"}
    /\ outcome \in Reported =>
          /\ deferred => outcome = "transition"
          /\ boundary => outcome # "completed"

(* A call that announced its start announces its completion before its     *)
(* Admission goes, unless it failed or its future was dropped, and then    *)
(* the run has given up; what a finishing run has shown is complete.       *)
EventsPaired ==
    /\ \A c \in Calls : [what |-> "started", call |-> c] \in sent =>
          /\ pc[c] \in (Admitted \ {"publish"}) \cup Served
          /\ \/ pc[c] \in Admitted \ {"drop"}
             \/ c \in failed \cup dropped
             \/ [what |-> "completed", call |-> c] \in sent
    /\ dropped # {} => ending \in GivenUp
    /\ at = "report" \/ outcome \in Reported => shown = sent

(* A drain that waits, and was not notified, is about to be or waits for a *)
(* call in flight.                                                         *)
WakeUpComes ==
    at = "wait" /\ ~heard => inFlight # {} \/ \E c \in Calls : pc[c] = "notify"

IInv ==
    /\ TypeOK
    /\ FlightCounted /\ DoorShut /\ Drained /\ Ended
    /\ RecorderAlone /\ CloneCurrent /\ ReceiptFollows
    /\ CompletedServed /\ ExecutedRecorded
    /\ AnswersAreSound /\ BatchWaits /\ IdsTaken
    /\ TurnedAway /\ EventsPaired /\ WakeUpComes

-----------------------------------------------------------------------------

(* A run that reports a result has its calls behind it. *)
LEMMA QuietOnceReported == IInv => ReportedRunIsQuiet
<1> SUFFICES ASSUME IInv, outcome \in Reported
             PROVE  inFlight = {} /\ ~accepting /\ \A c \in Calls : pc[c] \notin Admitted
  BY DEF ReportedRunIsQuiet
<1>1. at = "over" /\ ending \in Reported
  BY DEF IInv, Ended, Reported
<1>2. inFlight = {} /\ ~accepting
  BY <1>1 DEF IInv, Drained, DoorShut
<1> QED
  BY <1>2 DEF IInv, FlightCounted

-----------------------------------------------------------------------------
(* The actions of a call keep the invariant. *)
LEMMA EnsureScopeKeeps ==
  ASSUME IInv, NEW c \in Calls, EnsureScope(c), UNCHANGED runVars
  PROVE  IInv'
<1>1. TypeOK'
  BY DEF IInv, TypeOK, GateTypeOK, Underway, Reported, GivenUp, Places, Steps,
     Outcomes, Events, CallKinds, EnsureScope, Goto, Fails, scopeVars,
     doorVars, flagVars, bookVars, eventVars, callVars, runVars
<1>2. (FlightCounted /\ DoorShut /\ Drained /\ Ended)'
  BY DEF IInv, FlightCounted, DoorShut, Drained, Ended, TypeOK, GateTypeOK,
     Underway, Reported, GivenUp, Admitted, EnsureScope, Goto, Fails,
     scopeVars, doorVars, flagVars, bookVars, eventVars, callVars, runVars
<1>3. (RecorderAlone /\ CloneCurrent /\ ReceiptFollows)'
  BY CallsAssumption DEF IInv, RecorderAlone, CloneCurrent, ReceiptFollows,
     TypeOK, GateTypeOK, EnsureScope, Goto, Fails, scopeVars, doorVars,
     flagVars, bookVars, eventVars, callVars, runVars
<1>4. (CompletedServed /\ ExecutedRecorded)'
  BY DEF IInv, CompletedServed, ExecutedRecorded, TypeOK, GateTypeOK, Served,
     Listed, EnsureScope, Goto, Fails, scopeVars, doorVars, flagVars,
     bookVars, eventVars, callVars, runVars
<1>5. (AnswersAreSound /\ BatchWaits)'
  BY DEF IInv, AnswersAreSound, BatchWaits, TypeOK, GateTypeOK, Reported,
     GivenUp, Underway, EnsureScope, Goto, Fails, scopeVars, doorVars,
     flagVars, bookVars, eventVars, callVars, runVars
<1>6. IdsTaken'
  BY DEF IInv, IdsTaken, TypeOK, GateTypeOK, CompletedServed, Named, Admitted,
     Served, Listed, EnsureScope, Goto, Fails, scopeVars, doorVars, flagVars,
     bookVars, eventVars, callVars, runVars
<1>7. TurnedAway'
  BY QuietOnceReported DEF ReportedRunIsQuiet, IInv, TurnedAway, TypeOK,
     GateTypeOK, Ended, BatchWaits, Reported, GivenUp, Underway, Admitted,
     EnsureScope, Goto, Fails, scopeVars, doorVars, flagVars, bookVars,
     eventVars, callVars, runVars
<1>8. EventsPaired'
  BY QuietOnceReported DEF ReportedRunIsQuiet, IInv, EventsPaired, TypeOK,
     GateTypeOK, Ended, Reported, GivenUp, Underway, Admitted, Served,
     EnsureScope, Goto, Fails, scopeVars, doorVars, flagVars, bookVars,
     eventVars, callVars, runVars
<1>9. WakeUpComes'
  BY DEF IInv, WakeUpComes, TypeOK, GateTypeOK, EnsureScope, Goto, Fails,
     scopeVars, doorVars, flagVars, bookVars, eventVars, callVars, runVars
<1> QED
  BY <1>1, <1>2, <1>3, <1>4, <1>5, <1>6, <1>7, <1>8, <1>9 DEF IInv

LEMMA ReserveKeeps ==
  ASSUME IInv, NEW c \in Calls, Reserve(c), UNCHANGED runVars
  PROVE  IInv'
<1>1. TypeOK'
  <2>1. seen' \subseteq Ids
    BY DEF IInv, TypeOK, GateTypeOK, IdsTaken, Reserve
  <2>2. pc' \in [Calls -> Steps] /\ failed' \subseteq Calls
    BY DEF IInv, TypeOK, GateTypeOK, Steps, Reserve, Fails, Goto
  <2> QED
    BY <2>1, <2>2 DEF IInv, TypeOK, GateTypeOK, Reserve, runVars, scopeVars,
       doorVars, flagVars, bookVars, eventVars, callVars
<1>2. (FlightCounted /\ DoorShut /\ Drained /\ Ended)'
  BY DEF IInv, FlightCounted, DoorShut, Drained, Ended, TypeOK, GateTypeOK,
     Underway, Reported, GivenUp, Admitted, Reserve, Goto, Fails, scopeVars,
     doorVars, flagVars, bookVars, eventVars, callVars, runVars
<1>3. (RecorderAlone /\ CloneCurrent /\ ReceiptFollows)'
  BY CallsAssumption DEF IInv, RecorderAlone, CloneCurrent, ReceiptFollows,
     TypeOK, GateTypeOK, Reserve, Goto, Fails, scopeVars, doorVars, flagVars,
     bookVars, eventVars, callVars, runVars
<1>4. (CompletedServed /\ ExecutedRecorded)'
  BY DEF IInv, CompletedServed, ExecutedRecorded, TypeOK, GateTypeOK, Served,
     Listed, Reserve, Goto, Fails, scopeVars, doorVars, flagVars, bookVars,
     eventVars, callVars, runVars
<1>5. (AnswersAreSound /\ BatchWaits)'
  BY DEF IInv, AnswersAreSound, BatchWaits, TypeOK, GateTypeOK, Reported,
     GivenUp, Underway, Reserve, Goto, Fails, scopeVars, doorVars, flagVars,
     bookVars, eventVars, callVars, runVars
<1>6. IdsTaken'
  BY DEF IInv, IdsTaken, TypeOK, GateTypeOK, CompletedServed, Named, Admitted,
     Served, Listed, Reserve, Goto, Fails, scopeVars, doorVars, flagVars,
     bookVars, eventVars, callVars, runVars
<1>7. TurnedAway'
  BY QuietOnceReported DEF ReportedRunIsQuiet, IInv, TurnedAway, TypeOK,
     GateTypeOK, Ended, BatchWaits, Reported, GivenUp, Underway, Admitted,
     Reserve, Goto, Fails, scopeVars, doorVars, flagVars, bookVars, eventVars,
     callVars, runVars
<1>8. EventsPaired'
  BY QuietOnceReported DEF ReportedRunIsQuiet, IInv, EventsPaired, TypeOK,
     GateTypeOK, Ended, Reported, GivenUp, Underway, Admitted, Served,
     Reserve, Goto, Fails, scopeVars, doorVars, flagVars, bookVars, eventVars,
     callVars, runVars
<1>9. WakeUpComes'
  BY DEF IInv, WakeUpComes, TypeOK, GateTypeOK, Reserve, Goto, Fails,
     scopeVars, doorVars, flagVars, bookVars, eventVars, callVars, runVars
<1> QED
  BY <1>1, <1>2, <1>3, <1>4, <1>5, <1>6, <1>7, <1>8, <1>9 DEF IInv

LEMMA AdmitKeeps ==
  ASSUME IInv, NEW c \in Calls, Admit(c), UNCHANGED runVars
  PROVE  IInv'
<1>1. TypeOK'
  BY DEF IInv, TypeOK, GateTypeOK, Underway, Reported, GivenUp, Places, Steps,
     Outcomes, Events, CallKinds, Admit, Goto, Fails, scopeVars, doorVars,
     flagVars, bookVars, eventVars, callVars, runVars
<1>2. (FlightCounted /\ DoorShut /\ Drained /\ Ended)'
  BY DEF IInv, FlightCounted, DoorShut, Drained, Ended, TypeOK, GateTypeOK,
     Underway, Reported, GivenUp, Admitted, Admit, Goto, Fails, scopeVars,
     doorVars, flagVars, bookVars, eventVars, callVars, runVars
<1>3. (RecorderAlone /\ CloneCurrent /\ ReceiptFollows)'
  BY CallsAssumption DEF IInv, RecorderAlone, CloneCurrent, ReceiptFollows,
     TypeOK, GateTypeOK, Admit, Goto, Fails, scopeVars, doorVars, flagVars,
     bookVars, eventVars, callVars, runVars
<1>4. (CompletedServed /\ ExecutedRecorded)'
  BY DEF IInv, CompletedServed, ExecutedRecorded, TypeOK, GateTypeOK, Served,
     Listed, Admit, Goto, Fails, scopeVars, doorVars, flagVars, bookVars,
     eventVars, callVars, runVars
<1>5. (AnswersAreSound /\ BatchWaits)'
  BY DEF IInv, AnswersAreSound, BatchWaits, TypeOK, GateTypeOK, Reported,
     GivenUp, Underway, Admit, Goto, Fails, scopeVars, doorVars, flagVars,
     bookVars, eventVars, callVars, runVars
<1>6. IdsTaken'
  BY DEF IInv, IdsTaken, TypeOK, GateTypeOK, CompletedServed, Named, Admitted,
     Served, Listed, Admit, Goto, Fails, scopeVars, doorVars, flagVars,
     bookVars, eventVars, callVars, runVars
<1>7. TurnedAway'
  BY QuietOnceReported DEF ReportedRunIsQuiet, IInv, TurnedAway, TypeOK,
     GateTypeOK, Ended, BatchWaits, Reported, GivenUp, Underway, Admitted,
     Admit, Goto, Fails, scopeVars, doorVars, flagVars, bookVars, eventVars,
     callVars, runVars
<1>8. EventsPaired'
  BY QuietOnceReported DEF ReportedRunIsQuiet, IInv, EventsPaired, TypeOK,
     GateTypeOK, Ended, Reported, GivenUp, Underway, Admitted, Served, Admit,
     Goto, Fails, scopeVars, doorVars, flagVars, bookVars, eventVars,
     callVars, runVars
<1>9. WakeUpComes'
  BY DEF IInv, WakeUpComes, TypeOK, GateTypeOK, Admit, Goto, Fails, scopeVars,
     doorVars, flagVars, bookVars, eventVars, callVars, runVars
<1> QED
  BY <1>1, <1>2, <1>3, <1>4, <1>5, <1>6, <1>7, <1>8, <1>9 DEF IInv

LEMMA PublishStartedKeeps ==
  ASSUME IInv, NEW c \in Calls, PublishStarted(c), UNCHANGED runVars
  PROVE  IInv'
<1>1. TypeOK'
  BY DEF IInv, TypeOK, GateTypeOK, Underway, Reported, GivenUp, Places, Steps,
     Outcomes, Events, CallKinds, PublishStarted, Goto, Refuse, Fails,
     NextStep, scopeVars, doorVars, flagVars, bookVars, callVars, runVars
<1>2. (FlightCounted /\ DoorShut /\ Drained /\ Ended)'
  BY DEF IInv, FlightCounted, DoorShut, Drained, Ended, TypeOK, GateTypeOK,
     Underway, Reported, GivenUp, Admitted, PublishStarted, Goto, Refuse,
     Fails, NextStep, scopeVars, doorVars, flagVars, bookVars, callVars,
     runVars
<1>3. (RecorderAlone /\ CloneCurrent /\ ReceiptFollows)'
  BY CallsAssumption DEF IInv, RecorderAlone, CloneCurrent, ReceiptFollows,
     TypeOK, GateTypeOK, PublishStarted, Goto, Refuse, Fails, NextStep,
     scopeVars, doorVars, flagVars, bookVars, callVars, runVars
<1>4. (CompletedServed /\ ExecutedRecorded)'
  BY DEF IInv, CompletedServed, ExecutedRecorded, TypeOK, GateTypeOK, Served,
     Listed, PublishStarted, Goto, Refuse, Fails, NextStep, scopeVars,
     doorVars, flagVars, bookVars, callVars, runVars
<1>5. (AnswersAreSound /\ BatchWaits)'
  BY DEF IInv, AnswersAreSound, BatchWaits, TypeOK, GateTypeOK, Reported,
     GivenUp, Underway, PublishStarted, Goto, Refuse, Fails, NextStep,
     scopeVars, doorVars, flagVars, bookVars, callVars, runVars
<1>6. IdsTaken'
  BY DEF IInv, IdsTaken, TypeOK, GateTypeOK, CompletedServed, Named, Admitted,
     Served, Listed, PublishStarted, Goto, Refuse, Fails, NextStep, scopeVars,
     doorVars, flagVars, bookVars, callVars, runVars
<1>7. TurnedAway'
  BY QuietOnceReported DEF ReportedRunIsQuiet, IInv, TurnedAway, TypeOK,
     GateTypeOK, Ended, BatchWaits, Reported, GivenUp, Underway, Admitted,
     PublishStarted, Goto, Refuse, Fails, NextStep, scopeVars, doorVars,
     flagVars, bookVars, callVars, runVars
<1>8. EventsPaired'
  <2>1. /\ pc[c] = "publish" /\ at' = at /\ outcome' = outcome /\ shown' = shown
        /\ dropped' = dropped /\ ending' = ending
        /\ pc' \in {[pc EXCEPT ![c] = NextStep(c)], [pc EXCEPT ![c] = "drop"]}
    BY DEF PublishStarted, Refuse, Fails, Goto, callVars, runVars
  <2>2. pc'[c] \in Admitted \ {"publish"} /\ \A d \in Calls : d # c => pc'[d] = pc[d]
    BY <2>1 DEF IInv, TypeOK, GateTypeOK, Admitted, NextStep
  <2>3. failed \subseteq failed'
    BY DEF PublishStarted, Refuse, Fails
  <2>4. /\ sent' \subseteq sent \cup {[what |-> "started", call |-> c]}
        /\ sent \subseteq sent' /\ (pc'[c] = "drop" => sent' = sent)
    BY <2>1 DEF IInv, TypeOK, GateTypeOK, PublishStarted, NextStep, Refuse, Goto
  <2>5. ASSUME NEW d \in Calls, [what |-> "started", call |-> d] \in sent'
        PROVE  /\ pc'[d] \in (Admitted \ {"publish"}) \cup Served
               /\ \/ pc'[d] \in Admitted \ {"drop"}
                  \/ d \in failed' \cup dropped'
                  \/ [what |-> "completed", call |-> d] \in sent'
    <3>1. CASE d = c
      BY <2>1, <2>2, <2>4, <2>5, <3>1 DEF IInv, EventsPaired, Served, Admitted
    <3>2. CASE d # c
      <4>1. [what |-> "started", call |-> d] \in sent
        BY <2>4, <2>5, <3>2
      <4> QED
        BY <2>1, <2>2, <2>3, <2>4, <3>2, <4>1 DEF IInv, EventsPaired
    <3> QED
      BY <3>1, <3>2
  <2>6. at' = "report" \/ outcome' \in Reported => shown' = sent'
    <3>1. inFlight # {}
      BY <2>1 DEF IInv, FlightCounted, Admitted
    <3>2. ~(at = "report" \/ outcome \in Reported)
      BY <3>1 DEF IInv, Ended, Drained, Reported
    <3> QED
      BY <2>1, <3>2
  <2> QED
    BY <2>1, <2>5, <2>6 DEF IInv, EventsPaired
<1>9. WakeUpComes'
  BY DEF IInv, WakeUpComes, TypeOK, GateTypeOK, PublishStarted, Goto, Refuse,
     Fails, NextStep, scopeVars, doorVars, flagVars, bookVars, callVars,
     runVars
<1> QED
  BY <1>1, <1>2, <1>3, <1>4, <1>5, <1>6, <1>7, <1>8, <1>9 DEF IInv

LEMMA SubscribeKeeps ==
  ASSUME IInv, NEW c \in Calls, Subscribe(c), UNCHANGED runVars
  PROVE  IInv'
<1>1. TypeOK'
  BY DEF IInv, TypeOK, GateTypeOK, Underway, Reported, GivenUp, Places, Steps,
     Outcomes, Events, CallKinds, Subscribe, Goto, scopeVars, doorVars,
     flagVars, bookVars, eventVars, runVars
<1>2. (FlightCounted /\ DoorShut /\ Drained /\ Ended)'
  BY DEF IInv, FlightCounted, DoorShut, Drained, Ended, TypeOK, GateTypeOK,
     Underway, Reported, GivenUp, Admitted, Subscribe, Goto, scopeVars,
     doorVars, flagVars, bookVars, eventVars, runVars
<1>3. (RecorderAlone /\ CloneCurrent /\ ReceiptFollows)'
  BY CallsAssumption DEF IInv, RecorderAlone, CloneCurrent, ReceiptFollows,
     TypeOK, GateTypeOK, Subscribe, Goto, scopeVars, doorVars, flagVars,
     bookVars, eventVars, runVars
<1>4. (CompletedServed /\ ExecutedRecorded)'
  BY DEF IInv, CompletedServed, ExecutedRecorded, TypeOK, GateTypeOK, Served,
     Listed, Subscribe, Goto, scopeVars, doorVars, flagVars, bookVars,
     eventVars, runVars
<1>5. (AnswersAreSound /\ BatchWaits)'
  BY DEF IInv, AnswersAreSound, BatchWaits, TypeOK, GateTypeOK, Reported,
     GivenUp, Underway, Subscribe, Goto, scopeVars, doorVars, flagVars,
     bookVars, eventVars, runVars
<1>6. IdsTaken'
  BY DEF IInv, IdsTaken, TypeOK, GateTypeOK, CompletedServed, Named, Admitted,
     Served, Listed, Subscribe, Goto, scopeVars, doorVars, flagVars, bookVars,
     eventVars, runVars
<1>7. TurnedAway'
  BY QuietOnceReported DEF ReportedRunIsQuiet, IInv, TurnedAway, TypeOK,
     GateTypeOK, Ended, BatchWaits, Reported, GivenUp, Underway, Admitted,
     Subscribe, Goto, scopeVars, doorVars, flagVars, bookVars, eventVars,
     runVars
<1>8. EventsPaired'
  BY QuietOnceReported DEF ReportedRunIsQuiet, IInv, EventsPaired, TypeOK,
     GateTypeOK, Ended, Reported, GivenUp, Underway, Admitted, Served,
     Subscribe, Goto, scopeVars, doorVars, flagVars, bookVars, eventVars,
     runVars
<1>9. WakeUpComes'
  BY DEF IInv, WakeUpComes, TypeOK, GateTypeOK, Subscribe, Goto, scopeVars,
     doorVars, flagVars, bookVars, eventVars, runVars
<1> QED
  BY <1>1, <1>2, <1>3, <1>4, <1>5, <1>6, <1>7, <1>8, <1>9 DEF IInv

LEMMA LookKeeps ==
  ASSUME IInv, NEW c \in Calls, Look(c), UNCHANGED runVars
  PROVE  IInv'
<1>1. TypeOK'
  BY DEF IInv, TypeOK, GateTypeOK, Underway, Reported, GivenUp, Places, Steps,
     Outcomes, Events, CallKinds, Look, Goto, Refuse, Fails, scopeVars,
     doorVars, flagVars, bookVars, eventVars, callVars, runVars
<1>2. (FlightCounted /\ DoorShut /\ Drained /\ Ended)'
  BY DEF IInv, FlightCounted, DoorShut, Drained, Ended, TypeOK, GateTypeOK,
     Underway, Reported, GivenUp, Admitted, Look, Goto, Refuse, Fails,
     scopeVars, doorVars, flagVars, bookVars, eventVars, callVars, runVars
<1>3. (RecorderAlone /\ CloneCurrent /\ ReceiptFollows)'
  BY CallsAssumption DEF IInv, RecorderAlone, CloneCurrent, ReceiptFollows,
     TypeOK, GateTypeOK, Look, Goto, Refuse, Fails, scopeVars, doorVars,
     flagVars, bookVars, eventVars, callVars, runVars
<1>4. (CompletedServed /\ ExecutedRecorded)'
  BY DEF IInv, CompletedServed, ExecutedRecorded, TypeOK, GateTypeOK, Served,
     Listed, Look, Goto, Refuse, Fails, scopeVars, doorVars, flagVars,
     bookVars, eventVars, callVars, runVars
<1>5. (AnswersAreSound /\ BatchWaits)'
  BY DEF IInv, AnswersAreSound, BatchWaits, TypeOK, GateTypeOK, Reported,
     GivenUp, Underway, Look, Goto, Refuse, Fails, scopeVars, doorVars,
     flagVars, bookVars, eventVars, callVars, runVars
<1>6. IdsTaken'
  BY DEF IInv, IdsTaken, TypeOK, GateTypeOK, CompletedServed, Named, Admitted,
     Served, Listed, Look, Goto, Refuse, Fails, scopeVars, doorVars, flagVars,
     bookVars, eventVars, callVars, runVars
<1>7. TurnedAway'
  BY QuietOnceReported DEF ReportedRunIsQuiet, IInv, TurnedAway, TypeOK,
     GateTypeOK, Ended, BatchWaits, Reported, GivenUp, Underway, Admitted,
     Look, Goto, Refuse, Fails, scopeVars, doorVars, flagVars, bookVars,
     eventVars, callVars, runVars
<1>8. EventsPaired'
  BY QuietOnceReported DEF ReportedRunIsQuiet, IInv, EventsPaired, TypeOK,
     GateTypeOK, Ended, Reported, GivenUp, Underway, Admitted, Served, Look,
     Goto, Refuse, Fails, scopeVars, doorVars, flagVars, bookVars, eventVars,
     callVars, runVars
<1>9. WakeUpComes'
  BY DEF IInv, WakeUpComes, TypeOK, GateTypeOK, Look, Goto, Refuse, Fails,
     scopeVars, doorVars, flagVars, bookVars, eventVars, callVars, runVars
<1> QED
  BY <1>1, <1>2, <1>3, <1>4, <1>5, <1>6, <1>7, <1>8, <1>9 DEF IInv

LEMMA WaitClosedKeeps ==
  ASSUME IInv, NEW c \in Calls, WaitClosed(c), UNCHANGED runVars
  PROVE  IInv'
<1>1. TypeOK'
  BY DEF IInv, TypeOK, GateTypeOK, Underway, Reported, GivenUp, Places, Steps,
     Outcomes, Events, CallKinds, WaitClosed, Goto, Refuse, Fails, scopeVars,
     doorVars, flagVars, bookVars, eventVars, callVars, runVars
<1>2. (FlightCounted /\ DoorShut /\ Drained /\ Ended)'
  BY DEF IInv, FlightCounted, DoorShut, Drained, Ended, TypeOK, GateTypeOK,
     Underway, Reported, GivenUp, Admitted, WaitClosed, Goto, Refuse, Fails,
     scopeVars, doorVars, flagVars, bookVars, eventVars, callVars, runVars
<1>3. (RecorderAlone /\ CloneCurrent /\ ReceiptFollows)'
  BY CallsAssumption DEF IInv, RecorderAlone, CloneCurrent, ReceiptFollows,
     TypeOK, GateTypeOK, WaitClosed, Goto, Refuse, Fails, scopeVars, doorVars,
     flagVars, bookVars, eventVars, callVars, runVars
<1>4. (CompletedServed /\ ExecutedRecorded)'
  BY DEF IInv, CompletedServed, ExecutedRecorded, TypeOK, GateTypeOK, Served,
     Listed, WaitClosed, Goto, Refuse, Fails, scopeVars, doorVars, flagVars,
     bookVars, eventVars, callVars, runVars
<1>5. (AnswersAreSound /\ BatchWaits)'
  BY DEF IInv, AnswersAreSound, BatchWaits, TypeOK, GateTypeOK, Reported,
     GivenUp, Underway, WaitClosed, Goto, Refuse, Fails, scopeVars, doorVars,
     flagVars, bookVars, eventVars, callVars, runVars
<1>6. IdsTaken'
  BY DEF IInv, IdsTaken, TypeOK, GateTypeOK, CompletedServed, Named, Admitted,
     Served, Listed, WaitClosed, Goto, Refuse, Fails, scopeVars, doorVars,
     flagVars, bookVars, eventVars, callVars, runVars
<1>7. TurnedAway'
  BY QuietOnceReported DEF ReportedRunIsQuiet, IInv, TurnedAway, TypeOK,
     GateTypeOK, Ended, BatchWaits, Reported, GivenUp, Underway, Admitted,
     WaitClosed, Goto, Refuse, Fails, scopeVars, doorVars, flagVars, bookVars,
     eventVars, callVars, runVars
<1>8. EventsPaired'
  BY QuietOnceReported DEF ReportedRunIsQuiet, IInv, EventsPaired, TypeOK,
     GateTypeOK, Ended, Reported, GivenUp, Underway, Admitted, Served,
     WaitClosed, Goto, Refuse, Fails, scopeVars, doorVars, flagVars, bookVars,
     eventVars, callVars, runVars
<1>9. WakeUpComes'
  BY DEF IInv, WakeUpComes, TypeOK, GateTypeOK, WaitClosed, Goto, Refuse,
     Fails, scopeVars, doorVars, flagVars, bookVars, eventVars, callVars,
     runVars
<1> QED
  BY <1>1, <1>2, <1>3, <1>4, <1>5, <1>6, <1>7, <1>8, <1>9 DEF IInv

LEMMA AnsweredKeeps ==
  ASSUME IInv, NEW c \in Calls, Answered(c), UNCHANGED runVars
  PROVE  IInv'
<1>1. TypeOK'
  BY DEF IInv, TypeOK, GateTypeOK, Underway, Reported, GivenUp, Places, Steps,
     Outcomes, Events, CallKinds, Answered, Goto, scopeVars, doorVars,
     flagVars, bookVars, eventVars, callVars, runVars
<1>2. (FlightCounted /\ DoorShut /\ Drained /\ Ended)'
  BY DEF IInv, FlightCounted, DoorShut, Drained, Ended, TypeOK, GateTypeOK,
     Underway, Reported, GivenUp, Admitted, Answered, Goto, scopeVars,
     doorVars, flagVars, bookVars, eventVars, callVars, runVars
<1>3. (RecorderAlone /\ CloneCurrent /\ ReceiptFollows)'
  BY CallsAssumption DEF IInv, RecorderAlone, CloneCurrent, ReceiptFollows,
     TypeOK, GateTypeOK, Answered, Goto, scopeVars, doorVars, flagVars,
     bookVars, eventVars, callVars, runVars
<1>4. (CompletedServed /\ ExecutedRecorded)'
  BY DEF IInv, CompletedServed, ExecutedRecorded, TypeOK, GateTypeOK, Served,
     Listed, Answered, Goto, scopeVars, doorVars, flagVars, bookVars,
     eventVars, callVars, runVars
<1>5. (AnswersAreSound /\ BatchWaits)'
  BY DEF IInv, AnswersAreSound, BatchWaits, TypeOK, GateTypeOK, Reported,
     GivenUp, Underway, Answered, Goto, scopeVars, doorVars, flagVars,
     bookVars, eventVars, callVars, runVars
<1>6. IdsTaken'
  BY DEF IInv, IdsTaken, TypeOK, GateTypeOK, CompletedServed, Named, Admitted,
     Served, Listed, Answered, Goto, scopeVars, doorVars, flagVars, bookVars,
     eventVars, callVars, runVars
<1>7. TurnedAway'
  BY QuietOnceReported DEF ReportedRunIsQuiet, IInv, TurnedAway, TypeOK,
     GateTypeOK, Ended, BatchWaits, Reported, GivenUp, Underway, Admitted,
     Answered, Goto, scopeVars, doorVars, flagVars, bookVars, eventVars,
     callVars, runVars
<1>8. EventsPaired'
  BY QuietOnceReported DEF ReportedRunIsQuiet, IInv, EventsPaired, TypeOK,
     GateTypeOK, Ended, Reported, GivenUp, Underway, Admitted, Served,
     Answered, Goto, scopeVars, doorVars, flagVars, bookVars, eventVars,
     callVars, runVars
<1>9. WakeUpComes'
  BY DEF IInv, WakeUpComes, TypeOK, GateTypeOK, Answered, Goto, scopeVars,
     doorVars, flagVars, bookVars, eventVars, callVars, runVars
<1> QED
  BY <1>1, <1>2, <1>3, <1>4, <1>5, <1>6, <1>7, <1>8, <1>9 DEF IInv

LEMMA DecideKeeps ==
  ASSUME IInv, NEW c \in Calls, Decide(c), UNCHANGED runVars
  PROVE  IInv'
<1>1. TypeOK'
  BY DEF IInv, TypeOK, GateTypeOK, Underway, Reported, GivenUp, Places, Steps,
     Outcomes, Events, CallKinds, Decide, Goto, Comes, BoundaryDue, scopeVars,
     doorVars, bookVars, eventVars, callVars, runVars
<1>2. (FlightCounted /\ DoorShut /\ Drained /\ Ended)'
  BY DEF IInv, FlightCounted, DoorShut, Drained, Ended, TypeOK, GateTypeOK,
     Underway, Reported, GivenUp, Admitted, Decide, Goto, Comes, BoundaryDue,
     scopeVars, doorVars, bookVars, eventVars, callVars, runVars
<1>3. (RecorderAlone /\ CloneCurrent /\ ReceiptFollows)'
  BY CallsAssumption DEF IInv, RecorderAlone, CloneCurrent, ReceiptFollows,
     TypeOK, GateTypeOK, Decide, Goto, Comes, BoundaryDue, scopeVars,
     doorVars, bookVars, eventVars, callVars, runVars
<1>4. (CompletedServed /\ ExecutedRecorded)'
  BY DEF IInv, CompletedServed, ExecutedRecorded, TypeOK, GateTypeOK, Served,
     Listed, Decide, Goto, Comes, BoundaryDue, scopeVars, doorVars, bookVars,
     eventVars, callVars, runVars
<1>5. (AnswersAreSound /\ BatchWaits)'
  BY DEF IInv, AnswersAreSound, BatchWaits, TypeOK, GateTypeOK, Reported,
     GivenUp, Underway, Decide, Goto, Comes, BoundaryDue, scopeVars, doorVars,
     bookVars, eventVars, callVars, runVars
<1>6. IdsTaken'
  BY DEF IInv, IdsTaken, TypeOK, GateTypeOK, CompletedServed, Named, Admitted,
     Served, Listed, Decide, Goto, Comes, BoundaryDue, scopeVars, doorVars,
     bookVars, eventVars, callVars, runVars
<1>7. TurnedAway'
  BY QuietOnceReported DEF ReportedRunIsQuiet, IInv, TurnedAway, TypeOK,
     GateTypeOK, Ended, BatchWaits, Reported, GivenUp, Underway, Admitted,
     Decide, Goto, Comes, BoundaryDue, scopeVars, doorVars, bookVars,
     eventVars, callVars, runVars
<1>8. EventsPaired'
  BY QuietOnceReported DEF ReportedRunIsQuiet, IInv, EventsPaired, TypeOK,
     GateTypeOK, Ended, Reported, GivenUp, Underway, Admitted, Served, Decide,
     Goto, Comes, BoundaryDue, scopeVars, doorVars, bookVars, eventVars,
     callVars, runVars
<1>9. WakeUpComes'
  BY DEF IInv, WakeUpComes, TypeOK, GateTypeOK, Decide, Goto, Comes,
     BoundaryDue, scopeVars, doorVars, bookVars, eventVars, callVars, runVars
<1> QED
  BY <1>1, <1>2, <1>3, <1>4, <1>5, <1>6, <1>7, <1>8, <1>9 DEF IInv

LEMMA RegisterKeeps ==
  ASSUME IInv, NEW c \in Calls, Register(c), UNCHANGED runVars
  PROVE  IInv'
<1>1. TypeOK'
  <2>1. asked' \in BOOLEAN
    BY DEF IInv, TypeOK, GateTypeOK, Register
  <2>2. pc' \in [Calls -> Steps]
    BY DEF IInv, TypeOK, GateTypeOK, Steps, Register, Goto
  <2> QED
    BY <2>1, <2>2 DEF IInv, TypeOK, GateTypeOK, Register, runVars, scopeVars,
       doorVars, bookVars, eventVars, callVars
<1>2. (FlightCounted /\ DoorShut /\ Drained /\ Ended)'
  BY DEF IInv, FlightCounted, DoorShut, Drained, Ended, TypeOK, GateTypeOK,
     Underway, Reported, GivenUp, Admitted, Register, Goto, scopeVars,
     doorVars, bookVars, eventVars, callVars, runVars
<1>3. (RecorderAlone /\ CloneCurrent /\ ReceiptFollows)'
  BY CallsAssumption DEF IInv, RecorderAlone, CloneCurrent, ReceiptFollows,
     TypeOK, GateTypeOK, Register, Goto, scopeVars, doorVars, bookVars,
     eventVars, callVars, runVars
<1>4. (CompletedServed /\ ExecutedRecorded)'
  BY DEF IInv, CompletedServed, ExecutedRecorded, TypeOK, GateTypeOK, Served,
     Listed, Register, Goto, scopeVars, doorVars, bookVars, eventVars,
     callVars, runVars
<1>5. (AnswersAreSound /\ BatchWaits)'
  BY DEF IInv, AnswersAreSound, BatchWaits, TypeOK, GateTypeOK, Reported,
     GivenUp, Underway, Register, Goto, scopeVars, doorVars, bookVars,
     eventVars, callVars, runVars
<1>6. IdsTaken'
  BY DEF IInv, IdsTaken, TypeOK, GateTypeOK, CompletedServed, Named, Admitted,
     Served, Listed, Register, Goto, scopeVars, doorVars, bookVars, eventVars,
     callVars, runVars
<1>7. TurnedAway'
  BY QuietOnceReported DEF ReportedRunIsQuiet, IInv, TurnedAway, TypeOK,
     GateTypeOK, Ended, BatchWaits, Reported, GivenUp, Underway, Admitted,
     Register, Goto, scopeVars, doorVars, bookVars, eventVars, callVars,
     runVars
<1>8. EventsPaired'
  BY QuietOnceReported DEF ReportedRunIsQuiet, IInv, EventsPaired, TypeOK,
     GateTypeOK, Ended, Reported, GivenUp, Underway, Admitted, Served,
     Register, Goto, scopeVars, doorVars, bookVars, eventVars, callVars,
     runVars
<1>9. WakeUpComes'
  BY DEF IInv, WakeUpComes, TypeOK, GateTypeOK, Register, Goto, scopeVars,
     doorVars, bookVars, eventVars, callVars, runVars
<1> QED
  BY <1>1, <1>2, <1>3, <1>4, <1>5, <1>6, <1>7, <1>8, <1>9 DEF IInv

LEMMA FlagKeeps ==
  ASSUME IInv, NEW c \in Calls, Flag(c), UNCHANGED runVars
  PROVE  IInv'
<1>1. TypeOK'
  BY DEF IInv, TypeOK, GateTypeOK, Underway, Reported, GivenUp, Places, Steps,
     Outcomes, Events, CallKinds, Flag, Goto, Comes, scopeVars, doorVars,
     bookVars, eventVars, callVars, runVars
<1>2. (FlightCounted /\ DoorShut /\ Drained /\ Ended)'
  BY DEF IInv, FlightCounted, DoorShut, Drained, Ended, TypeOK, GateTypeOK,
     Underway, Reported, GivenUp, Admitted, Flag, Goto, Comes, scopeVars,
     doorVars, bookVars, eventVars, callVars, runVars
<1>3. (RecorderAlone /\ CloneCurrent /\ ReceiptFollows)'
  BY CallsAssumption DEF IInv, RecorderAlone, CloneCurrent, ReceiptFollows,
     TypeOK, GateTypeOK, Flag, Goto, Comes, scopeVars, doorVars, bookVars,
     eventVars, callVars, runVars
<1>4. (CompletedServed /\ ExecutedRecorded)'
  BY DEF IInv, CompletedServed, ExecutedRecorded, TypeOK, GateTypeOK, Served,
     Listed, Flag, Goto, Comes, scopeVars, doorVars, bookVars, eventVars,
     callVars, runVars
<1>5. (AnswersAreSound /\ BatchWaits)'
  BY DEF IInv, AnswersAreSound, BatchWaits, TypeOK, GateTypeOK, Reported,
     GivenUp, Underway, Flag, Goto, Comes, scopeVars, doorVars, bookVars,
     eventVars, callVars, runVars
<1>6. IdsTaken'
  BY DEF IInv, IdsTaken, TypeOK, GateTypeOK, CompletedServed, Named, Admitted,
     Served, Listed, Flag, Goto, Comes, scopeVars, doorVars, bookVars,
     eventVars, callVars, runVars
<1>7. TurnedAway'
  BY QuietOnceReported DEF ReportedRunIsQuiet, IInv, TurnedAway, TypeOK,
     GateTypeOK, Ended, BatchWaits, Reported, GivenUp, Underway, Admitted,
     Flag, Goto, Comes, scopeVars, doorVars, bookVars, eventVars, callVars,
     runVars
<1>8. EventsPaired'
  BY QuietOnceReported DEF ReportedRunIsQuiet, IInv, EventsPaired, TypeOK,
     GateTypeOK, Ended, Reported, GivenUp, Underway, Admitted, Served, Flag,
     Goto, Comes, scopeVars, doorVars, bookVars, eventVars, callVars, runVars
<1>9. WakeUpComes'
  BY DEF IInv, WakeUpComes, TypeOK, GateTypeOK, Flag, Goto, Comes, scopeVars,
     doorVars, bookVars, eventVars, callVars, runVars
<1> QED
  BY <1>1, <1>2, <1>3, <1>4, <1>5, <1>6, <1>7, <1>8, <1>9 DEF IInv

LEMMA ExecuteKeeps ==
  ASSUME IInv, NEW c \in Calls, Execute(c), UNCHANGED runVars
  PROVE  IInv'
<1>1. TypeOK'
  BY DEF IInv, TypeOK, GateTypeOK, Underway, Reported, GivenUp, Places, Steps,
     Outcomes, Events, CallKinds, Execute, Goto, Refuse, Fails, scopeVars,
     doorVars, flagVars, bookVars, eventVars, callVars, runVars
<1>2. (FlightCounted /\ DoorShut /\ Drained /\ Ended)'
  BY DEF IInv, FlightCounted, DoorShut, Drained, Ended, TypeOK, GateTypeOK,
     Underway, Reported, GivenUp, Admitted, Execute, Goto, Refuse, Fails,
     scopeVars, doorVars, flagVars, bookVars, eventVars, callVars, runVars
<1>3. (RecorderAlone /\ CloneCurrent /\ ReceiptFollows)'
  BY CallsAssumption DEF IInv, RecorderAlone, CloneCurrent, ReceiptFollows,
     TypeOK, GateTypeOK, Execute, Goto, Refuse, Fails, scopeVars, doorVars,
     flagVars, bookVars, eventVars, callVars, runVars
<1>4. (CompletedServed /\ ExecutedRecorded)'
  BY DEF IInv, CompletedServed, ExecutedRecorded, TypeOK, GateTypeOK, Served,
     Listed, Execute, Goto, Refuse, Fails, scopeVars, doorVars, flagVars,
     bookVars, eventVars, callVars, runVars
<1>5. (AnswersAreSound /\ BatchWaits)'
  BY DEF IInv, AnswersAreSound, BatchWaits, TypeOK, GateTypeOK, Reported,
     GivenUp, Underway, Execute, Goto, Refuse, Fails, scopeVars, doorVars,
     flagVars, bookVars, eventVars, callVars, runVars
<1>6. IdsTaken'
  BY DEF IInv, IdsTaken, TypeOK, GateTypeOK, CompletedServed, Named, Admitted,
     Served, Listed, Execute, Goto, Refuse, Fails, scopeVars, doorVars,
     flagVars, bookVars, eventVars, callVars, runVars
<1>7. TurnedAway'
  BY QuietOnceReported DEF ReportedRunIsQuiet, IInv, TurnedAway, TypeOK,
     GateTypeOK, Ended, BatchWaits, Reported, GivenUp, Underway, Admitted,
     Execute, Goto, Refuse, Fails, scopeVars, doorVars, flagVars, bookVars,
     eventVars, callVars, runVars
<1>8. EventsPaired'
  BY QuietOnceReported DEF ReportedRunIsQuiet, IInv, EventsPaired, TypeOK,
     GateTypeOK, Ended, Reported, GivenUp, Underway, Admitted, Served,
     Execute, Goto, Refuse, Fails, scopeVars, doorVars, flagVars, bookVars,
     eventVars, callVars, runVars
<1>9. WakeUpComes'
  BY DEF IInv, WakeUpComes, TypeOK, GateTypeOK, Execute, Goto, Refuse, Fails,
     scopeVars, doorVars, flagVars, bookVars, eventVars, callVars, runVars
<1> QED
  BY <1>1, <1>2, <1>3, <1>4, <1>5, <1>6, <1>7, <1>8, <1>9 DEF IInv

LEMMA EffectKeeps ==
  ASSUME IInv, NEW c \in Calls, Effect(c), UNCHANGED runVars
  PROVE  IInv'
<1>1. TypeOK'
  BY DEF IInv, TypeOK, GateTypeOK, Underway, Reported, GivenUp, Places, Steps,
     Outcomes, Events, CallKinds, Effect, Goto, scopeVars, doorVars, flagVars,
     bookVars, eventVars, callVars, runVars
<1>2. (FlightCounted /\ DoorShut /\ Drained /\ Ended)'
  BY DEF IInv, FlightCounted, DoorShut, Drained, Ended, TypeOK, GateTypeOK,
     Underway, Reported, GivenUp, Admitted, Effect, Goto, scopeVars, doorVars,
     flagVars, bookVars, eventVars, callVars, runVars
<1>3. (RecorderAlone /\ CloneCurrent /\ ReceiptFollows)'
  BY CallsAssumption DEF IInv, RecorderAlone, CloneCurrent, ReceiptFollows,
     TypeOK, GateTypeOK, Effect, Goto, scopeVars, doorVars, flagVars,
     bookVars, eventVars, callVars, runVars
<1>4. (CompletedServed /\ ExecutedRecorded)'
  BY DEF IInv, CompletedServed, ExecutedRecorded, TypeOK, GateTypeOK, Served,
     Listed, Effect, Goto, scopeVars, doorVars, flagVars, bookVars, eventVars,
     callVars, runVars
<1>5. (AnswersAreSound /\ BatchWaits)'
  BY DEF IInv, AnswersAreSound, BatchWaits, TypeOK, GateTypeOK, Reported,
     GivenUp, Underway, Effect, Goto, scopeVars, doorVars, flagVars, bookVars,
     eventVars, callVars, runVars
<1>6. IdsTaken'
  BY DEF IInv, IdsTaken, TypeOK, GateTypeOK, CompletedServed, Named, Admitted,
     Served, Listed, Effect, Goto, scopeVars, doorVars, flagVars, bookVars,
     eventVars, callVars, runVars
<1>7. TurnedAway'
  BY QuietOnceReported DEF ReportedRunIsQuiet, IInv, TurnedAway, TypeOK,
     GateTypeOK, Ended, BatchWaits, Reported, GivenUp, Underway, Admitted,
     Effect, Goto, scopeVars, doorVars, flagVars, bookVars, eventVars,
     callVars, runVars
<1>8. EventsPaired'
  BY QuietOnceReported DEF ReportedRunIsQuiet, IInv, EventsPaired, TypeOK,
     GateTypeOK, Ended, Reported, GivenUp, Underway, Admitted, Served, Effect,
     Goto, scopeVars, doorVars, flagVars, bookVars, eventVars, callVars,
     runVars
<1>9. WakeUpComes'
  BY DEF IInv, WakeUpComes, TypeOK, GateTypeOK, Effect, Goto, scopeVars,
     doorVars, flagVars, bookVars, eventVars, callVars, runVars
<1> QED
  BY <1>1, <1>2, <1>3, <1>4, <1>5, <1>6, <1>7, <1>8, <1>9 DEF IInv

LEMMA RecordKeeps ==
  ASSUME IInv, NEW c \in Calls, Record(c), UNCHANGED runVars
  PROVE  IInv'
<1>1. TypeOK'
  BY DEF IInv, TypeOK, GateTypeOK, Underway, Reported, GivenUp, Places, Steps,
     Outcomes, Events, CallKinds, Record, Goto, scopeVars, doorVars, flagVars,
     eventVars, callVars, runVars
<1>2. (FlightCounted /\ DoorShut /\ Drained /\ Ended)'
  BY DEF IInv, FlightCounted, DoorShut, Drained, Ended, TypeOK, GateTypeOK,
     Underway, Reported, GivenUp, Admitted, Record, Goto, scopeVars, doorVars,
     flagVars, eventVars, callVars, runVars
<1>3. (RecorderAlone /\ CloneCurrent /\ ReceiptFollows)'
  BY CallsAssumption DEF IInv, RecorderAlone, CloneCurrent, ReceiptFollows,
     TypeOK, GateTypeOK, Record, Goto, scopeVars, doorVars, flagVars,
     eventVars, callVars, runVars
<1>4. (CompletedServed /\ ExecutedRecorded)'
  BY DEF IInv, CompletedServed, ExecutedRecorded, TypeOK, GateTypeOK, Served,
     Listed, Record, Goto, scopeVars, doorVars, flagVars, eventVars, callVars,
     runVars
<1>5. (AnswersAreSound /\ BatchWaits)'
  BY DEF IInv, AnswersAreSound, BatchWaits, TypeOK, GateTypeOK, Reported,
     GivenUp, Underway, Record, Goto, scopeVars, doorVars, flagVars,
     eventVars, callVars, runVars
<1>6. IdsTaken'
  BY DEF IInv, IdsTaken, TypeOK, GateTypeOK, CompletedServed, Named, Admitted,
     Served, Listed, Record, Goto, scopeVars, doorVars, flagVars, eventVars,
     callVars, runVars
<1>7. TurnedAway'
  BY QuietOnceReported DEF ReportedRunIsQuiet, IInv, TurnedAway, TypeOK,
     GateTypeOK, Ended, BatchWaits, Reported, GivenUp, Underway, Admitted,
     Record, Goto, scopeVars, doorVars, flagVars, eventVars, callVars, runVars
<1>8. EventsPaired'
  BY QuietOnceReported DEF ReportedRunIsQuiet, IInv, EventsPaired, TypeOK,
     GateTypeOK, Ended, Reported, GivenUp, Underway, Admitted, Served, Record,
     Goto, scopeVars, doorVars, flagVars, eventVars, callVars, runVars
<1>9. WakeUpComes'
  BY DEF IInv, WakeUpComes, TypeOK, GateTypeOK, Record, Goto, scopeVars,
     doorVars, flagVars, eventVars, callVars, runVars
<1> QED
  BY <1>1, <1>2, <1>3, <1>4, <1>5, <1>6, <1>7, <1>8, <1>9 DEF IInv

LEMMA PushKeeps ==
  ASSUME IInv, NEW c \in Calls, Push(c), UNCHANGED runVars
  PROVE  IInv'
<1>1. TypeOK'
  BY DEF IInv, TypeOK, GateTypeOK, Underway, Reported, GivenUp, Places, Steps,
     Outcomes, Events, CallKinds, Push, Goto, BoundaryDue, scopeVars,
     doorVars, eventVars, callVars, runVars
<1>2. (FlightCounted /\ DoorShut /\ Drained /\ Ended)'
  BY DEF IInv, FlightCounted, DoorShut, Drained, Ended, TypeOK, GateTypeOK,
     Underway, Reported, GivenUp, Admitted, Push, Goto, BoundaryDue,
     scopeVars, doorVars, eventVars, callVars, runVars
<1>3. (RecorderAlone /\ CloneCurrent /\ ReceiptFollows)'
  BY CallsAssumption DEF IInv, RecorderAlone, CloneCurrent, ReceiptFollows,
     TypeOK, GateTypeOK, Push, Goto, BoundaryDue, scopeVars, doorVars,
     eventVars, callVars, runVars
<1>4. (CompletedServed /\ ExecutedRecorded)'
  BY DEF IInv, CompletedServed, ExecutedRecorded, TypeOK, GateTypeOK, Served,
     Listed, Push, Goto, BoundaryDue, scopeVars, doorVars, eventVars,
     callVars, runVars
<1>5. (AnswersAreSound /\ BatchWaits)'
  BY DEF IInv, AnswersAreSound, BatchWaits, TypeOK, GateTypeOK, Reported,
     GivenUp, Underway, Push, Goto, BoundaryDue, scopeVars, doorVars,
     eventVars, callVars, runVars
<1>6. IdsTaken'
  BY DEF IInv, IdsTaken, TypeOK, GateTypeOK, CompletedServed, Named, Admitted,
     Served, Listed, Push, Goto, BoundaryDue, scopeVars, doorVars, eventVars,
     callVars, runVars
<1>7. TurnedAway'
  BY QuietOnceReported DEF ReportedRunIsQuiet, IInv, TurnedAway, TypeOK,
     GateTypeOK, Ended, BatchWaits, Reported, GivenUp, Underway, Admitted,
     Push, Goto, BoundaryDue, scopeVars, doorVars, eventVars, callVars,
     runVars
<1>8. EventsPaired'
  BY QuietOnceReported DEF ReportedRunIsQuiet, IInv, EventsPaired, TypeOK,
     GateTypeOK, Ended, Reported, GivenUp, Underway, Admitted, Served, Push,
     Goto, BoundaryDue, scopeVars, doorVars, eventVars, callVars, runVars
<1>9. WakeUpComes'
  BY DEF IInv, WakeUpComes, TypeOK, GateTypeOK, Push, Goto, BoundaryDue,
     scopeVars, doorVars, eventVars, callVars, runVars
<1> QED
  BY <1>1, <1>2, <1>3, <1>4, <1>5, <1>6, <1>7, <1>8, <1>9 DEF IInv

LEMMA PersistKeeps ==
  ASSUME IInv, NEW c \in Calls, Persist(c), UNCHANGED runVars
  PROVE  IInv'
<1>1. TypeOK'
  BY DEF IInv, TypeOK, GateTypeOK, Underway, Reported, GivenUp, Places, Steps,
     Outcomes, Events, CallKinds, Persist, Goto, Fails, scopeVars, doorVars,
     flagVars, eventVars, callVars, runVars
<1>2. (FlightCounted /\ DoorShut /\ Drained /\ Ended)'
  BY DEF IInv, FlightCounted, DoorShut, Drained, Ended, TypeOK, GateTypeOK,
     Underway, Reported, GivenUp, Admitted, Persist, Goto, Fails, scopeVars,
     doorVars, flagVars, eventVars, callVars, runVars
<1>3. (RecorderAlone /\ CloneCurrent /\ ReceiptFollows)'
  BY CallsAssumption DEF IInv, RecorderAlone, CloneCurrent, ReceiptFollows,
     TypeOK, GateTypeOK, Persist, Goto, Fails, scopeVars, doorVars, flagVars,
     eventVars, callVars, runVars
<1>4. (CompletedServed /\ ExecutedRecorded)'
  BY DEF IInv, CompletedServed, ExecutedRecorded, TypeOK, GateTypeOK, Served,
     Listed, Persist, Goto, Fails, scopeVars, doorVars, flagVars, eventVars,
     callVars, runVars
<1>5. (AnswersAreSound /\ BatchWaits)'
  BY DEF IInv, AnswersAreSound, BatchWaits, TypeOK, GateTypeOK, Reported,
     GivenUp, Underway, Persist, Goto, Fails, scopeVars, doorVars, flagVars,
     eventVars, callVars, runVars
<1>6. IdsTaken'
  BY DEF IInv, IdsTaken, TypeOK, GateTypeOK, CompletedServed, Named, Admitted,
     Served, Listed, Persist, Goto, Fails, scopeVars, doorVars, flagVars,
     eventVars, callVars, runVars
<1>7. TurnedAway'
  BY QuietOnceReported DEF ReportedRunIsQuiet, IInv, TurnedAway, TypeOK,
     GateTypeOK, Ended, BatchWaits, Reported, GivenUp, Underway, Admitted,
     Persist, Goto, Fails, scopeVars, doorVars, flagVars, eventVars, callVars,
     runVars
<1>8. EventsPaired'
  BY QuietOnceReported DEF ReportedRunIsQuiet, IInv, EventsPaired, TypeOK,
     GateTypeOK, Ended, Reported, GivenUp, Underway, Admitted, Served,
     Persist, Goto, Fails, scopeVars, doorVars, flagVars, eventVars, callVars,
     runVars
<1>9. WakeUpComes'
  BY DEF IInv, WakeUpComes, TypeOK, GateTypeOK, Persist, Goto, Fails,
     scopeVars, doorVars, flagVars, eventVars, callVars, runVars
<1> QED
  BY <1>1, <1>2, <1>3, <1>4, <1>5, <1>6, <1>7, <1>8, <1>9 DEF IInv

LEMMA AnnounceKeeps ==
  ASSUME IInv, NEW c \in Calls, Announce(c), UNCHANGED runVars
  PROVE  IInv'
<1>1. TypeOK'
  BY DEF IInv, TypeOK, GateTypeOK, Underway, Reported, GivenUp, Places, Steps,
     Outcomes, Events, CallKinds, Announce, Goto, Fails, scopeVars, doorVars,
     flagVars, bookVars, callVars, runVars
<1>2. (FlightCounted /\ DoorShut /\ Drained /\ Ended)'
  BY DEF IInv, FlightCounted, DoorShut, Drained, Ended, TypeOK, GateTypeOK,
     Underway, Reported, GivenUp, Admitted, Announce, Goto, Fails, scopeVars,
     doorVars, flagVars, bookVars, callVars, runVars
<1>3. (RecorderAlone /\ CloneCurrent /\ ReceiptFollows)'
  BY CallsAssumption DEF IInv, RecorderAlone, CloneCurrent, ReceiptFollows,
     TypeOK, GateTypeOK, Announce, Goto, Fails, scopeVars, doorVars, flagVars,
     bookVars, callVars, runVars
<1>4. (CompletedServed /\ ExecutedRecorded)'
  BY DEF IInv, CompletedServed, ExecutedRecorded, TypeOK, GateTypeOK, Served,
     Listed, Announce, Goto, Fails, scopeVars, doorVars, flagVars, bookVars,
     callVars, runVars
<1>5. (AnswersAreSound /\ BatchWaits)'
  BY DEF IInv, AnswersAreSound, BatchWaits, TypeOK, GateTypeOK, Reported,
     GivenUp, Underway, Announce, Goto, Fails, scopeVars, doorVars, flagVars,
     bookVars, callVars, runVars
<1>6. IdsTaken'
  BY DEF IInv, IdsTaken, TypeOK, GateTypeOK, CompletedServed, Named, Admitted,
     Served, Listed, Announce, Goto, Fails, scopeVars, doorVars, flagVars,
     bookVars, callVars, runVars
<1>7. TurnedAway'
  BY QuietOnceReported DEF ReportedRunIsQuiet, IInv, TurnedAway, TypeOK,
     GateTypeOK, Ended, BatchWaits, Reported, GivenUp, Underway, Admitted,
     Announce, Goto, Fails, scopeVars, doorVars, flagVars, bookVars, callVars,
     runVars
<1>8. EventsPaired'
  <2>1. /\ pc[c] = "announce" /\ at' = at /\ outcome' = outcome /\ shown' = shown
        /\ dropped' = dropped /\ ending' = ending
        /\ pc' = [pc EXCEPT ![c] = "drop"]
    BY DEF Announce, Goto, callVars, runVars
  <2>2. pc'[c] = "drop" /\ \A d \in Calls : d # c => pc'[d] = pc[d]
    BY <2>1 DEF IInv, TypeOK, GateTypeOK
  <2>3. /\ failed \subseteq failed' /\ sent \subseteq sent'
        /\ sent' \subseteq sent \cup {[what |-> "completed", call |-> c]}
        /\ c \in failed' \/ [what |-> "completed", call |-> c] \in sent'
    BY DEF Announce, Fails
  <2>4. ASSUME NEW d \in Calls, [what |-> "started", call |-> d] \in sent'
        PROVE  /\ pc'[d] \in (Admitted \ {"publish"}) \cup Served
               /\ \/ pc'[d] \in Admitted \ {"drop"}
                  \/ d \in failed' \cup dropped'
                  \/ [what |-> "completed", call |-> d] \in sent'
    <3>1. [what |-> "started", call |-> d] \in sent
      BY <2>3, <2>4
    <3> QED
      BY <2>1, <2>2, <2>3, <3>1 DEF IInv, EventsPaired, Admitted
  <2>5. at' = "report" \/ outcome' \in Reported => shown' = sent'
    <3>1. inFlight # {}
      BY <2>1 DEF IInv, FlightCounted, Admitted
    <3>2. ~(at = "report" \/ outcome \in Reported)
      BY <3>1 DEF IInv, Ended, Drained, Reported
    <3> QED
      BY <2>1, <3>2
  <2> QED
    BY <2>1, <2>4, <2>5 DEF IInv, EventsPaired
<1>9. WakeUpComes'
  BY DEF IInv, WakeUpComes, TypeOK, GateTypeOK, Announce, Goto, Fails,
     scopeVars, doorVars, flagVars, bookVars, callVars, runVars
<1> QED
  BY <1>1, <1>2, <1>3, <1>4, <1>5, <1>6, <1>7, <1>8, <1>9 DEF IInv

LEMMA DropKeeps ==
  ASSUME IInv, NEW c \in Calls, Drop(c), UNCHANGED runVars
  PROVE  IInv'
<1>1. TypeOK'
  BY DEF IInv, TypeOK, GateTypeOK, Underway, Reported, GivenUp, Places, Steps,
     Outcomes, Events, CallKinds, Drop, Goto, AfterDrop, scopeVars, doorVars,
     flagVars, bookVars, eventVars, callVars, runVars
<1>2. (FlightCounted /\ DoorShut /\ Drained /\ Ended)'
  BY DEF IInv, FlightCounted, DoorShut, Drained, Ended, TypeOK, GateTypeOK,
     Underway, Reported, GivenUp, Admitted, Drop, Goto, AfterDrop, scopeVars,
     doorVars, flagVars, bookVars, eventVars, callVars, runVars
<1>3. (RecorderAlone /\ CloneCurrent /\ ReceiptFollows)'
  BY CallsAssumption DEF IInv, RecorderAlone, CloneCurrent, ReceiptFollows,
     TypeOK, GateTypeOK, Drop, Goto, AfterDrop, scopeVars, doorVars, flagVars,
     bookVars, eventVars, callVars, runVars
<1>4. (CompletedServed /\ ExecutedRecorded)'
  BY DEF IInv, CompletedServed, ExecutedRecorded, TypeOK, GateTypeOK, Served,
     Listed, Drop, Goto, AfterDrop, scopeVars, doorVars, flagVars, bookVars,
     eventVars, callVars, runVars
<1>5. (AnswersAreSound /\ BatchWaits)'
  BY DEF IInv, AnswersAreSound, BatchWaits, TypeOK, GateTypeOK, Reported,
     GivenUp, Underway, Drop, Goto, AfterDrop, scopeVars, doorVars, flagVars,
     bookVars, eventVars, callVars, runVars
<1>6. IdsTaken'
  BY DEF IInv, IdsTaken, TypeOK, GateTypeOK, CompletedServed, Named, Admitted,
     Served, Listed, Drop, Goto, AfterDrop, scopeVars, doorVars, flagVars,
     bookVars, eventVars, callVars, runVars
<1>7. TurnedAway'
  BY QuietOnceReported DEF ReportedRunIsQuiet, IInv, TurnedAway, TypeOK,
     GateTypeOK, Ended, BatchWaits, Reported, GivenUp, Underway, Admitted,
     Drop, Goto, AfterDrop, scopeVars, doorVars, flagVars, bookVars,
     eventVars, callVars, runVars
<1>8. EventsPaired'
  BY QuietOnceReported DEF ReportedRunIsQuiet, IInv, EventsPaired, TypeOK,
     GateTypeOK, Ended, Reported, GivenUp, Underway, Admitted, Served, Drop,
     Goto, AfterDrop, scopeVars, doorVars, flagVars, bookVars, eventVars,
     callVars, runVars
<1>9. WakeUpComes'
  BY DEF IInv, WakeUpComes, TypeOK, GateTypeOK, Drop, Goto, AfterDrop,
     scopeVars, doorVars, flagVars, bookVars, eventVars, callVars, runVars
<1> QED
  BY <1>1, <1>2, <1>3, <1>4, <1>5, <1>6, <1>7, <1>8, <1>9 DEF IInv

LEMMA NotifyKeeps ==
  ASSUME IInv, NEW c \in Calls, Notify(c), UNCHANGED runVars
  PROVE  IInv'
<1>1. TypeOK'
  BY DEF IInv, TypeOK, GateTypeOK, Underway, Reported, GivenUp, Places, Steps,
     Outcomes, Events, CallKinds, Notify, Goto, AfterDrop, scopeVars,
     doorVars, flagVars, bookVars, callVars, runVars
<1>2. (FlightCounted /\ DoorShut /\ Drained /\ Ended)'
  BY DEF IInv, FlightCounted, DoorShut, Drained, Ended, TypeOK, GateTypeOK,
     Underway, Reported, GivenUp, Admitted, Notify, Goto, AfterDrop,
     scopeVars, doorVars, flagVars, bookVars, callVars, runVars
<1>3. (RecorderAlone /\ CloneCurrent /\ ReceiptFollows)'
  BY CallsAssumption DEF IInv, RecorderAlone, CloneCurrent, ReceiptFollows,
     TypeOK, GateTypeOK, Notify, Goto, AfterDrop, scopeVars, doorVars,
     flagVars, bookVars, callVars, runVars
<1>4. (CompletedServed /\ ExecutedRecorded)'
  BY DEF IInv, CompletedServed, ExecutedRecorded, TypeOK, GateTypeOK, Served,
     Listed, Notify, Goto, AfterDrop, scopeVars, doorVars, flagVars, bookVars,
     callVars, runVars
<1>5. (AnswersAreSound /\ BatchWaits)'
  BY DEF IInv, AnswersAreSound, BatchWaits, TypeOK, GateTypeOK, Reported,
     GivenUp, Underway, Notify, Goto, AfterDrop, scopeVars, doorVars,
     flagVars, bookVars, callVars, runVars
<1>6. IdsTaken'
  BY DEF IInv, IdsTaken, TypeOK, GateTypeOK, CompletedServed, Named, Admitted,
     Served, Listed, Notify, Goto, AfterDrop, scopeVars, doorVars, flagVars,
     bookVars, callVars, runVars
<1>7. TurnedAway'
  BY QuietOnceReported DEF ReportedRunIsQuiet, IInv, TurnedAway, TypeOK,
     GateTypeOK, Ended, BatchWaits, Reported, GivenUp, Underway, Admitted,
     Notify, Goto, AfterDrop, scopeVars, doorVars, flagVars, bookVars,
     callVars, runVars
<1>8. EventsPaired'
  BY QuietOnceReported DEF ReportedRunIsQuiet, IInv, EventsPaired, TypeOK,
     GateTypeOK, Ended, Reported, GivenUp, Underway, Admitted, Served, Notify,
     Goto, AfterDrop, scopeVars, doorVars, flagVars, bookVars, callVars,
     runVars
<1>9. WakeUpComes'
  BY DEF IInv, WakeUpComes, TypeOK, GateTypeOK, Notify, Goto, AfterDrop,
     scopeVars, doorVars, flagVars, bookVars, callVars, runVars
<1> QED
  BY <1>1, <1>2, <1>3, <1>4, <1>5, <1>6, <1>7, <1>8, <1>9 DEF IInv

LEMMA RecordFatalKeeps ==
  ASSUME IInv, NEW c \in Calls, RecordFatal(c), UNCHANGED runVars
  PROVE  IInv'
<1>1. TypeOK'
  BY DEF IInv, TypeOK, GateTypeOK, Underway, Reported, GivenUp, Places, Steps,
     Outcomes, Events, CallKinds, RecordFatal, Goto, scopeVars, flagVars,
     bookVars, eventVars, callVars, runVars
<1>2. (FlightCounted /\ DoorShut /\ Drained /\ Ended)'
  BY DEF IInv, FlightCounted, DoorShut, Drained, Ended, TypeOK, GateTypeOK,
     Underway, Reported, GivenUp, Admitted, RecordFatal, Goto, scopeVars,
     flagVars, bookVars, eventVars, callVars, runVars
<1>3. (RecorderAlone /\ CloneCurrent /\ ReceiptFollows)'
  BY CallsAssumption DEF IInv, RecorderAlone, CloneCurrent, ReceiptFollows,
     TypeOK, GateTypeOK, RecordFatal, Goto, scopeVars, flagVars, bookVars,
     eventVars, callVars, runVars
<1>4. (CompletedServed /\ ExecutedRecorded)'
  BY DEF IInv, CompletedServed, ExecutedRecorded, TypeOK, GateTypeOK, Served,
     Listed, RecordFatal, Goto, scopeVars, flagVars, bookVars, eventVars,
     callVars, runVars
<1>5. (AnswersAreSound /\ BatchWaits)'
  BY DEF IInv, AnswersAreSound, BatchWaits, TypeOK, GateTypeOK, Reported,
     GivenUp, Underway, RecordFatal, Goto, scopeVars, flagVars, bookVars,
     eventVars, callVars, runVars
<1>6. IdsTaken'
  BY DEF IInv, IdsTaken, TypeOK, GateTypeOK, CompletedServed, Named, Admitted,
     Served, Listed, RecordFatal, Goto, scopeVars, flagVars, bookVars,
     eventVars, callVars, runVars
<1>7. TurnedAway'
  BY QuietOnceReported DEF ReportedRunIsQuiet, IInv, TurnedAway, TypeOK,
     GateTypeOK, Ended, BatchWaits, Reported, GivenUp, Underway, Admitted,
     RecordFatal, Goto, scopeVars, flagVars, bookVars, eventVars, callVars,
     runVars
<1>8. EventsPaired'
  BY QuietOnceReported DEF ReportedRunIsQuiet, IInv, EventsPaired, TypeOK,
     GateTypeOK, Ended, Reported, GivenUp, Underway, Admitted, Served,
     RecordFatal, Goto, scopeVars, flagVars, bookVars, eventVars, callVars,
     runVars
<1>9. WakeUpComes'
  BY DEF IInv, WakeUpComes, TypeOK, GateTypeOK, RecordFatal, Goto, scopeVars,
     flagVars, bookVars, eventVars, callVars, runVars
<1> QED
  BY <1>1, <1>2, <1>3, <1>4, <1>5, <1>6, <1>7, <1>8, <1>9 DEF IInv

LEMMA StopAcceptingKeeps ==
  ASSUME IInv, NEW c \in Calls, StopAccepting(c), UNCHANGED runVars
  PROVE  IInv'
<1>1. TypeOK'
  <2>1. accepting' \in BOOLEAN
    BY DEF StopAccepting
  <2>2. pc' \in [Calls -> Steps]
    BY DEF IInv, TypeOK, GateTypeOK, Steps, StopAccepting, Goto
  <2> QED
    BY <2>1, <2>2 DEF IInv, TypeOK, GateTypeOK, StopAccepting, runVars, scopeVars,
       flagVars, bookVars, eventVars, callVars
<1>2. (FlightCounted /\ DoorShut /\ Drained /\ Ended)'
  BY DEF IInv, FlightCounted, DoorShut, Drained, Ended, TypeOK, GateTypeOK,
     Underway, Reported, GivenUp, Admitted, StopAccepting, Goto, scopeVars,
     flagVars, bookVars, eventVars, callVars, runVars
<1>3. (RecorderAlone /\ CloneCurrent /\ ReceiptFollows)'
  BY CallsAssumption DEF IInv, RecorderAlone, CloneCurrent, ReceiptFollows,
     TypeOK, GateTypeOK, StopAccepting, Goto, scopeVars, flagVars, bookVars,
     eventVars, callVars, runVars
<1>4. (CompletedServed /\ ExecutedRecorded)'
  BY DEF IInv, CompletedServed, ExecutedRecorded, TypeOK, GateTypeOK, Served,
     Listed, StopAccepting, Goto, scopeVars, flagVars, bookVars, eventVars,
     callVars, runVars
<1>5. (AnswersAreSound /\ BatchWaits)'
  BY DEF IInv, AnswersAreSound, BatchWaits, TypeOK, GateTypeOK, Reported,
     GivenUp, Underway, StopAccepting, Goto, scopeVars, flagVars, bookVars,
     eventVars, callVars, runVars
<1>6. IdsTaken'
  BY DEF IInv, IdsTaken, TypeOK, GateTypeOK, CompletedServed, Named, Admitted,
     Served, Listed, StopAccepting, Goto, scopeVars, flagVars, bookVars,
     eventVars, callVars, runVars
<1>7. TurnedAway'
  BY QuietOnceReported DEF ReportedRunIsQuiet, IInv, TurnedAway, TypeOK,
     GateTypeOK, Ended, BatchWaits, Reported, GivenUp, Underway, Admitted,
     StopAccepting, Goto, scopeVars, flagVars, bookVars, eventVars, callVars,
     runVars
<1>8. EventsPaired'
  BY QuietOnceReported DEF ReportedRunIsQuiet, IInv, EventsPaired, TypeOK,
     GateTypeOK, Ended, Reported, GivenUp, Underway, Admitted, Served,
     StopAccepting, Goto, scopeVars, flagVars, bookVars, eventVars, callVars,
     runVars
<1>9. WakeUpComes'
  BY DEF IInv, WakeUpComes, TypeOK, GateTypeOK, StopAccepting, Goto,
     scopeVars, flagVars, bookVars, eventVars, callVars, runVars
<1> QED
  BY <1>1, <1>2, <1>3, <1>4, <1>5, <1>6, <1>7, <1>8, <1>9 DEF IInv

LEMMA SendClosedKeeps ==
  ASSUME IInv, NEW c \in Calls, SendClosed(c), UNCHANGED runVars
  PROVE  IInv'
<1>1. TypeOK'
  BY DEF IInv, TypeOK, GateTypeOK, Underway, Reported, GivenUp, Places, Steps,
     Outcomes, Events, CallKinds, SendClosed, Goto, scopeVars, flagVars,
     bookVars, eventVars, callVars, runVars
<1>2. (FlightCounted /\ DoorShut /\ Drained /\ Ended)'
  BY DEF IInv, FlightCounted, DoorShut, Drained, Ended, TypeOK, GateTypeOK,
     Underway, Reported, GivenUp, Admitted, SendClosed, Goto, scopeVars,
     flagVars, bookVars, eventVars, callVars, runVars
<1>3. (RecorderAlone /\ CloneCurrent /\ ReceiptFollows)'
  BY CallsAssumption DEF IInv, RecorderAlone, CloneCurrent, ReceiptFollows,
     TypeOK, GateTypeOK, SendClosed, Goto, scopeVars, flagVars, bookVars,
     eventVars, callVars, runVars
<1>4. (CompletedServed /\ ExecutedRecorded)'
  BY DEF IInv, CompletedServed, ExecutedRecorded, TypeOK, GateTypeOK, Served,
     Listed, SendClosed, Goto, scopeVars, flagVars, bookVars, eventVars,
     callVars, runVars
<1>5. (AnswersAreSound /\ BatchWaits)'
  BY DEF IInv, AnswersAreSound, BatchWaits, TypeOK, GateTypeOK, Reported,
     GivenUp, Underway, SendClosed, Goto, scopeVars, flagVars, bookVars,
     eventVars, callVars, runVars
<1>6. IdsTaken'
  BY DEF IInv, IdsTaken, TypeOK, GateTypeOK, CompletedServed, Named, Admitted,
     Served, Listed, SendClosed, Goto, scopeVars, flagVars, bookVars,
     eventVars, callVars, runVars
<1>7. TurnedAway'
  BY QuietOnceReported DEF ReportedRunIsQuiet, IInv, TurnedAway, TypeOK,
     GateTypeOK, Ended, BatchWaits, Reported, GivenUp, Underway, Admitted,
     SendClosed, Goto, scopeVars, flagVars, bookVars, eventVars, callVars,
     runVars
<1>8. EventsPaired'
  BY QuietOnceReported DEF ReportedRunIsQuiet, IInv, EventsPaired, TypeOK,
     GateTypeOK, Ended, Reported, GivenUp, Underway, Admitted, Served,
     SendClosed, Goto, scopeVars, flagVars, bookVars, eventVars, callVars,
     runVars
<1>9. WakeUpComes'
  BY DEF IInv, WakeUpComes, TypeOK, GateTypeOK, SendClosed, Goto, scopeVars,
     flagVars, bookVars, eventVars, callVars, runVars
<1> QED
  BY <1>1, <1>2, <1>3, <1>4, <1>5, <1>6, <1>7, <1>8, <1>9 DEF IInv

-----------------------------------------------------------------------------
(* So do the actions that start and end a call for the run. *)
LEMMA NativeCallKeeps ==
  ASSUME IInv, NEW c \in Calls, NativeCall(c)
  PROVE  IInv'
<1>1. TypeOK'
  <2>1. kind' \in [Calls -> CallKinds \cup {"none"}] /\ id' \in [Calls -> Ids \cup {None}]
    BY KindsAssumption DEF IInv, TypeOK, GateTypeOK, NativeCall, New
  <2>2. pc' \in [Calls -> Steps] /\ failed' \subseteq Calls
    BY DEF IInv, TypeOK, GateTypeOK, Steps, NativeCall, Fails, Goto
  <2> QED
    BY <2>1, <2>2 DEF IInv, TypeOK, GateTypeOK, NativeCall, runVars, scopeVars,
       doorVars, flagVars, bookVars, eventVars
<1>2. (FlightCounted /\ DoorShut /\ Drained /\ Ended)'
  BY DEF IInv, FlightCounted, DoorShut, Drained, Ended, TypeOK, GateTypeOK,
     Underway, Reported, GivenUp, Admitted, NativeCall, New, Fails, Goto,
     scopeVars, doorVars, flagVars, bookVars, eventVars, runVars
<1>3. (RecorderAlone /\ CloneCurrent /\ ReceiptFollows)'
  BY CallsAssumption DEF IInv, RecorderAlone, CloneCurrent, ReceiptFollows,
     TypeOK, GateTypeOK, NativeCall, New, Fails, Goto, scopeVars, doorVars,
     flagVars, bookVars, eventVars, runVars
<1>4. (CompletedServed /\ ExecutedRecorded)'
  BY DEF IInv, CompletedServed, ExecutedRecorded, TypeOK, GateTypeOK, Served,
     Listed, NativeCall, New, Fails, Goto, scopeVars, doorVars, flagVars,
     bookVars, eventVars, runVars
<1>5. (AnswersAreSound /\ BatchWaits)'
  BY DEF IInv, AnswersAreSound, BatchWaits, TypeOK, GateTypeOK, Reported,
     GivenUp, Underway, NativeCall, New, Fails, Goto, scopeVars, doorVars,
     flagVars, bookVars, eventVars, runVars
<1>6. IdsTaken'
  BY DEF IInv, IdsTaken, TypeOK, GateTypeOK, CompletedServed, Named, Admitted,
     Served, Listed, NativeCall, New, Fails, Goto, scopeVars, doorVars,
     flagVars, bookVars, eventVars, runVars
<1>7. TurnedAway'
  BY QuietOnceReported DEF ReportedRunIsQuiet, IInv, TurnedAway, TypeOK,
     GateTypeOK, Ended, BatchWaits, Reported, GivenUp, Underway, Admitted,
     NativeCall, New, Fails, Goto, scopeVars, doorVars, flagVars, bookVars,
     eventVars, runVars
<1>8. EventsPaired'
  BY QuietOnceReported DEF ReportedRunIsQuiet, IInv, EventsPaired, TypeOK,
     GateTypeOK, Ended, Reported, GivenUp, Underway, Admitted, Served,
     NativeCall, New, Fails, Goto, scopeVars, doorVars, flagVars, bookVars,
     eventVars, runVars
<1>9. WakeUpComes'
  BY DEF IInv, WakeUpComes, TypeOK, GateTypeOK, NativeCall, New, Fails, Goto,
     scopeVars, doorVars, flagVars, bookVars, eventVars, runVars
<1> QED
  BY <1>1, <1>2, <1>3, <1>4, <1>5, <1>6, <1>7, <1>8, <1>9 DEF IInv

LEMMA BeginCallKeeps ==
  ASSUME IInv, NEW c \in Calls, BeginCall(c)
  PROVE  IInv'
<1>1. TypeOK'
  <2>1. kind' \in [Calls -> CallKinds \cup {"none"}] /\ id' \in [Calls -> Ids \cup {None}]
    BY KindsAssumption DEF IInv, TypeOK, GateTypeOK, BeginCall, New
  <2>2. pc' \in [Calls -> Steps] /\ seen' \subseteq Ids /\ active' \in Calls
    BY DEF IInv, TypeOK, GateTypeOK, Steps, BeginCall, Goto
  <2> QED
    BY <2>1, <2>2 DEF IInv, TypeOK, GateTypeOK, BeginCall, scopeVars,
       doorVars, flagVars, bookVars, eventVars
<1>2. (FlightCounted /\ DoorShut /\ Drained /\ Ended)'
  BY DEF IInv, FlightCounted, DoorShut, Drained, Ended, TypeOK, GateTypeOK,
     Underway, Reported, GivenUp, Admitted, BeginCall, New, Goto, scopeVars,
     doorVars, flagVars, bookVars, eventVars
<1>3. (RecorderAlone /\ CloneCurrent /\ ReceiptFollows)'
  BY CallsAssumption DEF IInv, RecorderAlone, CloneCurrent, ReceiptFollows,
     TypeOK, GateTypeOK, BeginCall, New, Goto, scopeVars, doorVars, flagVars,
     bookVars, eventVars
<1>4. (CompletedServed /\ ExecutedRecorded)'
  BY DEF IInv, CompletedServed, ExecutedRecorded, TypeOK, GateTypeOK, Served,
     Listed, BeginCall, New, Goto, scopeVars, doorVars, flagVars, bookVars,
     eventVars
<1>5. (AnswersAreSound /\ BatchWaits)'
  <2>1. pc' = [pc EXCEPT ![c] = "admitScope"] /\ failed' = failed /\ native' = native
    BY DEF BeginCall, Goto, scopeVars
  <2>2. AnswersAreSound'
    BY <2>1 DEF IInv, AnswersAreSound, TypeOK, GateTypeOK
  <2>3. ending = "none" /\ ending' = "none" /\ at' = "batch" /\ active' = c /\ active = None
    BY DEF IInv, TypeOK, Underway, BeginCall
  <2>4. ASSUME ~native, NEW d \in Calls
        PROVE  d # c => pc[d] \in {"idle", "gone"} /\ d \notin failed
    BY <2>3, <2>4, CallsAssumption DEF IInv, BatchWaits, GivenUp
  <2>5. ~native => c \notin failed
    BY <2>3, CallsAssumption DEF IInv, BatchWaits, GivenUp
  <2>6. BatchWaits'
    BY <2>1, <2>3, <2>4, <2>5 DEF IInv, TypeOK, GateTypeOK, BatchWaits
  <2> QED
    BY <2>2, <2>6
<1>6. IdsTaken'
  BY DEF IInv, IdsTaken, TypeOK, GateTypeOK, CompletedServed, Named, Admitted,
     Served, Listed, BeginCall, New, Goto, scopeVars, doorVars, flagVars,
     bookVars, eventVars
<1>7. TurnedAway'
  BY QuietOnceReported DEF ReportedRunIsQuiet, IInv, TurnedAway, TypeOK,
     GateTypeOK, Ended, BatchWaits, Reported, GivenUp, Underway, Admitted,
     BeginCall, New, Goto, scopeVars, doorVars, flagVars, bookVars, eventVars
<1>8. EventsPaired'
  BY QuietOnceReported DEF ReportedRunIsQuiet, IInv, EventsPaired, TypeOK,
     GateTypeOK, Ended, Reported, GivenUp, Underway, Admitted, Served,
     BeginCall, New, Goto, scopeVars, doorVars, flagVars, bookVars, eventVars
<1>9. WakeUpComes'
  BY DEF IInv, WakeUpComes, TypeOK, GateTypeOK, BeginCall, New, Goto,
     scopeVars, doorVars, flagVars, bookVars, eventVars
<1> QED
  BY <1>1, <1>2, <1>3, <1>4, <1>5, <1>6, <1>7, <1>8, <1>9 DEF IInv

LEMMA CallReturnsKeeps ==
  ASSUME IInv, NEW c \in Calls, CallReturns(c)
  PROVE  IInv'
<1>1. TypeOK'
  <2>1. boundary' \in BOOLEAN
    BY DEF IInv, TypeOK, GateTypeOK, CallReturns, BoundaryDue, Finish
  <2>2. pc' \in [Calls -> Steps] /\ active' = None
    BY DEF IInv, TypeOK, GateTypeOK, Steps, CallReturns, Goto
  <2>3. /\ at' \in Places
        /\ IF at' \in Underway THEN ending' = "none" ELSE ending' \in Reported \cup GivenUp
    BY DEF IInv, TypeOK, Places, Underway, Reported, GivenUp, CallReturns, Finish
  <2> QED
    BY <2>1, <2>2, <2>3 DEF IInv, TypeOK, GateTypeOK, CallReturns, scopeVars,
       doorVars, bookVars, eventVars, callVars
<1>2. (FlightCounted /\ DoorShut /\ Drained /\ Ended)'
  BY DEF IInv, FlightCounted, DoorShut, Drained, Ended, TypeOK, GateTypeOK,
     Underway, Reported, GivenUp, Admitted, CallReturns, Goto, BatchStops,
     Finish, BoundaryDue, scopeVars, doorVars, bookVars, eventVars, callVars
<1>3. (RecorderAlone /\ CloneCurrent /\ ReceiptFollows)'
  BY CallsAssumption DEF IInv, RecorderAlone, CloneCurrent, ReceiptFollows,
     TypeOK, GateTypeOK, CallReturns, Goto, BatchStops, Finish, BoundaryDue,
     scopeVars, doorVars, bookVars, eventVars, callVars
<1>4. (CompletedServed /\ ExecutedRecorded)'
  BY DEF IInv, CompletedServed, ExecutedRecorded, TypeOK, GateTypeOK, Served,
     Listed, CallReturns, Goto, BatchStops, Finish, BoundaryDue, scopeVars,
     doorVars, bookVars, eventVars, callVars
<1>5. (AnswersAreSound /\ BatchWaits)'
  BY DEF IInv, AnswersAreSound, BatchWaits, TypeOK, GateTypeOK, Reported,
     GivenUp, Underway, CallReturns, Goto, BatchStops, Finish, BoundaryDue,
     scopeVars, doorVars, bookVars, eventVars, callVars
<1>6. IdsTaken'
  BY DEF IInv, IdsTaken, TypeOK, GateTypeOK, CompletedServed, Named, Admitted,
     Served, Listed, CallReturns, Goto, BatchStops, Finish, BoundaryDue,
     scopeVars, doorVars, bookVars, eventVars, callVars
<1>7. TurnedAway'
  BY QuietOnceReported DEF ReportedRunIsQuiet, IInv, TurnedAway, TypeOK,
     GateTypeOK, Ended, BatchWaits, Reported, GivenUp, Underway, Admitted,
     CallReturns, Goto, BatchStops, Finish, BoundaryDue, scopeVars, doorVars,
     bookVars, eventVars, callVars
<1>8. EventsPaired'
  BY QuietOnceReported DEF ReportedRunIsQuiet, IInv, EventsPaired, TypeOK,
     GateTypeOK, Ended, Reported, GivenUp, Underway, Admitted, Served,
     CallReturns, Goto, BatchStops, Finish, BoundaryDue, scopeVars, doorVars,
     bookVars, eventVars, callVars
<1>9. WakeUpComes'
  BY DEF IInv, WakeUpComes, TypeOK, GateTypeOK, CallReturns, Goto, BatchStops,
     Finish, BoundaryDue, scopeVars, doorVars, bookVars, eventVars, callVars
<1> QED
  BY <1>1, <1>2, <1>3, <1>4, <1>5, <1>6, <1>7, <1>8, <1>9 DEF IInv

LEMMA CallErrsKeeps ==
  ASSUME IInv, NEW c \in Calls, CallErrs(c)
  PROVE  IInv'
<1>1. TypeOK'
  BY DEF IInv, TypeOK, GateTypeOK, Underway, Reported, GivenUp, Places, Steps,
     Outcomes, Events, CallKinds, CallErrs, Goto, Stop, scopeVars, doorVars,
     flagVars, bookVars, eventVars, callVars
<1>2. (FlightCounted /\ DoorShut /\ Drained /\ Ended)'
  BY DEF IInv, FlightCounted, DoorShut, Drained, Ended, TypeOK, GateTypeOK,
     Underway, Reported, GivenUp, Admitted, CallErrs, Goto, Stop, scopeVars,
     doorVars, flagVars, bookVars, eventVars, callVars
<1>3. (RecorderAlone /\ CloneCurrent /\ ReceiptFollows)'
  BY CallsAssumption DEF IInv, RecorderAlone, CloneCurrent, ReceiptFollows,
     TypeOK, GateTypeOK, CallErrs, Goto, Stop, scopeVars, doorVars, flagVars,
     bookVars, eventVars, callVars
<1>4. (CompletedServed /\ ExecutedRecorded)'
  BY DEF IInv, CompletedServed, ExecutedRecorded, TypeOK, GateTypeOK, Served,
     Listed, CallErrs, Goto, Stop, scopeVars, doorVars, flagVars, bookVars,
     eventVars, callVars
<1>5. (AnswersAreSound /\ BatchWaits)'
  BY DEF IInv, AnswersAreSound, BatchWaits, TypeOK, GateTypeOK, Reported,
     GivenUp, Underway, CallErrs, Goto, Stop, scopeVars, doorVars, flagVars,
     bookVars, eventVars, callVars
<1>6. IdsTaken'
  BY DEF IInv, IdsTaken, TypeOK, GateTypeOK, CompletedServed, Named, Admitted,
     Served, Listed, CallErrs, Goto, Stop, scopeVars, doorVars, flagVars,
     bookVars, eventVars, callVars
<1>7. TurnedAway'
  BY QuietOnceReported DEF ReportedRunIsQuiet, IInv, TurnedAway, TypeOK,
     GateTypeOK, Ended, BatchWaits, Reported, GivenUp, Underway, Admitted,
     CallErrs, Goto, Stop, scopeVars, doorVars, flagVars, bookVars, eventVars,
     callVars
<1>8. EventsPaired'
  BY QuietOnceReported DEF ReportedRunIsQuiet, IInv, EventsPaired, TypeOK,
     GateTypeOK, Ended, Reported, GivenUp, Underway, Admitted, Served,
     CallErrs, Goto, Stop, scopeVars, doorVars, flagVars, bookVars, eventVars,
     callVars
<1>9. WakeUpComes'
  BY DEF IInv, WakeUpComes, TypeOK, GateTypeOK, CallErrs, Goto, Stop,
     scopeVars, doorVars, flagVars, bookVars, eventVars, callVars
<1> QED
  BY <1>1, <1>2, <1>3, <1>4, <1>5, <1>6, <1>7, <1>8, <1>9 DEF IInv

-----------------------------------------------------------------------------
(* So do those of the run itself. *)
LEMMA CancelKeeps ==
  ASSUME IInv, Cancel
  PROVE  IInv'
<1>1. TypeOK'
  <2>1. current' \in BOOLEAN
    BY DEF Cancel
  <2> QED
    BY <2>1 DEF IInv, TypeOK, GateTypeOK, Cancel, runVars, doorVars, flagVars,
       bookVars, eventVars, callVars
<1>2. (FlightCounted /\ DoorShut /\ Drained /\ Ended)'
  BY DEF IInv, FlightCounted, DoorShut, Drained, Ended, TypeOK, GateTypeOK,
     Underway, Reported, GivenUp, Admitted, Cancel, doorVars, flagVars,
     bookVars, eventVars, callVars, runVars
<1>3. (RecorderAlone /\ CloneCurrent /\ ReceiptFollows)'
  BY CallsAssumption DEF IInv, RecorderAlone, CloneCurrent, ReceiptFollows,
     TypeOK, GateTypeOK, Cancel, doorVars, flagVars, bookVars, eventVars,
     callVars, runVars
<1>4. (CompletedServed /\ ExecutedRecorded)'
  BY DEF IInv, CompletedServed, ExecutedRecorded, TypeOK, GateTypeOK, Served,
     Listed, Cancel, doorVars, flagVars, bookVars, eventVars, callVars,
     runVars
<1>5. (AnswersAreSound /\ BatchWaits)'
  BY DEF IInv, AnswersAreSound, BatchWaits, TypeOK, GateTypeOK, Reported,
     GivenUp, Underway, Cancel, doorVars, flagVars, bookVars, eventVars,
     callVars, runVars
<1>6. IdsTaken'
  BY DEF IInv, IdsTaken, TypeOK, GateTypeOK, CompletedServed, Named, Admitted,
     Served, Listed, Cancel, doorVars, flagVars, bookVars, eventVars,
     callVars, runVars
<1>7. TurnedAway'
  BY QuietOnceReported DEF ReportedRunIsQuiet, IInv, TurnedAway, TypeOK,
     GateTypeOK, Ended, BatchWaits, Reported, GivenUp, Underway, Admitted,
     Cancel, doorVars, flagVars, bookVars, eventVars, callVars, runVars
<1>8. EventsPaired'
  BY QuietOnceReported DEF ReportedRunIsQuiet, IInv, EventsPaired, TypeOK,
     GateTypeOK, Ended, Reported, GivenUp, Underway, Admitted, Served, Cancel,
     doorVars, flagVars, bookVars, eventVars, callVars, runVars
<1>9. WakeUpComes'
  BY DEF IInv, WakeUpComes, TypeOK, GateTypeOK, Cancel, doorVars, flagVars,
     bookVars, eventVars, callVars, runVars
<1> QED
  BY <1>1, <1>2, <1>3, <1>4, <1>5, <1>6, <1>7, <1>8, <1>9 DEF IInv

LEMMA StepCancelledKeeps ==
  ASSUME IInv, StepCancelled
  PROVE  IInv'
<1>1. TypeOK'
  BY DEF IInv, TypeOK, GateTypeOK, Underway, Reported, GivenUp, Places, Steps,
     Outcomes, Events, CallKinds, StepCancelled, Stop, runGateVars, scopeVars,
     doorVars, flagVars, bookVars, eventVars, callVars
<1>2. (FlightCounted /\ DoorShut /\ Drained /\ Ended)'
  BY DEF IInv, FlightCounted, DoorShut, Drained, Ended, TypeOK, GateTypeOK,
     Underway, Reported, GivenUp, Admitted, StepCancelled, Stop, runGateVars,
     scopeVars, doorVars, flagVars, bookVars, eventVars, callVars
<1>3. (RecorderAlone /\ CloneCurrent /\ ReceiptFollows)'
  BY CallsAssumption DEF IInv, RecorderAlone, CloneCurrent, ReceiptFollows,
     TypeOK, GateTypeOK, StepCancelled, Stop, runGateVars, scopeVars,
     doorVars, flagVars, bookVars, eventVars, callVars
<1>4. (CompletedServed /\ ExecutedRecorded)'
  BY DEF IInv, CompletedServed, ExecutedRecorded, TypeOK, GateTypeOK, Served,
     Listed, StepCancelled, Stop, runGateVars, scopeVars, doorVars, flagVars,
     bookVars, eventVars, callVars
<1>5. (AnswersAreSound /\ BatchWaits)'
  BY DEF IInv, AnswersAreSound, BatchWaits, TypeOK, GateTypeOK, Reported,
     GivenUp, Underway, StepCancelled, Stop, runGateVars, scopeVars, doorVars,
     flagVars, bookVars, eventVars, callVars
<1>6. IdsTaken'
  BY DEF IInv, IdsTaken, TypeOK, GateTypeOK, CompletedServed, Named, Admitted,
     Served, Listed, StepCancelled, Stop, runGateVars, scopeVars, doorVars,
     flagVars, bookVars, eventVars, callVars
<1>7. TurnedAway'
  BY QuietOnceReported DEF ReportedRunIsQuiet, IInv, TurnedAway, TypeOK,
     GateTypeOK, Ended, BatchWaits, Reported, GivenUp, Underway, Admitted,
     StepCancelled, Stop, runGateVars, scopeVars, doorVars, flagVars,
     bookVars, eventVars, callVars
<1>8. EventsPaired'
  BY QuietOnceReported DEF ReportedRunIsQuiet, IInv, EventsPaired, TypeOK,
     GateTypeOK, Ended, Reported, GivenUp, Underway, Admitted, Served,
     StepCancelled, Stop, runGateVars, scopeVars, doorVars, flagVars,
     bookVars, eventVars, callVars
<1>9. WakeUpComes'
  BY DEF IInv, WakeUpComes, TypeOK, GateTypeOK, StepCancelled, Stop,
     runGateVars, scopeVars, doorVars, flagVars, bookVars, eventVars, callVars
<1> QED
  BY <1>1, <1>2, <1>3, <1>4, <1>5, <1>6, <1>7, <1>8, <1>9 DEF IInv

LEMMA StepFailsKeeps ==
  ASSUME IInv, StepFails
  PROVE  IInv'
<1>1. TypeOK'
  BY DEF IInv, TypeOK, GateTypeOK, Underway, Reported, GivenUp, Places, Steps,
     Outcomes, Events, CallKinds, StepFails, Stop, runGateVars, scopeVars,
     doorVars, flagVars, bookVars, eventVars, callVars
<1>2. (FlightCounted /\ DoorShut /\ Drained /\ Ended)'
  BY DEF IInv, FlightCounted, DoorShut, Drained, Ended, TypeOK, GateTypeOK,
     Underway, Reported, GivenUp, Admitted, StepFails, Stop, runGateVars,
     scopeVars, doorVars, flagVars, bookVars, eventVars, callVars
<1>3. (RecorderAlone /\ CloneCurrent /\ ReceiptFollows)'
  BY CallsAssumption DEF IInv, RecorderAlone, CloneCurrent, ReceiptFollows,
     TypeOK, GateTypeOK, StepFails, Stop, runGateVars, scopeVars, doorVars,
     flagVars, bookVars, eventVars, callVars
<1>4. (CompletedServed /\ ExecutedRecorded)'
  BY DEF IInv, CompletedServed, ExecutedRecorded, TypeOK, GateTypeOK, Served,
     Listed, StepFails, Stop, runGateVars, scopeVars, doorVars, flagVars,
     bookVars, eventVars, callVars
<1>5. (AnswersAreSound /\ BatchWaits)'
  BY DEF IInv, AnswersAreSound, BatchWaits, TypeOK, GateTypeOK, Reported,
     GivenUp, Underway, StepFails, Stop, runGateVars, scopeVars, doorVars,
     flagVars, bookVars, eventVars, callVars
<1>6. IdsTaken'
  BY DEF IInv, IdsTaken, TypeOK, GateTypeOK, CompletedServed, Named, Admitted,
     Served, Listed, StepFails, Stop, runGateVars, scopeVars, doorVars,
     flagVars, bookVars, eventVars, callVars
<1>7. TurnedAway'
  BY QuietOnceReported DEF ReportedRunIsQuiet, IInv, TurnedAway, TypeOK,
     GateTypeOK, Ended, BatchWaits, Reported, GivenUp, Underway, Admitted,
     StepFails, Stop, runGateVars, scopeVars, doorVars, flagVars, bookVars,
     eventVars, callVars
<1>8. EventsPaired'
  BY QuietOnceReported DEF ReportedRunIsQuiet, IInv, EventsPaired, TypeOK,
     GateTypeOK, Ended, Reported, GivenUp, Underway, Admitted, Served,
     StepFails, Stop, runGateVars, scopeVars, doorVars, flagVars, bookVars,
     eventVars, callVars
<1>9. WakeUpComes'
  BY DEF IInv, WakeUpComes, TypeOK, GateTypeOK, StepFails, Stop, runGateVars,
     scopeVars, doorVars, flagVars, bookVars, eventVars, callVars
<1> QED
  BY <1>1, <1>2, <1>3, <1>4, <1>5, <1>6, <1>7, <1>8, <1>9 DEF IInv

LEMMA ResponseFinishedKeeps ==
  ASSUME IInv, ResponseFinished
  PROVE  IInv'
<1>1. TypeOK'
  <2>1. accepting' \in BOOLEAN /\ busy' \in BOOLEAN
    BY DEF ResponseFinished
  <2>2. at' \in Places /\ at' \in Underway /\ ending = "none"
    BY DEF IInv, TypeOK, ResponseFinished, Places, Underway
  <2> QED
    BY <2>1, <2>2 DEF IInv, TypeOK, GateTypeOK, ResponseFinished, scopeVars,
       flagVars, bookVars, eventVars, callVars
<1>2. (FlightCounted /\ DoorShut /\ Drained /\ Ended)'
  BY DEF IInv, FlightCounted, DoorShut, Drained, Ended, TypeOK, GateTypeOK,
     Underway, Reported, GivenUp, Admitted, ResponseFinished, scopeVars,
     flagVars, bookVars, eventVars, callVars
<1>3. (RecorderAlone /\ CloneCurrent /\ ReceiptFollows)'
  BY CallsAssumption DEF IInv, RecorderAlone, CloneCurrent, ReceiptFollows,
     TypeOK, GateTypeOK, ResponseFinished, scopeVars, flagVars, bookVars,
     eventVars, callVars
<1>4. (CompletedServed /\ ExecutedRecorded)'
  BY DEF IInv, CompletedServed, ExecutedRecorded, TypeOK, GateTypeOK, Served,
     Listed, ResponseFinished, scopeVars, flagVars, bookVars, eventVars,
     callVars
<1>5. (AnswersAreSound /\ BatchWaits)'
  BY DEF IInv, AnswersAreSound, BatchWaits, TypeOK, GateTypeOK, Reported,
     GivenUp, Underway, ResponseFinished, scopeVars, flagVars, bookVars,
     eventVars, callVars
<1>6. IdsTaken'
  BY DEF IInv, IdsTaken, TypeOK, GateTypeOK, CompletedServed, Named, Admitted,
     Served, Listed, ResponseFinished, scopeVars, flagVars, bookVars,
     eventVars, callVars
<1>7. TurnedAway'
  BY QuietOnceReported DEF ReportedRunIsQuiet, IInv, TurnedAway, TypeOK,
     GateTypeOK, Ended, BatchWaits, Reported, GivenUp, Underway, Admitted,
     ResponseFinished, scopeVars, flagVars, bookVars, eventVars, callVars
<1>8. EventsPaired'
  BY QuietOnceReported DEF ReportedRunIsQuiet, IInv, EventsPaired, TypeOK,
     GateTypeOK, Ended, Reported, GivenUp, Underway, Admitted, Served,
     ResponseFinished, scopeVars, flagVars, bookVars, eventVars, callVars
<1>9. WakeUpComes'
  BY DEF IInv, WakeUpComes, TypeOK, GateTypeOK, ResponseFinished, scopeVars,
     flagVars, bookVars, eventVars, callVars
<1> QED
  BY <1>1, <1>2, <1>3, <1>4, <1>5, <1>6, <1>7, <1>8, <1>9 DEF IInv

LEMMA StepCompletesKeeps ==
  ASSUME IInv, StepCompletes
  PROVE  IInv'
<1>1. TypeOK'
  BY DEF IInv, TypeOK, GateTypeOK, Underway, Reported, GivenUp, Places, Steps,
     Outcomes, Events, CallKinds, StepCompletes, Finish, runGateVars,
     scopeVars, doorVars, flagVars, bookVars, eventVars, callVars
<1>2. (FlightCounted /\ DoorShut /\ Drained /\ Ended)'
  BY DEF IInv, FlightCounted, DoorShut, Drained, Ended, TypeOK, GateTypeOK,
     Underway, Reported, GivenUp, Admitted, StepCompletes, Finish,
     runGateVars, scopeVars, doorVars, flagVars, bookVars, eventVars, callVars
<1>3. (RecorderAlone /\ CloneCurrent /\ ReceiptFollows)'
  BY CallsAssumption DEF IInv, RecorderAlone, CloneCurrent, ReceiptFollows,
     TypeOK, GateTypeOK, StepCompletes, Finish, runGateVars, scopeVars,
     doorVars, flagVars, bookVars, eventVars, callVars
<1>4. (CompletedServed /\ ExecutedRecorded)'
  BY DEF IInv, CompletedServed, ExecutedRecorded, TypeOK, GateTypeOK, Served,
     Listed, StepCompletes, Finish, runGateVars, scopeVars, doorVars,
     flagVars, bookVars, eventVars, callVars
<1>5. (AnswersAreSound /\ BatchWaits)'
  BY DEF IInv, AnswersAreSound, BatchWaits, TypeOK, GateTypeOK, Reported,
     GivenUp, Underway, StepCompletes, Finish, runGateVars, scopeVars,
     doorVars, flagVars, bookVars, eventVars, callVars
<1>6. IdsTaken'
  BY DEF IInv, IdsTaken, TypeOK, GateTypeOK, CompletedServed, Named, Admitted,
     Served, Listed, StepCompletes, Finish, runGateVars, scopeVars, doorVars,
     flagVars, bookVars, eventVars, callVars
<1>7. TurnedAway'
  BY QuietOnceReported DEF ReportedRunIsQuiet, IInv, TurnedAway, TypeOK,
     GateTypeOK, Ended, BatchWaits, Reported, GivenUp, Underway, Admitted,
     StepCompletes, Finish, runGateVars, scopeVars, doorVars, flagVars,
     bookVars, eventVars, callVars
<1>8. EventsPaired'
  BY QuietOnceReported DEF ReportedRunIsQuiet, IInv, EventsPaired, TypeOK,
     GateTypeOK, Ended, Reported, GivenUp, Underway, Admitted, Served,
     StepCompletes, Finish, runGateVars, scopeVars, doorVars, flagVars,
     bookVars, eventVars, callVars
<1>9. WakeUpComes'
  BY DEF IInv, WakeUpComes, TypeOK, GateTypeOK, StepCompletes, Finish,
     runGateVars, scopeVars, doorVars, flagVars, bookVars, eventVars, callVars
<1> QED
  BY <1>1, <1>2, <1>3, <1>4, <1>5, <1>6, <1>7, <1>8, <1>9 DEF IInv

LEMMA NeedsToolsKeeps ==
  ASSUME IInv, NeedsTools
  PROVE  IInv'
<1>1. TypeOK'
  BY DEF IInv, TypeOK, GateTypeOK, Underway, Reported, GivenUp, Places, Steps,
     Outcomes, Events, CallKinds, NeedsTools, CallsLeft, runGateVars,
     scopeVars, doorVars, flagVars, bookVars, eventVars, callVars
<1>2. (FlightCounted /\ DoorShut /\ Drained /\ Ended)'
  BY DEF IInv, FlightCounted, DoorShut, Drained, Ended, TypeOK, GateTypeOK,
     Underway, Reported, GivenUp, Admitted, NeedsTools, CallsLeft,
     runGateVars, scopeVars, doorVars, flagVars, bookVars, eventVars, callVars
<1>3. (RecorderAlone /\ CloneCurrent /\ ReceiptFollows)'
  BY CallsAssumption DEF IInv, RecorderAlone, CloneCurrent, ReceiptFollows,
     TypeOK, GateTypeOK, NeedsTools, CallsLeft, runGateVars, scopeVars,
     doorVars, flagVars, bookVars, eventVars, callVars
<1>4. (CompletedServed /\ ExecutedRecorded)'
  BY DEF IInv, CompletedServed, ExecutedRecorded, TypeOK, GateTypeOK, Served,
     Listed, NeedsTools, CallsLeft, runGateVars, scopeVars, doorVars,
     flagVars, bookVars, eventVars, callVars
<1>5. (AnswersAreSound /\ BatchWaits)'
  BY DEF IInv, AnswersAreSound, BatchWaits, TypeOK, GateTypeOK, Reported,
     GivenUp, Underway, NeedsTools, CallsLeft, runGateVars, scopeVars,
     doorVars, flagVars, bookVars, eventVars, callVars
<1>6. IdsTaken'
  BY DEF IInv, IdsTaken, TypeOK, GateTypeOK, CompletedServed, Named, Admitted,
     Served, Listed, NeedsTools, CallsLeft, runGateVars, scopeVars, doorVars,
     flagVars, bookVars, eventVars, callVars
<1>7. TurnedAway'
  BY QuietOnceReported DEF ReportedRunIsQuiet, IInv, TurnedAway, TypeOK,
     GateTypeOK, Ended, BatchWaits, Reported, GivenUp, Underway, Admitted,
     NeedsTools, CallsLeft, runGateVars, scopeVars, doorVars, flagVars,
     bookVars, eventVars, callVars
<1>8. EventsPaired'
  BY QuietOnceReported DEF ReportedRunIsQuiet, IInv, EventsPaired, TypeOK,
     GateTypeOK, Ended, Reported, GivenUp, Underway, Admitted, Served,
     NeedsTools, CallsLeft, runGateVars, scopeVars, doorVars, flagVars,
     bookVars, eventVars, callVars
<1>9. WakeUpComes'
  BY DEF IInv, WakeUpComes, TypeOK, GateTypeOK, NeedsTools, CallsLeft,
     runGateVars, scopeVars, doorVars, flagVars, bookVars, eventVars, callVars
<1> QED
  BY <1>1, <1>2, <1>3, <1>4, <1>5, <1>6, <1>7, <1>8, <1>9 DEF IInv

LEMMA BatchCancelledKeeps ==
  ASSUME IInv, BatchCancelled
  PROVE  IInv'
<1>1. TypeOK'
  BY DEF IInv, TypeOK, GateTypeOK, Underway, Reported, GivenUp, Places, Steps,
     Outcomes, Events, CallKinds, BatchCancelled, CancelSeen, Abandon,
     Awaited, Stop, Goto, scopeVars, doorVars, flagVars, bookVars, eventVars
<1>2. (FlightCounted /\ DoorShut /\ Drained /\ Ended)'
  BY DEF IInv, FlightCounted, DoorShut, Drained, Ended, TypeOK, GateTypeOK,
     Underway, Reported, GivenUp, Admitted, BatchCancelled, CancelSeen,
     Abandon, Awaited, Stop, Goto, scopeVars, doorVars, flagVars, bookVars,
     eventVars
<1>3. (RecorderAlone /\ CloneCurrent /\ ReceiptFollows)'
  BY CallsAssumption DEF IInv, RecorderAlone, CloneCurrent, ReceiptFollows,
     TypeOK, GateTypeOK, BatchCancelled, CancelSeen, Abandon, Awaited, Stop,
     Goto, scopeVars, doorVars, flagVars, bookVars, eventVars
<1>4. (CompletedServed /\ ExecutedRecorded)'
  BY DEF IInv, CompletedServed, ExecutedRecorded, TypeOK, GateTypeOK, Served,
     Listed, BatchCancelled, CancelSeen, Abandon, Awaited, Stop, Goto,
     scopeVars, doorVars, flagVars, bookVars, eventVars
<1>5. (AnswersAreSound /\ BatchWaits)'
  BY DEF IInv, AnswersAreSound, BatchWaits, TypeOK, GateTypeOK, Reported,
     GivenUp, Underway, BatchCancelled, CancelSeen, Abandon, Awaited, Stop,
     Goto, scopeVars, doorVars, flagVars, bookVars, eventVars
<1>6. IdsTaken'
  BY DEF IInv, IdsTaken, TypeOK, GateTypeOK, CompletedServed, Named, Admitted,
     Served, Listed, BatchCancelled, CancelSeen, Abandon, Awaited, Stop, Goto,
     scopeVars, doorVars, flagVars, bookVars, eventVars
<1>7. TurnedAway'
  BY QuietOnceReported DEF ReportedRunIsQuiet, IInv, TurnedAway, TypeOK,
     GateTypeOK, Ended, BatchWaits, Reported, GivenUp, Underway, Admitted,
     BatchCancelled, CancelSeen, Abandon, Awaited, Stop, Goto, scopeVars,
     doorVars, flagVars, bookVars, eventVars
<1>8. EventsPaired'
  BY QuietOnceReported DEF ReportedRunIsQuiet, IInv, EventsPaired, TypeOK,
     GateTypeOK, Ended, Reported, GivenUp, Underway, Admitted, Served,
     BatchCancelled, CancelSeen, Abandon, Awaited, Stop, Goto, scopeVars,
     doorVars, flagVars, bookVars, eventVars
<1>9. WakeUpComes'
  BY DEF IInv, WakeUpComes, TypeOK, GateTypeOK, BatchCancelled, CancelSeen,
     Abandon, Awaited, Stop, Goto, scopeVars, doorVars, flagVars, bookVars,
     eventVars
<1> QED
  BY <1>1, <1>2, <1>3, <1>4, <1>5, <1>6, <1>7, <1>8, <1>9 DEF IInv

LEMMA BatchFailsKeeps ==
  ASSUME IInv, BatchFails
  PROVE  IInv'
<1>1. TypeOK'
  BY DEF IInv, TypeOK, GateTypeOK, Underway, Reported, GivenUp, Places, Steps,
     Outcomes, Events, CallKinds, BatchFails, Abandon, Awaited, Stop, Goto,
     scopeVars, doorVars, flagVars, bookVars, eventVars
<1>2. (FlightCounted /\ DoorShut /\ Drained /\ Ended)'
  BY DEF IInv, FlightCounted, DoorShut, Drained, Ended, TypeOK, GateTypeOK,
     Underway, Reported, GivenUp, Admitted, BatchFails, Abandon, Awaited,
     Stop, Goto, scopeVars, doorVars, flagVars, bookVars, eventVars
<1>3. (RecorderAlone /\ CloneCurrent /\ ReceiptFollows)'
  BY CallsAssumption DEF IInv, RecorderAlone, CloneCurrent, ReceiptFollows,
     TypeOK, GateTypeOK, BatchFails, Abandon, Awaited, Stop, Goto, scopeVars,
     doorVars, flagVars, bookVars, eventVars
<1>4. (CompletedServed /\ ExecutedRecorded)'
  BY DEF IInv, CompletedServed, ExecutedRecorded, TypeOK, GateTypeOK, Served,
     Listed, BatchFails, Abandon, Awaited, Stop, Goto, scopeVars, doorVars,
     flagVars, bookVars, eventVars
<1>5. (AnswersAreSound /\ BatchWaits)'
  BY DEF IInv, AnswersAreSound, BatchWaits, TypeOK, GateTypeOK, Reported,
     GivenUp, Underway, BatchFails, Abandon, Awaited, Stop, Goto, scopeVars,
     doorVars, flagVars, bookVars, eventVars
<1>6. IdsTaken'
  BY DEF IInv, IdsTaken, TypeOK, GateTypeOK, CompletedServed, Named, Admitted,
     Served, Listed, BatchFails, Abandon, Awaited, Stop, Goto, scopeVars,
     doorVars, flagVars, bookVars, eventVars
<1>7. TurnedAway'
  BY QuietOnceReported DEF ReportedRunIsQuiet, IInv, TurnedAway, TypeOK,
     GateTypeOK, Ended, BatchWaits, Reported, GivenUp, Underway, Admitted,
     BatchFails, Abandon, Awaited, Stop, Goto, scopeVars, doorVars, flagVars,
     bookVars, eventVars
<1>8. EventsPaired'
  BY QuietOnceReported DEF ReportedRunIsQuiet, IInv, EventsPaired, TypeOK,
     GateTypeOK, Ended, Reported, GivenUp, Underway, Admitted, Served,
     BatchFails, Abandon, Awaited, Stop, Goto, scopeVars, doorVars, flagVars,
     bookVars, eventVars
<1>9. WakeUpComes'
  BY DEF IInv, WakeUpComes, TypeOK, GateTypeOK, BatchFails, Abandon, Awaited,
     Stop, Goto, scopeVars, doorVars, flagVars, bookVars, eventVars
<1> QED
  BY <1>1, <1>2, <1>3, <1>4, <1>5, <1>6, <1>7, <1>8, <1>9 DEF IInv

LEMMA CloseGateKeeps ==
  ASSUME IInv, CloseGate
  PROVE  IInv'
<1>1. TypeOK'
  <2>1. accepting' \in BOOLEAN
    BY DEF CloseGate
  <2>2. at = "close" /\ at' = "closing"
    BY DEF CloseGate
  <2> QED
    BY <2>1, <2>2 DEF IInv, TypeOK, GateTypeOK, CloseGate, Places, Underway,
       scopeVars, flagVars, bookVars, eventVars, callVars
<1>2. (FlightCounted /\ DoorShut /\ Drained /\ Ended)'
  BY DEF IInv, FlightCounted, DoorShut, Drained, Ended, TypeOK, GateTypeOK,
     Underway, Reported, GivenUp, Admitted, CloseGate, scopeVars, flagVars,
     bookVars, eventVars, callVars
<1>3. (RecorderAlone /\ CloneCurrent /\ ReceiptFollows)'
  BY CallsAssumption DEF IInv, RecorderAlone, CloneCurrent, ReceiptFollows,
     TypeOK, GateTypeOK, CloseGate, scopeVars, flagVars, bookVars, eventVars,
     callVars
<1>4. (CompletedServed /\ ExecutedRecorded)'
  BY DEF IInv, CompletedServed, ExecutedRecorded, TypeOK, GateTypeOK, Served,
     Listed, CloseGate, scopeVars, flagVars, bookVars, eventVars, callVars
<1>5. (AnswersAreSound /\ BatchWaits)'
  BY DEF IInv, AnswersAreSound, BatchWaits, TypeOK, GateTypeOK, Reported,
     GivenUp, Underway, CloseGate, scopeVars, flagVars, bookVars, eventVars,
     callVars
<1>6. IdsTaken'
  BY DEF IInv, IdsTaken, TypeOK, GateTypeOK, CompletedServed, Named, Admitted,
     Served, Listed, CloseGate, scopeVars, flagVars, bookVars, eventVars,
     callVars
<1>7. TurnedAway'
  BY QuietOnceReported DEF ReportedRunIsQuiet, IInv, TurnedAway, TypeOK,
     GateTypeOK, Ended, BatchWaits, Reported, GivenUp, Underway, Admitted,
     CloseGate, scopeVars, flagVars, bookVars, eventVars, callVars
<1>8. EventsPaired'
  BY QuietOnceReported DEF ReportedRunIsQuiet, IInv, EventsPaired, TypeOK,
     GateTypeOK, Ended, Reported, GivenUp, Underway, Admitted, Served,
     CloseGate, scopeVars, flagVars, bookVars, eventVars, callVars
<1>9. WakeUpComes'
  BY DEF IInv, WakeUpComes, TypeOK, GateTypeOK, CloseGate, scopeVars,
     flagVars, bookVars, eventVars, callVars
<1> QED
  BY <1>1, <1>2, <1>3, <1>4, <1>5, <1>6, <1>7, <1>8, <1>9 DEF IInv

LEMMA AnnounceClosedKeeps ==
  ASSUME IInv, AnnounceClosed
  PROVE  IInv'
<1>1. TypeOK'
  BY DEF IInv, TypeOK, GateTypeOK, Underway, Reported, GivenUp, Places, Steps,
     Outcomes, Events, CallKinds, AnnounceClosed, scopeVars, flagVars,
     bookVars, eventVars, callVars
<1>2. (FlightCounted /\ DoorShut /\ Drained /\ Ended)'
  BY DEF IInv, FlightCounted, DoorShut, Drained, Ended, TypeOK, GateTypeOK,
     Underway, Reported, GivenUp, Admitted, AnnounceClosed, scopeVars,
     flagVars, bookVars, eventVars, callVars
<1>3. (RecorderAlone /\ CloneCurrent /\ ReceiptFollows)'
  BY CallsAssumption DEF IInv, RecorderAlone, CloneCurrent, ReceiptFollows,
     TypeOK, GateTypeOK, AnnounceClosed, scopeVars, flagVars, bookVars,
     eventVars, callVars
<1>4. (CompletedServed /\ ExecutedRecorded)'
  BY DEF IInv, CompletedServed, ExecutedRecorded, TypeOK, GateTypeOK, Served,
     Listed, AnnounceClosed, scopeVars, flagVars, bookVars, eventVars,
     callVars
<1>5. (AnswersAreSound /\ BatchWaits)'
  BY DEF IInv, AnswersAreSound, BatchWaits, TypeOK, GateTypeOK, Reported,
     GivenUp, Underway, AnnounceClosed, scopeVars, flagVars, bookVars,
     eventVars, callVars
<1>6. IdsTaken'
  BY DEF IInv, IdsTaken, TypeOK, GateTypeOK, CompletedServed, Named, Admitted,
     Served, Listed, AnnounceClosed, scopeVars, flagVars, bookVars, eventVars,
     callVars
<1>7. TurnedAway'
  BY QuietOnceReported DEF ReportedRunIsQuiet, IInv, TurnedAway, TypeOK,
     GateTypeOK, Ended, BatchWaits, Reported, GivenUp, Underway, Admitted,
     AnnounceClosed, scopeVars, flagVars, bookVars, eventVars, callVars
<1>8. EventsPaired'
  BY QuietOnceReported DEF ReportedRunIsQuiet, IInv, EventsPaired, TypeOK,
     GateTypeOK, Ended, Reported, GivenUp, Underway, Admitted, Served,
     AnnounceClosed, scopeVars, flagVars, bookVars, eventVars, callVars
<1>9. WakeUpComes'
  BY DEF IInv, WakeUpComes, TypeOK, GateTypeOK, AnnounceClosed, scopeVars,
     flagVars, bookVars, eventVars, callVars
<1> QED
  BY <1>1, <1>2, <1>3, <1>4, <1>5, <1>6, <1>7, <1>8, <1>9 DEF IInv

LEMMA ListenKeeps ==
  ASSUME IInv, Listen
  PROVE  IInv'
<1>1. TypeOK'
  <2>1. heard' \in BOOLEAN
    BY DEF Listen
  <2>2. at = "listen" /\ at' = "check"
    BY DEF Listen
  <2> QED
    BY <2>1, <2>2 DEF IInv, TypeOK, GateTypeOK, Listen, Places, Underway,
       scopeVars, doorVars, flagVars, bookVars, callVars
<1>2. (FlightCounted /\ DoorShut /\ Drained /\ Ended)'
  BY DEF IInv, FlightCounted, DoorShut, Drained, Ended, TypeOK, GateTypeOK,
     Underway, Reported, GivenUp, Admitted, Listen, scopeVars, doorVars,
     flagVars, bookVars, callVars
<1>3. (RecorderAlone /\ CloneCurrent /\ ReceiptFollows)'
  BY CallsAssumption DEF IInv, RecorderAlone, CloneCurrent, ReceiptFollows,
     TypeOK, GateTypeOK, Listen, scopeVars, doorVars, flagVars, bookVars,
     callVars
<1>4. (CompletedServed /\ ExecutedRecorded)'
  BY DEF IInv, CompletedServed, ExecutedRecorded, TypeOK, GateTypeOK, Served,
     Listed, Listen, scopeVars, doorVars, flagVars, bookVars, callVars
<1>5. (AnswersAreSound /\ BatchWaits)'
  BY DEF IInv, AnswersAreSound, BatchWaits, TypeOK, GateTypeOK, Reported,
     GivenUp, Underway, Listen, scopeVars, doorVars, flagVars, bookVars,
     callVars
<1>6. IdsTaken'
  BY DEF IInv, IdsTaken, TypeOK, GateTypeOK, CompletedServed, Named, Admitted,
     Served, Listed, Listen, scopeVars, doorVars, flagVars, bookVars, callVars
<1>7. TurnedAway'
  BY QuietOnceReported DEF ReportedRunIsQuiet, IInv, TurnedAway, TypeOK,
     GateTypeOK, Ended, BatchWaits, Reported, GivenUp, Underway, Admitted,
     Listen, scopeVars, doorVars, flagVars, bookVars, callVars
<1>8. EventsPaired'
  BY QuietOnceReported DEF ReportedRunIsQuiet, IInv, EventsPaired, TypeOK,
     GateTypeOK, Ended, Reported, GivenUp, Underway, Admitted, Served, Listen,
     scopeVars, doorVars, flagVars, bookVars, callVars
<1>9. WakeUpComes'
  BY DEF IInv, WakeUpComes, TypeOK, GateTypeOK, Listen, scopeVars, doorVars,
     flagVars, bookVars, callVars
<1> QED
  BY <1>1, <1>2, <1>3, <1>4, <1>5, <1>6, <1>7, <1>8, <1>9 DEF IInv

LEMMA LookAtFlightKeeps ==
  ASSUME IInv, LookAtFlight
  PROVE  IInv'
<1>1. TypeOK'
  BY DEF IInv, TypeOK, GateTypeOK, Underway, Reported, GivenUp, Places, Steps,
     Outcomes, Events, CallKinds, LookAtFlight, runGateVars, scopeVars,
     doorVars, flagVars, bookVars, eventVars, callVars
<1>2. (FlightCounted /\ DoorShut /\ Drained /\ Ended)'
  BY DEF IInv, FlightCounted, DoorShut, Drained, Ended, TypeOK, GateTypeOK,
     Underway, Reported, GivenUp, Admitted, LookAtFlight, runGateVars,
     scopeVars, doorVars, flagVars, bookVars, eventVars, callVars
<1>3. (RecorderAlone /\ CloneCurrent /\ ReceiptFollows)'
  BY CallsAssumption DEF IInv, RecorderAlone, CloneCurrent, ReceiptFollows,
     TypeOK, GateTypeOK, LookAtFlight, runGateVars, scopeVars, doorVars,
     flagVars, bookVars, eventVars, callVars
<1>4. (CompletedServed /\ ExecutedRecorded)'
  BY DEF IInv, CompletedServed, ExecutedRecorded, TypeOK, GateTypeOK, Served,
     Listed, LookAtFlight, runGateVars, scopeVars, doorVars, flagVars,
     bookVars, eventVars, callVars
<1>5. (AnswersAreSound /\ BatchWaits)'
  BY DEF IInv, AnswersAreSound, BatchWaits, TypeOK, GateTypeOK, Reported,
     GivenUp, Underway, LookAtFlight, runGateVars, scopeVars, doorVars,
     flagVars, bookVars, eventVars, callVars
<1>6. IdsTaken'
  BY DEF IInv, IdsTaken, TypeOK, GateTypeOK, CompletedServed, Named, Admitted,
     Served, Listed, LookAtFlight, runGateVars, scopeVars, doorVars, flagVars,
     bookVars, eventVars, callVars
<1>7. TurnedAway'
  BY QuietOnceReported DEF ReportedRunIsQuiet, IInv, TurnedAway, TypeOK,
     GateTypeOK, Ended, BatchWaits, Reported, GivenUp, Underway, Admitted,
     LookAtFlight, runGateVars, scopeVars, doorVars, flagVars, bookVars,
     eventVars, callVars
<1>8. EventsPaired'
  BY QuietOnceReported DEF ReportedRunIsQuiet, IInv, EventsPaired, TypeOK,
     GateTypeOK, Ended, Reported, GivenUp, Underway, Admitted, Served,
     LookAtFlight, runGateVars, scopeVars, doorVars, flagVars, bookVars,
     eventVars, callVars
<1>9. WakeUpComes'
  BY DEF IInv, WakeUpComes, TypeOK, GateTypeOK, LookAtFlight, runGateVars,
     scopeVars, doorVars, flagVars, bookVars, eventVars, callVars
<1> QED
  BY <1>1, <1>2, <1>3, <1>4, <1>5, <1>6, <1>7, <1>8, <1>9 DEF IInv

LEMMA WakeUpKeeps ==
  ASSUME IInv, WakeUp
  PROVE  IInv'
<1>1. TypeOK'
  BY DEF IInv, TypeOK, GateTypeOK, Underway, Reported, GivenUp, Places, Steps,
     Outcomes, Events, CallKinds, WakeUp, runGateVars, scopeVars, doorVars,
     flagVars, bookVars, eventVars, callVars
<1>2. (FlightCounted /\ DoorShut /\ Drained /\ Ended)'
  BY DEF IInv, FlightCounted, DoorShut, Drained, Ended, TypeOK, GateTypeOK,
     Underway, Reported, GivenUp, Admitted, WakeUp, runGateVars, scopeVars,
     doorVars, flagVars, bookVars, eventVars, callVars
<1>3. (RecorderAlone /\ CloneCurrent /\ ReceiptFollows)'
  BY CallsAssumption DEF IInv, RecorderAlone, CloneCurrent, ReceiptFollows,
     TypeOK, GateTypeOK, WakeUp, runGateVars, scopeVars, doorVars, flagVars,
     bookVars, eventVars, callVars
<1>4. (CompletedServed /\ ExecutedRecorded)'
  BY DEF IInv, CompletedServed, ExecutedRecorded, TypeOK, GateTypeOK, Served,
     Listed, WakeUp, runGateVars, scopeVars, doorVars, flagVars, bookVars,
     eventVars, callVars
<1>5. (AnswersAreSound /\ BatchWaits)'
  BY DEF IInv, AnswersAreSound, BatchWaits, TypeOK, GateTypeOK, Reported,
     GivenUp, Underway, WakeUp, runGateVars, scopeVars, doorVars, flagVars,
     bookVars, eventVars, callVars
<1>6. IdsTaken'
  BY DEF IInv, IdsTaken, TypeOK, GateTypeOK, CompletedServed, Named, Admitted,
     Served, Listed, WakeUp, runGateVars, scopeVars, doorVars, flagVars,
     bookVars, eventVars, callVars
<1>7. TurnedAway'
  BY QuietOnceReported DEF ReportedRunIsQuiet, IInv, TurnedAway, TypeOK,
     GateTypeOK, Ended, BatchWaits, Reported, GivenUp, Underway, Admitted,
     WakeUp, runGateVars, scopeVars, doorVars, flagVars, bookVars, eventVars,
     callVars
<1>8. EventsPaired'
  BY QuietOnceReported DEF ReportedRunIsQuiet, IInv, EventsPaired, TypeOK,
     GateTypeOK, Ended, Reported, GivenUp, Underway, Admitted, Served, WakeUp,
     runGateVars, scopeVars, doorVars, flagVars, bookVars, eventVars, callVars
<1>9. WakeUpComes'
  BY DEF IInv, WakeUpComes, TypeOK, GateTypeOK, WakeUp, runGateVars,
     scopeVars, doorVars, flagVars, bookVars, eventVars, callVars
<1> QED
  BY <1>1, <1>2, <1>3, <1>4, <1>5, <1>6, <1>7, <1>8, <1>9 DEF IInv

LEMMA FinishTimesOutKeeps ==
  ASSUME IInv, FinishTimesOut
  PROVE  IInv'
<1>1. TypeOK'
  BY DEF IInv, TypeOK, GateTypeOK, Underway, Reported, GivenUp, Places, Steps,
     Outcomes, Events, CallKinds, FinishTimesOut, Stop, runGateVars,
     scopeVars, doorVars, flagVars, bookVars, eventVars, callVars
<1>2. (FlightCounted /\ DoorShut /\ Drained /\ Ended)'
  BY DEF IInv, FlightCounted, DoorShut, Drained, Ended, TypeOK, GateTypeOK,
     Underway, Reported, GivenUp, Admitted, FinishTimesOut, Stop, runGateVars,
     scopeVars, doorVars, flagVars, bookVars, eventVars, callVars
<1>3. (RecorderAlone /\ CloneCurrent /\ ReceiptFollows)'
  BY CallsAssumption DEF IInv, RecorderAlone, CloneCurrent, ReceiptFollows,
     TypeOK, GateTypeOK, FinishTimesOut, Stop, runGateVars, scopeVars,
     doorVars, flagVars, bookVars, eventVars, callVars
<1>4. (CompletedServed /\ ExecutedRecorded)'
  BY DEF IInv, CompletedServed, ExecutedRecorded, TypeOK, GateTypeOK, Served,
     Listed, FinishTimesOut, Stop, runGateVars, scopeVars, doorVars, flagVars,
     bookVars, eventVars, callVars
<1>5. (AnswersAreSound /\ BatchWaits)'
  BY DEF IInv, AnswersAreSound, BatchWaits, TypeOK, GateTypeOK, Reported,
     GivenUp, Underway, FinishTimesOut, Stop, runGateVars, scopeVars,
     doorVars, flagVars, bookVars, eventVars, callVars
<1>6. IdsTaken'
  BY DEF IInv, IdsTaken, TypeOK, GateTypeOK, CompletedServed, Named, Admitted,
     Served, Listed, FinishTimesOut, Stop, runGateVars, scopeVars, doorVars,
     flagVars, bookVars, eventVars, callVars
<1>7. TurnedAway'
  BY QuietOnceReported DEF ReportedRunIsQuiet, IInv, TurnedAway, TypeOK,
     GateTypeOK, Ended, BatchWaits, Reported, GivenUp, Underway, Admitted,
     FinishTimesOut, Stop, runGateVars, scopeVars, doorVars, flagVars,
     bookVars, eventVars, callVars
<1>8. EventsPaired'
  BY QuietOnceReported DEF ReportedRunIsQuiet, IInv, EventsPaired, TypeOK,
     GateTypeOK, Ended, Reported, GivenUp, Underway, Admitted, Served,
     FinishTimesOut, Stop, runGateVars, scopeVars, doorVars, flagVars,
     bookVars, eventVars, callVars
<1>9. WakeUpComes'
  BY DEF IInv, WakeUpComes, TypeOK, GateTypeOK, FinishTimesOut, Stop,
     runGateVars, scopeVars, doorVars, flagVars, bookVars, eventVars, callVars
<1> QED
  BY <1>1, <1>2, <1>3, <1>4, <1>5, <1>6, <1>7, <1>8, <1>9 DEF IInv

LEMMA StopEndsKeeps ==
  ASSUME IInv, StopEnds
  PROVE  IInv'
<1>1. TypeOK'
  <2>1. listening' \in BOOLEAN
    BY DEF StopEnds, Over
  <2>2. /\ at' = "over" /\ ending' = ending /\ shown' = sent
        /\ ending \in GivenUp /\ outcome' = ending
    BY DEF StopEnds, Over
  <2> QED
    BY <2>1, <2>2 DEF IInv, TypeOK, GateTypeOK, StopEnds, Places, Underway,
       scopeVars, doorVars, flagVars, bookVars, callVars
<1>2. (FlightCounted /\ DoorShut /\ Drained /\ Ended)'
  BY DEF IInv, FlightCounted, DoorShut, Drained, Ended, TypeOK, GateTypeOK,
     Underway, Reported, GivenUp, Admitted, StopEnds, Over, scopeVars,
     doorVars, flagVars, bookVars, callVars
<1>3. (RecorderAlone /\ CloneCurrent /\ ReceiptFollows)'
  BY CallsAssumption DEF IInv, RecorderAlone, CloneCurrent, ReceiptFollows,
     TypeOK, GateTypeOK, StopEnds, Over, scopeVars, doorVars, flagVars,
     bookVars, callVars
<1>4. (CompletedServed /\ ExecutedRecorded)'
  BY DEF IInv, CompletedServed, ExecutedRecorded, TypeOK, GateTypeOK, Served,
     Listed, StopEnds, Over, scopeVars, doorVars, flagVars, bookVars, callVars
<1>5. (AnswersAreSound /\ BatchWaits)'
  BY DEF IInv, AnswersAreSound, BatchWaits, TypeOK, GateTypeOK, Reported,
     GivenUp, Underway, StopEnds, Over, scopeVars, doorVars, flagVars,
     bookVars, callVars
<1>6. IdsTaken'
  BY DEF IInv, IdsTaken, TypeOK, GateTypeOK, CompletedServed, Named, Admitted,
     Served, Listed, StopEnds, Over, scopeVars, doorVars, flagVars, bookVars,
     callVars
<1>7. TurnedAway'
  BY QuietOnceReported DEF ReportedRunIsQuiet, IInv, TurnedAway, TypeOK,
     GateTypeOK, Ended, BatchWaits, Reported, GivenUp, Underway, Admitted,
     StopEnds, Over, scopeVars, doorVars, flagVars, bookVars, callVars
<1>8. EventsPaired'
  BY QuietOnceReported DEF ReportedRunIsQuiet, IInv, EventsPaired, TypeOK,
     GateTypeOK, Ended, Reported, GivenUp, Underway, Admitted, Served,
     StopEnds, Over, scopeVars, doorVars, flagVars, bookVars, callVars
<1>9. WakeUpComes'
  BY DEF IInv, WakeUpComes, TypeOK, GateTypeOK, StopEnds, Over, scopeVars,
     doorVars, flagVars, bookVars, callVars
<1> QED
  BY <1>1, <1>2, <1>3, <1>4, <1>5, <1>6, <1>7, <1>8, <1>9 DEF IInv

LEMMA FinishChecksKeeps ==
  ASSUME IInv, FinishChecks
  PROVE  IInv'
<1>1. TypeOK'
  BY DEF IInv, TypeOK, GateTypeOK, Underway, Reported, GivenUp, Places, Steps,
     Outcomes, Events, CallKinds, FinishChecks, Stop, runGateVars, scopeVars,
     doorVars, flagVars, bookVars, eventVars, callVars
<1>2. (FlightCounted /\ DoorShut /\ Drained /\ Ended)'
  BY DEF IInv, FlightCounted, DoorShut, Drained, Ended, TypeOK, GateTypeOK,
     Underway, Reported, GivenUp, Admitted, FinishChecks, Stop, runGateVars,
     scopeVars, doorVars, flagVars, bookVars, eventVars, callVars
<1>3. (RecorderAlone /\ CloneCurrent /\ ReceiptFollows)'
  BY CallsAssumption DEF IInv, RecorderAlone, CloneCurrent, ReceiptFollows,
     TypeOK, GateTypeOK, FinishChecks, Stop, runGateVars, scopeVars, doorVars,
     flagVars, bookVars, eventVars, callVars
<1>4. (CompletedServed /\ ExecutedRecorded)'
  BY DEF IInv, CompletedServed, ExecutedRecorded, TypeOK, GateTypeOK, Served,
     Listed, FinishChecks, Stop, runGateVars, scopeVars, doorVars, flagVars,
     bookVars, eventVars, callVars
<1>5. (AnswersAreSound /\ BatchWaits)'
  BY DEF IInv, AnswersAreSound, BatchWaits, TypeOK, GateTypeOK, Reported,
     GivenUp, Underway, FinishChecks, Stop, runGateVars, scopeVars, doorVars,
     flagVars, bookVars, eventVars, callVars
<1>6. IdsTaken'
  BY DEF IInv, IdsTaken, TypeOK, GateTypeOK, CompletedServed, Named, Admitted,
     Served, Listed, FinishChecks, Stop, runGateVars, scopeVars, doorVars,
     flagVars, bookVars, eventVars, callVars
<1>7. TurnedAway'
  BY QuietOnceReported DEF ReportedRunIsQuiet, IInv, TurnedAway, TypeOK,
     GateTypeOK, Ended, BatchWaits, Reported, GivenUp, Underway, Admitted,
     FinishChecks, Stop, runGateVars, scopeVars, doorVars, flagVars, bookVars,
     eventVars, callVars
<1>8. EventsPaired'
  BY QuietOnceReported DEF ReportedRunIsQuiet, IInv, EventsPaired, TypeOK,
     GateTypeOK, Ended, Reported, GivenUp, Underway, Admitted, Served,
     FinishChecks, Stop, runGateVars, scopeVars, doorVars, flagVars, bookVars,
     eventVars, callVars
<1>9. WakeUpComes'
  BY DEF IInv, WakeUpComes, TypeOK, GateTypeOK, FinishChecks, Stop,
     runGateVars, scopeVars, doorVars, flagVars, bookVars, eventVars, callVars
<1> QED
  BY <1>1, <1>2, <1>3, <1>4, <1>5, <1>6, <1>7, <1>8, <1>9 DEF IInv

LEMMA ReportDirectKeeps ==
  ASSUME IInv, ReportDirect
  PROVE  IInv'
<1>1. TypeOK'
  <2>1. listening' \in BOOLEAN /\ boundary' \in BOOLEAN
    BY DEF IInv, TypeOK, GateTypeOK, ReportDirect, Over
  <2>2. /\ at = "report" /\ at' = "over" /\ ending' = ending
        /\ outcome' \in {"boundary", ending} /\ ending \in Reported
    BY DEF IInv, Ended, ReportDirect, Over
  <2> QED
    BY <2>1, <2>2 DEF IInv, TypeOK, GateTypeOK, ReportDirect, Places, Underway,
       Reported, scopeVars, doorVars, bookVars, callVars
<1>2. (FlightCounted /\ DoorShut /\ Drained /\ Ended)'
  BY DEF IInv, FlightCounted, DoorShut, Drained, Ended, TypeOK, GateTypeOK,
     Underway, Reported, GivenUp, Admitted, ReportDirect, Over, BoundaryDue,
     scopeVars, doorVars, bookVars, callVars
<1>3. (RecorderAlone /\ CloneCurrent /\ ReceiptFollows)'
  BY CallsAssumption DEF IInv, RecorderAlone, CloneCurrent, ReceiptFollows,
     TypeOK, GateTypeOK, ReportDirect, Over, BoundaryDue, scopeVars, doorVars,
     bookVars, callVars
<1>4. (CompletedServed /\ ExecutedRecorded)'
  BY DEF IInv, CompletedServed, ExecutedRecorded, TypeOK, GateTypeOK, Served,
     Listed, ReportDirect, Over, BoundaryDue, scopeVars, doorVars, bookVars,
     callVars
<1>5. (AnswersAreSound /\ BatchWaits)'
  BY DEF IInv, AnswersAreSound, BatchWaits, TypeOK, GateTypeOK, Reported,
     GivenUp, Underway, ReportDirect, Over, BoundaryDue, scopeVars, doorVars,
     bookVars, callVars
<1>6. IdsTaken'
  BY DEF IInv, IdsTaken, TypeOK, GateTypeOK, CompletedServed, Named, Admitted,
     Served, Listed, ReportDirect, Over, BoundaryDue, scopeVars, doorVars,
     bookVars, callVars
<1>7. TurnedAway'
  BY QuietOnceReported DEF ReportedRunIsQuiet, IInv, TurnedAway, TypeOK,
     GateTypeOK, Ended, BatchWaits, Reported, GivenUp, Underway, Admitted,
     ReportDirect, Over, BoundaryDue, scopeVars, doorVars, bookVars, callVars
<1>8. EventsPaired'
  BY QuietOnceReported DEF ReportedRunIsQuiet, IInv, EventsPaired, TypeOK,
     GateTypeOK, Ended, Reported, GivenUp, Underway, Admitted, Served,
     ReportDirect, Over, BoundaryDue, scopeVars, doorVars, bookVars, callVars
<1>9. WakeUpComes'
  BY DEF IInv, WakeUpComes, TypeOK, GateTypeOK, ReportDirect, Over,
     BoundaryDue, scopeVars, doorVars, bookVars, callVars
<1> QED
  BY <1>1, <1>2, <1>3, <1>4, <1>5, <1>6, <1>7, <1>8, <1>9 DEF IInv

LEMMA ReportNativeKeeps ==
  ASSUME IInv, ReportNative
  PROVE  IInv'
<1>1. TypeOK'
  <2>1. listening' \in BOOLEAN /\ boundary' \in BOOLEAN
    BY DEF IInv, TypeOK, GateTypeOK, ReportNative, Over, BoundaryDue
  <2>2. /\ at = "report" /\ at' = "over" /\ ending' = ending
        /\ outcome' \in Reported /\ ending \in Reported
    BY DEF IInv, Ended, ReportNative, Over, CompletedAs, Reported
  <2> QED
    BY <2>1, <2>2 DEF IInv, TypeOK, GateTypeOK, ReportNative, Places, Underway,
       scopeVars, doorVars, flagVars, bookVars, callVars
<1>2. (FlightCounted /\ DoorShut /\ Drained /\ Ended)'
  BY DEF IInv, FlightCounted, DoorShut, Drained, Ended, TypeOK, GateTypeOK,
     Underway, Reported, GivenUp, Admitted, ReportNative, Over, CompletedAs,
     BoundaryDue, scopeVars, doorVars, callVars
<1>3. (RecorderAlone /\ CloneCurrent /\ ReceiptFollows)'
  BY CallsAssumption DEF IInv, RecorderAlone, CloneCurrent, ReceiptFollows,
     TypeOK, GateTypeOK, ReportNative, Over, CompletedAs, BoundaryDue,
     scopeVars, doorVars, callVars
<1>4. (CompletedServed /\ ExecutedRecorded)'
  BY DEF IInv, CompletedServed, ExecutedRecorded, TypeOK, GateTypeOK, Served,
     Listed, ReportNative, Over, CompletedAs, BoundaryDue, scopeVars,
     doorVars, callVars
<1>5. (AnswersAreSound /\ BatchWaits)'
  BY DEF IInv, AnswersAreSound, BatchWaits, TypeOK, GateTypeOK, Reported,
     GivenUp, Underway, ReportNative, Over, CompletedAs, BoundaryDue,
     scopeVars, doorVars, callVars
<1>6. IdsTaken'
  BY DEF IInv, IdsTaken, TypeOK, GateTypeOK, CompletedServed, Named, Admitted,
     Served, Listed, ReportNative, Over, CompletedAs, BoundaryDue, scopeVars,
     doorVars, callVars
<1>7. TurnedAway'
  BY QuietOnceReported DEF ReportedRunIsQuiet, IInv, TurnedAway, TypeOK,
     GateTypeOK, Ended, BatchWaits, Reported, GivenUp, Underway, Admitted,
     ReportNative, Over, CompletedAs, BoundaryDue, scopeVars, doorVars,
     callVars
<1>8. EventsPaired'
  BY QuietOnceReported DEF ReportedRunIsQuiet, IInv, EventsPaired, TypeOK,
     GateTypeOK, Ended, Reported, GivenUp, Underway, Admitted, Served,
     ReportNative, Over, CompletedAs, BoundaryDue, scopeVars, doorVars,
     callVars
<1>9. WakeUpComes'
  BY DEF IInv, WakeUpComes, TypeOK, GateTypeOK, ReportNative, Over,
     CompletedAs, BoundaryDue, scopeVars, doorVars, callVars
<1> QED
  BY <1>1, <1>2, <1>3, <1>4, <1>5, <1>6, <1>7, <1>8, <1>9 DEF IInv

LEMMA ReportFailsKeeps ==
  ASSUME IInv, ReportFails
  PROVE  IInv'
<1>1. TypeOK'
  BY DEF IInv, TypeOK, GateTypeOK, Underway, Reported, GivenUp, Places, Steps,
     Outcomes, Events, CallKinds, ReportFails, Stop, runGateVars, scopeVars,
     doorVars, flagVars, bookVars, eventVars, callVars
<1>2. (FlightCounted /\ DoorShut /\ Drained /\ Ended)'
  BY DEF IInv, FlightCounted, DoorShut, Drained, Ended, TypeOK, GateTypeOK,
     Underway, Reported, GivenUp, Admitted, ReportFails, Stop, runGateVars,
     scopeVars, doorVars, flagVars, bookVars, eventVars, callVars
<1>3. (RecorderAlone /\ CloneCurrent /\ ReceiptFollows)'
  BY CallsAssumption DEF IInv, RecorderAlone, CloneCurrent, ReceiptFollows,
     TypeOK, GateTypeOK, ReportFails, Stop, runGateVars, scopeVars, doorVars,
     flagVars, bookVars, eventVars, callVars
<1>4. (CompletedServed /\ ExecutedRecorded)'
  BY DEF IInv, CompletedServed, ExecutedRecorded, TypeOK, GateTypeOK, Served,
     Listed, ReportFails, Stop, runGateVars, scopeVars, doorVars, flagVars,
     bookVars, eventVars, callVars
<1>5. (AnswersAreSound /\ BatchWaits)'
  BY DEF IInv, AnswersAreSound, BatchWaits, TypeOK, GateTypeOK, Reported,
     GivenUp, Underway, ReportFails, Stop, runGateVars, scopeVars, doorVars,
     flagVars, bookVars, eventVars, callVars
<1>6. IdsTaken'
  BY DEF IInv, IdsTaken, TypeOK, GateTypeOK, CompletedServed, Named, Admitted,
     Served, Listed, ReportFails, Stop, runGateVars, scopeVars, doorVars,
     flagVars, bookVars, eventVars, callVars
<1>7. TurnedAway'
  BY QuietOnceReported DEF ReportedRunIsQuiet, IInv, TurnedAway, TypeOK,
     GateTypeOK, Ended, BatchWaits, Reported, GivenUp, Underway, Admitted,
     ReportFails, Stop, runGateVars, scopeVars, doorVars, flagVars, bookVars,
     eventVars, callVars
<1>8. EventsPaired'
  BY QuietOnceReported DEF ReportedRunIsQuiet, IInv, EventsPaired, TypeOK,
     GateTypeOK, Ended, Reported, GivenUp, Underway, Admitted, Served,
     ReportFails, Stop, runGateVars, scopeVars, doorVars, flagVars, bookVars,
     eventVars, callVars
<1>9. WakeUpComes'
  BY DEF IInv, WakeUpComes, TypeOK, GateTypeOK, ReportFails, Stop,
     runGateVars, scopeVars, doorVars, flagVars, bookVars, eventVars, callVars
<1> QED
  BY <1>1, <1>2, <1>3, <1>4, <1>5, <1>6, <1>7, <1>8, <1>9 DEF IInv

-----------------------------------------------------------------------------
(* So does every step. *)

LEMMA InitIInv == Init => IInv
<1> SUFFICES ASSUME Init PROVE IInv
  OBVIOUS
<1>1. TypeOK
  <2>1. GateTypeOK
    BY ModesAssumption DEF Init, GateInit, GateTypeOK, Steps, Outcomes
  <2> QED
    BY <2>1 DEF Init, TypeOK, Places, Underway
<1>2. FlightCounted /\ DoorShut /\ Drained /\ Ended
  BY DEF Init, GateInit, FlightCounted, DoorShut, Drained, Ended, Admitted, Reported
<1>3. RecorderAlone /\ CloneCurrent /\ ReceiptFollows
  BY CallsAssumption DEF Init, GateInit, RecorderAlone, CloneCurrent, ReceiptFollows
<1>4. CompletedServed /\ ExecutedRecorded
  BY DEF Init, GateInit, CompletedServed, ExecutedRecorded
<1>5. AnswersAreSound /\ BatchWaits
  BY DEF Init, GateInit, AnswersAreSound, BatchWaits
<1>6. IdsTaken
  BY DEF Init, GateInit, IdsTaken, Named, Admitted
<1>7. TurnedAway /\ EventsPaired /\ WakeUpComes
  BY DEF Init, GateInit, TurnedAway, EventsPaired, WakeUpComes, Reported
<1> QED
  BY <1>1, <1>2, <1>3, <1>4, <1>5, <1>6, <1>7 DEF IInv

LEMMA CallStepKeeps ==
  ASSUME IInv, NEW c \in Calls, CallStep(c)
  PROVE  IInv'
BY EnsureScopeKeeps, ReserveKeeps, AdmitKeeps, PublishStartedKeeps, SubscribeKeeps,
   LookKeeps, WaitClosedKeeps, DecideKeeps, RegisterKeeps, FlagKeeps, ExecuteKeeps,
   EffectKeeps, RecordKeeps, PushKeeps, PersistKeeps, AnnounceKeeps, DropKeeps,
   NotifyKeeps, RecordFatalKeeps, StopAcceptingKeeps, SendClosedKeeps
   DEF CallStep, CallGoesOn

LEMMA RunGoesOnKeeps == ASSUME IInv, RunGoesOn PROVE IInv'
<1>1. CASE \E c \in Calls : BeginCall(c) \/ CallReturns(c) \/ CallErrs(c)
  BY <1>1, BeginCallKeeps, CallReturnsKeeps, CallErrsKeeps
<1>2. CASE \/ StepCancelled \/ BatchCancelled \/ CloseGate \/ AnnounceClosed
           \/ Listen \/ LookAtFlight \/ WakeUp
  BY <1>2, StepCancelledKeeps, BatchCancelledKeeps, CloseGateKeeps,
     AnnounceClosedKeeps, ListenKeeps, LookAtFlightKeeps, WakeUpKeeps
<1>3. CASE \/ FinishTimesOut \/ StopEnds \/ FinishChecks \/ ReportDirect
           \/ ReportNative
  BY <1>3, FinishTimesOutKeeps, StopEndsKeeps, FinishChecksKeeps,
     ReportDirectKeeps, ReportNativeKeeps
<1> QED
  BY <1>1, <1>2, <1>3 DEF RunGoesOn

LEMMA StutterKeeps == ASSUME IInv, UNCHANGED vars PROVE IInv'
<1> USE DEF vars, runGateVars, runVars, scopeVars, doorVars, flagVars, bookVars,
            eventVars, callVars
<1>1. TypeOK'
  BY DEF IInv, TypeOK, GateTypeOK
<1>2. (FlightCounted /\ DoorShut /\ Drained /\ Ended)'
  BY DEF IInv, FlightCounted, DoorShut, Drained, Ended
<1>3. (RecorderAlone /\ CloneCurrent /\ ReceiptFollows)'
  BY DEF IInv, RecorderAlone, CloneCurrent, ReceiptFollows
<1>4. (CompletedServed /\ ExecutedRecorded)'
  BY DEF IInv, CompletedServed, ExecutedRecorded
<1>5. (AnswersAreSound /\ BatchWaits)'
  BY DEF IInv, AnswersAreSound, BatchWaits
<1>6. IdsTaken'
  BY DEF IInv, IdsTaken, Named
<1>7. (TurnedAway /\ EventsPaired /\ WakeUpComes)'
  BY DEF IInv, TurnedAway, EventsPaired, WakeUpComes
<1> QED
  BY <1>1, <1>2, <1>3, <1>4, <1>5, <1>6, <1>7 DEF IInv

LEMMA NextKeeps == ASSUME IInv, [Next]_vars PROVE IInv'
<1>1. CASE \/ Cancel \/ StepFails \/ ResponseFinished \/ StepCompletes
           \/ NeedsTools \/ BatchFails \/ ReportFails
  BY <1>1, CancelKeeps, StepFailsKeeps, ResponseFinishedKeeps, StepCompletesKeeps,
     NeedsToolsKeeps, BatchFailsKeeps, ReportFailsKeeps
<1>2. CASE RunGoesOn
  BY <1>2, RunGoesOnKeeps
<1>3. CASE \E c \in Calls : NativeCall(c) \/ AnswerAsk(c) \/ CallStep(c)
  BY <1>3, NativeCallKeeps, AnsweredKeeps, CallStepKeeps DEF AnswerAsk
<1>4. CASE UNCHANGED vars
  BY <1>4, StutterKeeps
<1> QED
  BY <1>1, <1>2, <1>3, <1>4 DEF Next

-----------------------------------------------------------------------------
(* A call that is admitted works in a run that has not reported. *)
LEMMA AdmittedWorks ==
  ASSUME IInv, IInv', NEW c \in Calls, pc[c] \in Admitted,
         executed \subseteq executed', durable \subseteq durable', UNCHANGED outcome
  PROVE  Promise!Work
<1>1. outcome \notin Reported
  BY QuietOnceReported DEF ReportedRunIsQuiet
<1>2. executed' \subseteq Calls /\ durable' \subseteq Calls
  BY DEF IInv, TypeOK, GateTypeOK
<1> QED
  BY <1>1, <1>2 DEF Promise!Work, Promise!Reported, Reported

LEMMA EffectWorks ==
  ASSUME IInv, IInv', NEW c \in Calls, Effect(c), UNCHANGED runVars
  PROVE  Promise!Work
<1>1. /\ executed \subseteq executed' /\ durable \subseteq durable'
      /\ UNCHANGED outcome /\ pc[c] \in Admitted
  BY DEF Effect, bookVars, runVars, Admitted
<1> QED
  BY <1>1, AdmittedWorks

LEMMA RecordWorks ==
  ASSUME IInv, IInv', NEW c \in Calls, Record(c), UNCHANGED runVars
  PROVE  Promise!Work
<1>1. /\ executed \subseteq executed' /\ durable \subseteq durable'
      /\ UNCHANGED outcome /\ pc[c] \in Admitted
  BY DEF Record, runVars, Admitted
<1> QED
  BY <1>1, AdmittedWorks

(* What a completion writes to the receipt is never older than what is     *)
(* there: it holds the recording mutex, so its clone is the whole list.    *)
LEMMA PersistWorks ==
  ASSUME IInv, IInv', NEW c \in Calls, Persist(c), UNCHANGED runVars
  PROVE  Promise!Work
<1>1. durable \subseteq durable'
  BY DEF IInv, ReceiptFollows, CloneCurrent, Persist
<1>2. executed \subseteq executed' /\ UNCHANGED outcome /\ pc[c] \in Admitted
  BY DEF Persist, runVars, Admitted
<1> QED
  BY <1>1, <1>2, AdmittedWorks

LEMMA StopEndsGivesUp == ASSUME IInv, StopEnds PROVE Promise!GiveUp
<1>1. outcome = "running"
  BY DEF IInv, Ended, StopEnds
<1> QED
  BY <1>1 DEF StopEnds, GivenUp, bookVars, Promise!GiveUp, Promise!GivenUp

(* Every call that was carried out has passed record_completion by the     *)
(* time a run reports, since it is not in flight any more.                 *)
LEMMA ReportedIsRecorded ==
  ASSUME IInv, at = "report", NEW c \in executed
  PROVE  c \in completed /\ (~native => c \in durable)
<1>1. ending \in Reported /\ inFlight = {} /\ c \in Calls
  BY DEF IInv, Ended, Drained, TypeOK, GateTypeOK
<1>2. pc[c] \in Served /\ pc[c] \notin Admitted
  BY <1>1 DEF IInv, FlightCounted, ExecutedRecorded
<1>3. pc[c] \in Listed /\ pc[c] # "record"
  BY <1>2 DEF Served, Listed, Admitted
<1>4. c \in completed /\ (~native => c \in durable \cup failed)
  BY <1>3 DEF IInv, ExecutedRecorded
<1>5. ~native => c \notin failed
  BY <1>1 DEF IInv, BatchWaits, Reported, GivenUp
<1> QED
  BY <1>4, <1>5

LEMMA ReportDirectReports == ASSUME IInv, IInv', ReportDirect PROVE Promise!Report
<1>1. outcome = "running" /\ ending \in Reported
  BY DEF IInv, Ended, ReportDirect
<1>2. outcome' \in Reported
  BY <1>1 DEF ReportDirect, Reported
<1>3. executed' = executed /\ durable' = durable /\ durable' \subseteq Calls
  BY DEF IInv, TypeOK, GateTypeOK, ReportDirect, bookVars
<1>4. executed \subseteq durable'
  BY <1>3, ReportedIsRecorded DEF ReportDirect
<1> QED
  BY <1>1, <1>2, <1>3, <1>4 DEF Promise!Report, Promise!Reported, Reported

LEMMA ReportNativeReports == ASSUME IInv, IInv', ReportNative PROVE Promise!Report
<1>1. outcome = "running" /\ outcome' \in Reported
  BY DEF IInv, Ended, ReportNative, CompletedAs, Reported
<1>2. executed' = executed /\ durable' = completed /\ native
  BY DEF ReportNative
<1>3. durable \subseteq durable' /\ durable' \subseteq Calls
  BY <1>2 DEF IInv, ReceiptFollows, TypeOK, GateTypeOK
<1>4. executed \subseteq durable'
  BY <1>2, ReportedIsRecorded DEF ReportNative
<1> QED
  BY <1>1, <1>2, <1>3, <1>4 DEF Promise!Report, Promise!Reported, Reported

(* The other steps are invisible to the promise. *)
CallUnseen(c) ==
    \/ EnsureScope(c) \/ Reserve(c) \/ Admit(c) \/ PublishStarted(c)
    \/ Subscribe(c) \/ Look(c) \/ WaitClosed(c) \/ Answered(c)
    \/ Decide(c) \/ Register(c) \/ Flag(c) \/ Execute(c) \/ Push(c)
    \/ Announce(c) \/ Drop(c) \/ Notify(c)
    \/ RecordFatal(c) \/ StopAccepting(c) \/ SendClosed(c)

LEMMA CallUnseenStutters ==
  ASSUME NEW c \in Calls, CallUnseen(c), UNCHANGED runVars
  PROVE  UNCHANGED <<executed, durable, outcome>>
<1>1. CASE \/ EnsureScope(c) \/ Reserve(c) \/ Admit(c) \/ PublishStarted(c)
           \/ Subscribe(c) \/ Look(c) \/ WaitClosed(c) \/ Answered(c)
  BY <1>1 DEF EnsureScope, Reserve, Admit, PublishStarted, Subscribe, Look,
     WaitClosed, Answered, bookVars, runVars
<1>2. CASE Decide(c) \/ Register(c) \/ Flag(c) \/ Execute(c) \/ Push(c)
  BY <1>2 DEF Decide, Register, Flag, Execute, Push, bookVars, runVars
<1>3. CASE Announce(c) \/ Drop(c) \/ Notify(c)
  BY <1>3 DEF Announce, Drop, Notify, bookVars, runVars
<1>4. CASE RecordFatal(c) \/ StopAccepting(c) \/ SendClosed(c)
  BY <1>4 DEF RecordFatal, StopAccepting, SendClosed, bookVars, runVars
<1> QED
  BY <1>1, <1>2, <1>3, <1>4 DEF CallUnseen

RunUnseen ==
    \/ Cancel \/ StepCancelled \/ StepFails \/ ResponseFinished \/ StepCompletes
    \/ NeedsTools \/ BatchCancelled \/ BatchFails
    \/ \E c \in Calls : NativeCall(c) \/ BeginCall(c) \/ CallReturns(c) \/ CallErrs(c)
    \/ CloseGate \/ AnnounceClosed \/ Listen \/ LookAtFlight \/ WakeUp
    \/ FinishTimesOut \/ FinishChecks \/ ReportFails

LEMMA RunUnseenStutters == ASSUME RunUnseen PROVE UNCHANGED <<executed, durable, outcome>>
<1> USE DEF runGateVars, bookVars, runVars
<1>1. CASE \/ Cancel \/ StepCancelled \/ StepFails \/ ResponseFinished
           \/ StepCompletes \/ NeedsTools
  BY <1>1 DEF Cancel, StepCancelled, StepFails, ResponseFinished, StepCompletes,
     NeedsTools
<1>2. CASE BatchCancelled \/ BatchFails
  BY <1>2 DEF BatchCancelled, BatchFails
<1>3. CASE \E c \in Calls : NativeCall(c) \/ BeginCall(c) \/ CallReturns(c) \/ CallErrs(c)
  BY <1>3 DEF NativeCall, BeginCall, CallReturns, CallErrs
<1>4. CASE CloseGate \/ AnnounceClosed \/ Listen \/ LookAtFlight \/ WakeUp
  BY <1>4 DEF CloseGate, AnnounceClosed, Listen, LookAtFlight, WakeUp
<1>5. CASE FinishTimesOut \/ FinishChecks \/ ReportFails
  BY <1>5 DEF FinishTimesOut, FinishChecks, ReportFails
<1> QED
  BY <1>1, <1>2, <1>3, <1>4, <1>5 DEF RunUnseen

LEMMA NextRefines ==
  ASSUME IInv, [Next]_vars
  PROVE  [Promise!Next]_<<executed, durable, outcome>>
<1>1. IInv'
  BY NextKeeps
<1>2. CASE \E c \in Calls : CallStep(c) \/ AnswerAsk(c)
  <2>1. PICK c \in Calls : CallStep(c) \/ AnswerAsk(c)
    BY <1>2
  <2>2. UNCHANGED runVars /\ (Effect(c) \/ Record(c) \/ Persist(c) \/ CallUnseen(c))
    BY <2>1 DEF CallStep, AnswerAsk, CallGoesOn, CallUnseen
  <2> QED
    BY <1>1, <2>2, EffectWorks, RecordWorks, PersistWorks, CallUnseenStutters
       DEF Promise!Next
<1>3. CASE StopEnds \/ ReportDirect \/ ReportNative
  BY <1>1, <1>3, StopEndsGivesUp, ReportDirectReports, ReportNativeReports
     DEF Promise!Next
<1>4. CASE RunUnseen \/ UNCHANGED vars
  BY <1>4, RunUnseenStutters DEF vars, runGateVars, bookVars, runVars
<1> QED
  BY <1>2, <1>3, <1>4 DEF Next, RunGoesOn, RunUnseen

-----------------------------------------------------------------------------
(* Every conjunct of the inductive invariant holds in every reachable      *)
(* state of a run, however many calls it receives.                         *)
THEOREM RunInvariant == Spec => []IInv
BY InitIInv, NextKeeps, PTL DEF Spec

(* The state variables of gate and run keep their types, and a run that    *)
(* closes its gate knows what it will report.                              *)
THEOREM RunTypeCorrect == Spec => []TypeOK
<1>1. IInv => TypeOK
  BY DEF IInv
<1> QED
  BY <1>1, RunInvariant, PTL

(* When a run reports a result, its calls are behind it: none is admitted  *)
(* and none can be any more.                                               *)
THEOREM RunQuiet == Spec => []ReportedRunIsQuiet
BY QuietOnceReported, RunInvariant, PTL

(* No two calls with one id are both in flight or carried out. *)
THEOREM IdsOnce == Spec => []IdsAreServedOnce
<1>1. IInv => IdsAreServedOnce
  BY DEF IInv, IdsTaken, Named, IdsAreServedOnce, FlightCounted, TypeOK, GateTypeOK
<1> QED
  BY <1>1, RunInvariant, PTL

(* A mutation turned away for want of write access, or a call put off at a *)
(* boundary, is never lost in a run that seems complete.                   *)
THEOREM TurnedAwayReported == Spec => []CallsTurnedAwayAreReported
<1>1. IInv => CallsTurnedAwayAreReported
  BY DEF IInv, TurnedAway, CallsTurnedAwayAreReported
<1> QED
  BY <1>1, RunInvariant, PTL

(* When a run reports, the panel has every event of the gate, and every    *)
(* start it was shown has its completion, save a failed native call's.     *)
THEOREM RunTranscriptPaired == Spec => []TranscriptIsPaired
<1>1. IInv => TranscriptIsPaired
  <2> SUFFICES ASSUME IInv, outcome \in Reported, NEW c \in Calls,
                      [what |-> "started", call |-> c] \in sent, c \notin failed \/ ~native
               PROVE  [what |-> "completed", call |-> c] \in sent
    BY DEF IInv, EventsPaired, TranscriptIsPaired
  <2>1. at = "over" /\ ending \in Reported /\ pc[c] \notin Admitted
    BY QuietOnceReported DEF ReportedRunIsQuiet, IInv, Ended, Reported
  <2>2. c \notin failed
    BY <2>1 DEF IInv, BatchWaits, Reported, GivenUp
  <2>3. c \notin dropped
    BY <2>1 DEF IInv, EventsPaired, Reported, GivenUp
  <2> QED
    BY <2>1, <2>2, <2>3 DEF IInv, EventsPaired
<1> QED
  BY <1>1, RunInvariant, PTL

(* A drain gives up only over a call that is in flight or just about to    *)
(* say that it is not.                                                     *)
LEMMA DrainGivesUp ==
  ASSUME IInv, Next, at = "wait", at' \in {"close", "over"}
  PROVE  inFlight # {} \/ \E c \in Calls : pc[c] = "notify"
<1>1. CASE FinishTimesOut \/ StopEnds
  BY <1>1 DEF IInv, WakeUpComes, FinishTimesOut, StopEnds
<1>2. CASE \/ ResponseFinished \/ StepCompletes \/ NeedsTools \/ StepFails
           \/ StepCancelled \/ BatchCancelled \/ BatchFails \/ ReportFails
           \/ CloseGate \/ AnnounceClosed \/ Listen \/ LookAtFlight \/ WakeUp
           \/ FinishChecks \/ ReportDirect \/ ReportNative
  BY <1>2 DEF ResponseFinished, StepCompletes, NeedsTools, StepFails, StepCancelled,
     BatchCancelled, BatchFails, ReportFails, CloseGate, AnnounceClosed, Listen,
     LookAtFlight, WakeUp, FinishChecks, ReportDirect, ReportNative
<1>3. CASE \/ Cancel
           \/ \E c \in Calls : \/ NativeCall(c) \/ AnswerAsk(c) \/ CallStep(c)
                             \/ BeginCall(c) \/ CallReturns(c) \/ CallErrs(c)
  BY <1>3 DEF Cancel, NativeCall, AnswerAsk, CallStep, BeginCall, CallReturns,
     CallErrs, runVars
<1> QED
  BY <1>1, <1>2, <1>3 DEF Next, RunGoesOn

(* No wake-up of a drain is lost between its looking and its waiting. *)
THEOREM WakeUpsArrive == Spec => NoWakeUpIsLost
<1>1. IInv /\ [Next]_vars =>
        [at = "wait" /\ at' \in {"close", "over"} =>
             inFlight # {} \/ \E c \in Calls : pc[c] = "notify"]_vars
  BY DrainGivesUp
<1> QED
  BY <1>1, RunInvariant, PTL DEF Spec, NoWakeUpIsLost

(* The run and its calls, with everything that can overlap, implement what *)
(* the engine is promised.                                                 *)
THEOREM RunKeepsPromise == Spec => ImplementsPromise
<1>1. Init => Promise!Init
  BY DEF Init, GateInit, Promise!Init
<1>2. IInv /\ [Next]_vars => [Promise!Next]_<<executed, durable, outcome>>
  BY NextRefines
<1> QED
  BY <1>1, <1>2, RunInvariant, PTL DEF Spec, ImplementsPromise, Promise!Spec

(* What is recorded of a run is never taken back. *)
THEOREM RunStaysDurable == Spec => CompletionsStayDurable
<1>1. IInv /\ [Next]_vars => [durable \subseteq durable']_vars
  BY NextRefines DEF Promise!Next, Promise!Work, Promise!Report, Promise!GiveUp
<1> QED
  BY <1>1, RunInvariant, PTL DEF Spec, CompletionsStayDurable
=============================================================================
