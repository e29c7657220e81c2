--------------------------- MODULE ForegroundRun ---------------------------
(***************************************************************************)
(* One foreground run of a provider (provider_runtime/runtime/): adapter   *)
(* steps, the tool calls they lead to, and two ways to end: finish, which  *)
(* must find the gate drained and sound before it reports, and stop, which *)
(* waits a grace period and gives up.  The run is one async task; the      *)
(* calls of RunGate go on beside it and, some of them, after it.           *)
(***************************************************************************)
EXTENDS RunGate

VARIABLES at,       \* where the run is
          active,   \* direct: the call the batch is waiting for, or None
          ending,   \* what the run is about to report
          busy,     \* native: whether calls were in flight when it completed
          shown,    \* events the panel was given
          outcome   \* "running", or how the run ended

runVars == <<at, active, ending, busy, shown, outcome>>
vars == <<runGateVars, runVars>>

Reported == {"completed", "boundary", "transition"}

GivenUp == {"failed", "cancelled"}

Places == {"step", "answered", "completing", "batch", "close", "closing",
           "listen", "check", "wait", "drained", "report", "over"}

(* Places from where the run may still take any turn. *)
Underway == {"step", "answered", "completing", "batch"}

TypeOK ==
    /\ GateTypeOK
    /\ at \in Places
    /\ active \in Calls \cup {None}
    /\ IF at \in Underway THEN ending = "none" ELSE ending \in Reported \cup GivenUp
    /\ busy \in BOOLEAN
    /\ shown \subseteq Events
    /\ outcome \in Reported \cup GivenUp \cup {"running"}

Init ==
    /\ GateInit
    /\ at = "step" /\ active = None /\ ending = "none"
    /\ busy = FALSE /\ shown = {} /\ outcome = "running"

(* A faulty Finish: one that does not say what to report. *)
FinishUnnamed(result) == at' = "close" /\ UNCHANGED ending

(* stop_run and finish_run both close the gate and drain it: `ending` says *)
(* whether the run then gives up or has more to check.                     *)
Stop(result) == at' = "close" /\ ending' = result
Finish(result) == at' = "close" /\ ending' = result

(* A call of kind k and id i comes from the provider. *)
New(c, k, i) ==
    /\ pc[c] = "idle"
    /\ kind' = [kind EXCEPT ![c] = k]
    /\ id' = [id EXCEPT ![c] = i]

(* Another call can come: the model has a bounded pool of them. *)
CallsLeft == Ids \ seen # {} /\ \E c \in Calls : pc[c] = "idle"

(* The steps at which the run's future may be dropped with its call: the   *)
(* call is waiting for an answer, or for its blocking thread.              *)
Awaited == {"waiting", "decide", "register", "flag", "execute", "effect",
            "record", "push", "persist", "announce", "drop", "notify", "answer",
            "error"}

-----------------------------------------------------------------------------
(* Faulty forms of operations below (see RunGate). *)

(* Letting a batch go on after a deferred mutation. *)
BatchNeverStops == FALSE

(* Watching for a cancellation only while no answer is awaited. *)
CancelSeenInBatch == ~current /\ pc[active] # "waiting"

-----------------------------------------------------------------------------
(* The world outside the run. *)

(* Cancelling bumps the session's generation. *)
Cancel ==
    /\ current
    /\ current' = FALSE
    /\ UNCHANGED <<native, readOnly, doorVars, flagVars, bookVars, eventVars,
                   callVars, seen, inFlight, pc, outcomeOf, failed, executed,
                   runVars>>

(* A call reaches the MCP server of a native run; one without a name is a  *)
(* fatal error at once.                                                    *)
NativeCall(c) ==
    /\ native /\ outcome = "running"
    /\ \E k \in Kinds, i \in Ids : New(c, k, i)
    /\ \/ Goto(c, "scope") /\ UNCHANGED failed
       \/ Goto(c, "error") /\ Fails(c)
    /\ UNCHANGED <<scopeVars, doorVars, flagVars, bookVars, eventVars, saw, dropped,
                   seen, inFlight, outcomeOf, executed, runVars>>

-----------------------------------------------------------------------------
(* The adapter step. *)

(* A cancelled generation is seen before anything else. *)
StepCancelled ==
    /\ at \in {"step", "completing"}
    /\ ~current
    /\ Stop("cancelled")
    /\ UNCHANGED <<runGateVars, active, busy, shown, outcome>>

(* The provider fails, runs out of time or breaks its protocol, or a fatal *)
(* error of a call reaches the step.                                       *)
StepFails ==
    /\ at \in {"step", "completing"}
    /\ Stop("failed")
    /\ UNCHANGED <<runGateVars, active, busy, shown, outcome>>

(* A native session says it is done: the gate stops accepting and tells,   *)
(* in one critical section, whether calls are in flight.                   *)
ResponseFinished ==
    /\ native
    /\ at = "step"
    /\ accepting' = FALSE
    /\ busy' = (inFlight # {})
    /\ at' = "answered"
    /\ UNCHANGED <<scopeVars, closed, fatal, flagVars, bookVars, eventVars, callVars,
                   seen, inFlight, pc, outcomeOf, failed, executed, active, ending,
                   shown, outcome>>

StepCompletes ==
    /\ IF native THEN at = "completing" /\ ~fatal ELSE at = "step"
    /\ Finish("completed")
    /\ UNCHANGED <<runGateVars, active, busy, shown, outcome>>

-----------------------------------------------------------------------------
(* A direct batch: dispatch_batch under dispatch_tool_batch.  reserve_batch *)
(* takes the ids of all its calls before the first one runs; which calls   *)
(* they are is drawn one at a time, with ids not seen.  A batch it refuses *)
(* is a StepFails.                                                         *)
NeedsTools ==
    /\ ~native
    /\ at = "step"
    /\ current /\ accepting /\ CallsLeft
    /\ at' = "batch"
    /\ UNCHANGED <<runGateVars, active, ending, busy, shown, outcome>>

BeginCall(c) ==
    /\ at = "batch"
    /\ active = None
    /\ \E k \in Kinds, i \in Ids \ seen : New(c, k, i) /\ seen' = seen \cup {i}
    /\ active' = c
    /\ Goto(c, "admitScope")
    /\ UNCHANGED <<scopeVars, doorVars, flagVars, bookVars, eventVars, saw, dropped,
                   inFlight, outcomeOf, failed, executed, at, ending, busy, shown,
                   outcome>>

BatchStops == deferred

(* A call's result is in: the batch stops for a write transition, goes on, *)
(* or returns, and then the run parks at a boundary or asks the provider   *)
(* again.  It also parks when it has used up its rounds.                   *)
CallReturns(c) ==
    /\ at = "batch" /\ active = c
    /\ pc[c] = "answer"
    /\ active' = None
    /\ Goto(c, "gone")
    /\ IF BatchStops
       THEN Finish("transition") /\ UNCHANGED boundary
       ELSE \/ /\ CallsLeft
               /\ UNCHANGED <<at, ending, boundary>>
            \/ /\ boundary' = BoundaryDue
               /\ \/ Finish("boundary")
                  \/ ~BoundaryDue /\ at' = "step" /\ UNCHANGED ending
    /\ UNCHANGED <<scopeVars, doorVars, deferred, asked, bookVars, eventVars,
                   callVars, seen, inFlight, outcomeOf, failed, executed, busy,
                   shown, outcome>>

CallErrs(c) ==
    /\ at = "batch" /\ active = c
    /\ pc[c] = "error"
    /\ active' = None
    /\ Goto(c, "gone")
    /\ Stop("failed")
    /\ UNCHANGED <<scopeVars, doorVars, flagVars, bookVars, eventVars, callVars, seen,
                   inFlight, outcomeOf, failed, executed, busy, shown, outcome>>

(* Dropping the dispatch drops the future of its call: an ask goes, with   *)
(* its Admission; a blocking thread goes on and nobody hears of it.        *)
Abandon(c) ==
    /\ pc[c] \in Awaited
    /\ active' = None
    /\ dropped' = dropped \cup {c}
    /\ Goto(c, CASE pc[c] = "waiting" -> "drop"
                 [] pc[c] \in {"answer", "error"} -> "gone"
                 [] OTHER -> pc[c])

(* The cancellation watch comes first in the select. *)
CancelSeen == ~current

BatchCancelled ==
    /\ at = "batch" /\ active # None
    /\ CancelSeen
    /\ Abandon(active)
    /\ Stop("cancelled")
    /\ UNCHANGED <<scopeVars, doorVars, flagVars, bookVars, eventVars, id, kind, saw,
                   seen, inFlight, outcomeOf, failed, executed, busy, shown, outcome>>

(* The active time is used up, or an event cannot be shown. *)
BatchFails ==
    /\ at = "batch" /\ active # None
    /\ Abandon(active)
    /\ Stop("failed")
    /\ UNCHANGED <<scopeVars, doorVars, flagVars, bookVars, eventVars, id, kind, saw,
                   seen, inFlight, outcomeOf, failed, executed, busy, shown, outcome>>

-----------------------------------------------------------------------------
(* Closing and draining the gate, for finish_run and stop_run. *)

CloseGate ==
    /\ at = "close"
    /\ accepting' = FALSE
    /\ at' = "closing"
    /\ UNCHANGED <<scopeVars, closed, fatal, flagVars, bookVars, eventVars, callVars,
                   seen, inFlight, pc, outcomeOf, failed, executed, active, ending,
                   busy, shown, outcome>>

AnnounceClosed ==
    /\ at \in {"answered", "closing"}
    /\ closed' = TRUE
    /\ at' = IF at = "closing" THEN "listen" ELSE "completing"
    /\ UNCHANGED <<scopeVars, accepting, fatal, flagVars, bookVars, eventVars,
                   callVars, seen, inFlight, pc, outcomeOf, failed, executed, active,
                   ending, busy, shown, outcome>>

(* drain: listen, look, and only then wait. *)
Listen ==
    /\ at = "listen"
    /\ heard' = FALSE
    /\ at' = "check"
    /\ UNCHANGED <<scopeVars, doorVars, flagVars, bookVars, sent, listening, callVars,
                   seen, inFlight, pc, outcomeOf, failed, executed, active, ending,
                   busy, shown, outcome>>

LookAtFlight ==
    /\ at = "check"
    /\ at' = IF inFlight = {} THEN "drained" ELSE "wait"
    /\ UNCHANGED <<runGateVars, active, ending, busy, shown, outcome>>

WakeUp ==
    /\ at = "wait"
    /\ heard
    /\ at' = "listen"
    /\ UNCHANGED <<runGateVars, active, ending, busy, shown, outcome>>

(* The run returns: the gate's event receiver goes with it. *)
Over == at' = "over" /\ listening' = FALSE

(* The grace period ends before the last call: a finishing run fails, and  *)
(* stops; a stopping one leaves its calls behind.                          *)
FinishTimesOut ==
    /\ at = "wait" /\ ~heard
    /\ ending \in Reported
    /\ Stop("failed")
    /\ UNCHANGED <<runGateVars, active, busy, shown, outcome>>

StopEnds ==
    /\ at = "drained" \/ (at = "wait" /\ ~heard)
    /\ ending \in GivenUp
    /\ shown' = sent
    /\ outcome' = ending
    /\ Over
    /\ UNCHANGED <<scopeVars, doorVars, flagVars, bookVars, sent, heard, callVars, seen,
                   inFlight, pc, outcomeOf, failed, executed, active, ending, busy>>

(* finish_run after the drain: the events that are left, the fatal error,  *)
(* and a native session that completed over its own calls.                 *)
FinishChecks ==
    /\ at = "drained"
    /\ ending \in Reported
    /\ shown' = sent
    /\ IF fatal \/ busy
       THEN Stop("failed")
       ELSE at' = "report" /\ UNCHANGED ending
    /\ UNCHANGED <<runGateVars, active, busy, outcome>>

(* What a completed native run reports; a direct one has stopped for a     *)
(* write transition before it could complete.                              *)
CompletedAs ==
    IF deferred THEN "transition" ELSE IF BoundaryDue THEN "boundary" ELSE "completed"

(* Direct: the transcript takes the response or the batch. *)
ReportDirect ==
    /\ ~native
    /\ at = "report"
    /\ boundary' = (boundary \/ (ending = "completed" /\ BoundaryDue))
    /\ outcome' = IF ending = "completed" /\ BoundaryDue THEN "boundary" ELSE ending
    /\ Over
    /\ UNCHANGED <<scopeVars, doorVars, deferred, asked, bookVars, sent, heard,
                   callVars, seen, inFlight, pc, outcomeOf, failed, executed, active,
                   ending, busy, shown>>

(* Native: mark_native_run_completed writes the receipt with every         *)
(* completion the gate has handed to it.                                   *)
ReportNative ==
    /\ native
    /\ at = "report"
    /\ durable' = completed
    /\ boundary' = IF deferred THEN boundary ELSE BoundaryDue
    /\ outcome' = CompletedAs
    /\ Over
    /\ UNCHANGED <<scopeVars, doorVars, deferred, asked, recorder, completed, clone,
                   sent, heard, callVars, seen, inFlight, pc, outcomeOf, failed,
                   executed, active, ending, busy, shown>>

(* The conversation's last step cannot be stored. *)
ReportFails ==
    /\ at = "report"
    /\ Stop("failed")
    /\ UNCHANGED <<runGateVars, active, busy, shown, outcome>>

-----------------------------------------------------------------------------
CallStep(c) == CallGoesOn(c) /\ UNCHANGED runVars
AnswerAsk(c) == Answered(c) /\ UNCHANGED runVars

(* What the run's own task does without waiting for provider or user. *)
RunGoesOn ==
    \/ StepCancelled \/ BatchCancelled
    \/ \E c \in Calls : BeginCall(c) \/ CallReturns(c) \/ CallErrs(c)
    \/ CloseGate \/ AnnounceClosed \/ Listen \/ LookAtFlight \/ WakeUp
    \/ FinishTimesOut \/ StopEnds \/ FinishChecks \/ ReportDirect \/ ReportNative

Next ==
    \/ Cancel
    \/ StepFails \/ ResponseFinished \/ StepCompletes \/ NeedsTools
    \/ BatchFails \/ ReportFails
    \/ RunGoesOn
    \/ \E c \in Calls : NativeCall(c) \/ AnswerAsk(c) \/ CallStep(c)

Spec == Init /\ [][Next]_vars

FairSpec ==
    /\ Spec
    /\ WF_vars(RunGoesOn)
    /\ \A c \in Calls : WF_vars(CallStep(c))

-----------------------------------------------------------------------------
(* A run that reports a result has its calls behind it: none is admitted,  *)
(* and none will be (finish_run closes the gate before it drains it, and   *)
(* admit looks at `accepting` under the mutex that counts calls in).       *)
ReportedRunIsQuiet ==
    outcome \in Reported =>
        inFlight = {} /\ ~accepting /\ \A c \in Calls : pc[c] \notin Admitted

(* To the engine the run is the one of RunPromise: all its effects are in  *)
(* the receipt or the transcript when it reports, and nothing comes after. *)
Promise == INSTANCE RunPromise WITH
    executed <- executed, durable <- durable, outcome <- outcome
ImplementsPromise == Promise!Spec

(* Of the calls that share an id at most one is ever carried out, however  *)
(* their arrivals overlap (reserve_ids tests and adds under one lock).     *)
IdsAreServedOnce ==
    \A c, d \in completed \cup inFlight : c # d => id[c] # id[d]

(* A mutation deferred to the write context, or a call put off to the next *)
(* iteration, is never lost in a run that seems complete: the run reports  *)
(* the transition, with a write request behind it, or a boundary.          *)
CallsTurnedAwayAreReported ==
    outcome \in Reported =>
        \A c \in Calls :
            /\ outcomeOf[c] = "deferred" => outcome = "transition" /\ asked
            /\ outcomeOf[c] = "refused" => outcome # "completed"

(* When a run reports, the panel has every event of the gate, and a call   *)
(* it saw start it also saw complete; in a native run, unless the call     *)
(* itself failed (publish_completed comes before the Admission is dropped, *)
(* and finish_run takes what is left in the channel after the drain).      *)
TranscriptIsPaired ==
    outcome \in Reported =>
        /\ shown = sent
        /\ \A c \in Calls :
              \/ native /\ c \in failed
              \/ [what |-> "started", call |-> c] \notin shown
              \/ [what |-> "completed", call |-> c] \in shown

(* A receipt is rewritten whole by each completion; the recording mutex    *)
(* keeps a thread from writing a list older than what is on disk.          *)
CompletionsStayDurable == [][durable \subseteq durable']_vars

(* A drain gives up only over a call that is in flight, or that is just    *)
(* about to say it is not: no wake-up is lost between looking and waiting. *)
NoWakeUpIsLost ==
    [][at = "wait" /\ at' \in {"close", "over"} =>
           inFlight # {} \/ \E c \in Calls : pc[c] = "notify"]_vars

(* A gate that was closed empties, though nobody answers its questions.    *)
ClosedGateDrains == closed ~> inFlight = {}

(* A cancelled run ends, whatever its calls and its provider do.           *)
CancelledRunEnds == ~current ~> outcome # "running"
=============================================================================
