------------------------------ MODULE RunGate ------------------------------
(***************************************************************************)
(* The tool gate of one provider run (provider_tool_loop/): each call is   *)
(* carried out by a task of its own and, from execute_outcome on, by a     *)
(* blocking thread that nothing can stop.  The state mutex makes each      *)
(* action below one step.  Calls of a direct batch are started by the run  *)
(* (module ForegroundRun), calls of a native session by its MCP server.    *)
(***************************************************************************)
EXTENDS Naturals, FiniteSets

CONSTANTS Calls,        \* the tool calls a run may receive
          Ids,          \* the call ids the provider uses
          Kinds,        \* the kinds of call in play
          Modes,        \* of {TRUE, FALSE}: native sessions, direct batches
          None,         \* no call, no id
          ActionLimit   \* tool actions of one iteration (300 in the code)

(* "read", "mutate": tools without and with requires_write_workspace;      *)
(* "ask": the two tools that wait for an answer instead of blocking a      *)
(* thread; "usage": arguments that violate the advertised schema.          *)
CallKinds == {"read", "mutate", "ask", "usage"}

ASSUME KindsAssumption == Kinds \subseteq CallKinds
ASSUME ModesAssumption == Modes \subseteq BOOLEAN
ASSUME CallsAssumption == IsFiniteSet(Calls) /\ None \notin Calls
ASSUME LimitAssumption == ActionLimit \in Nat

VARIABLES native,     \* a native session with an MCP server, or direct batches
          readOnly,   \* an EPS run without a write registration
          current,    \* the request and cancellation generation still match
          accepting,  \* GateState.accepting
          closed,     \* the `closed` watch channel
          fatal,      \* the `fatal` watch channel holds an error
          seen,       \* GateState.seen_call_ids
          inFlight,   \* the calls counted by GateState.in_flight
          deferred,   \* GateState.write_transition_requested
          boundary,   \* GateState.iteration_boundary_requested is set
          asked,      \* a write request is registered for the transition
          recorder,   \* the call that holds the recording mutex
          completed,  \* GateState.completed
          durable,    \* completions in the receipt (native) or transcript
          sent,       \* events in the gate's channel, ever
          listening,  \* RunToolEvents still holds the receiver
          heard,      \* `drained` was notified since the run last listened
          pc, id, kind, \* each call: its step, its id, what it calls
          saw,        \* an ask: the value of `closed` when it subscribed
          clone,      \* the completions a call is about to persist
          outcomeOf,  \* whether execute_outcome turned the call away
          failed,     \* calls that could not be recorded or published
          dropped,    \* calls whose dispatch future is gone
          executed    \* calls that were dispatched to the project

scopeVars == <<native, readOnly, current>>
doorVars == <<accepting, closed, fatal>>
flagVars == <<deferred, boundary, asked>>
bookVars == <<recorder, completed, durable, clone>>
eventVars == <<sent, listening, heard>>
callVars == <<id, kind, saw, dropped>>
runGateVars == <<scopeVars, doorVars, flagVars, bookVars, eventVars, callVars,
                 seen, inFlight, pc, outcomeOf, failed, executed>>

Steps == {"idle", "scope", "reserve", "admitScope", "admit", "publish",
          "subscribe", "look", "waiting", "decide", "register", "flag",
          "execute", "effect", "record", "push", "persist", "announce", "drop",
          "notify", "answer", "error", "close", "closing", "gone"}

(* The steps during which a call's Admission is alive. *)
Admitted == {"publish", "subscribe", "look", "waiting", "decide", "register",
             "flag", "execute", "effect", "record", "push", "persist",
             "announce", "drop"}

(* How execute_outcome turned a call away, if it did. *)
Outcomes == {"none", "refused", "deferred"}

Events == [what : {"started", "completed"}, call : Calls]

GateTypeOK ==
    /\ native \in BOOLEAN /\ readOnly \in BOOLEAN /\ current \in BOOLEAN
    /\ accepting \in BOOLEAN /\ closed \in BOOLEAN /\ fatal \in BOOLEAN
    /\ seen \subseteq Ids
    /\ inFlight \subseteq Calls
    /\ deferred \in BOOLEAN /\ boundary \in BOOLEAN /\ asked \in BOOLEAN
    /\ recorder \in Calls \cup {None}
    /\ completed \subseteq Calls /\ durable \subseteq Calls
    /\ sent \subseteq Events
    /\ listening \in BOOLEAN /\ heard \in BOOLEAN
    /\ pc \in [Calls -> Steps]
    /\ id \in [Calls -> Ids \cup {None}]
    /\ kind \in [Calls -> CallKinds \cup {"none"}]
    /\ saw \in [Calls -> BOOLEAN]
    /\ clone \in [Calls -> SUBSET Calls]
    /\ outcomeOf \in [Calls -> Outcomes]
    /\ failed \subseteq Calls /\ dropped \subseteq Calls
    /\ executed \subseteq Calls

(* RunGate::build.  The id and kind of a call are what the provider sends; *)
(* they are drawn when the call arrives.                                   *)
GateInit ==
    /\ native \in Modes /\ readOnly \in BOOLEAN
    /\ current = TRUE /\ accepting = TRUE /\ closed = FALSE /\ fatal = FALSE
    /\ seen = {} /\ inFlight = {}
    /\ deferred = FALSE /\ boundary = FALSE /\ asked = FALSE
    /\ recorder = None
    /\ completed = {} /\ durable = {} /\ sent = {}
    /\ listening = TRUE /\ heard = FALSE
    /\ pc = [c \in Calls |-> "idle"]
    /\ id = [c \in Calls |-> None]
    /\ kind = [c \in Calls |-> "none"]
    /\ saw = [c \in Calls |-> FALSE]
    /\ clone = [c \in Calls |-> {}]
    /\ outcomeOf = [c \in Calls |-> "none"]
    /\ failed = {} /\ dropped = {} /\ executed = {}

Goto(c, step) == pc' = [pc EXCEPT ![c] = step]
Comes(c, result) == outcomeOf' = [outcomeOf EXCEPT ![c] = result]

(* iteration_boundary_reason: the request is sticky. *)
BoundaryDue == boundary \/ Cardinality(executed) >= ActionLimit

(* An error of the call itself, as opposed to an error result for the model. *)
Fails(c) == failed' = failed \cup {c}

(* An error after admission drops the Admission on the way out. *)
Refuse(c) == Fails(c) /\ Goto(c, "drop")

NextStep(c) ==
    CASE kind[c] = "ask"   -> "subscribe"
      [] kind[c] = "usage" -> "record"
      [] OTHER             -> "decide"

(* Where a call goes when its Admission is gone: its future may be, too. *)
AfterDrop(c) ==
    IF c \in dropped THEN "gone" ELSE IF c \in failed THEN "error" ELSE "answer"

-----------------------------------------------------------------------------
(* Faulty forms of operations below: each replaces its operation to show   *)
(* that the property PROJECT.json names notices.                           *)

(* Counting a call in without looking at `accepting`. *)
AdmitAlways(c) ==
    /\ pc[c] = "admit"
    /\ inFlight' = inFlight \cup {c}
    /\ Goto(c, "publish")
    /\ UNCHANGED <<scopeVars, doorVars, flagVars, bookVars, eventVars, callVars,
                   seen, outcomeOf, failed, executed>>

(* Reserving an id that was used before. *)
ReserveAgain(c) ==
    /\ pc[c] = "reserve"
    /\ IF accepting
       THEN seen' = seen \cup {id[c]} /\ Goto(c, "admitScope") /\ UNCHANGED failed
       ELSE Fails(c) /\ Goto(c, "error") /\ UNCHANGED seen
    /\ UNCHANGED <<scopeVars, doorVars, flagVars, bookVars, eventVars, callVars,
                   inFlight, outcomeOf, executed>>

(* Reading `closed` before subscribing to it. *)
LookFirst(c) ==
    /\ pc[c] = "look"
    /\ IF saw[c] \/ ~current
       THEN Refuse(c) /\ UNCHANGED saw
       ELSE /\ saw' = [saw EXCEPT ![c] = closed]
            /\ Goto(c, "waiting")
            /\ UNCHANGED failed
    /\ UNCHANGED <<scopeVars, doorVars, flagVars, bookVars, eventVars, id, kind,
                   dropped, seen, inFlight, outcomeOf, executed>>

(* Recording without the recording mutex. *)
RecordUnlocked(c) ==
    /\ pc[c] = "record"
    /\ recorder' = c
    /\ failed' \in {failed, failed \cup {c}}
    /\ IF native
       THEN UNCHANGED durable
       ELSE /\ durable' \in {durable, durable \cup {c}}
            /\ c \in failed' \cup durable'
    /\ Goto(c, "push")
    /\ UNCHANGED <<scopeVars, doorVars, flagVars, eventVars, callVars, completed,
                   clone, seen, inFlight, outcomeOf, executed>>

(* Losing a failed checkpoint among the three results of a recording. *)
RecordUnchecked(c) ==
    /\ pc[c] = "record"
    /\ recorder = None
    /\ recorder' = c
    /\ durable' \in IF native THEN {durable} ELSE {durable, durable \cup {c}}
    /\ Goto(c, "push")
    /\ UNCHANGED <<scopeVars, doorVars, flagVars, eventVars, callVars, completed,
                   clone, seen, inFlight, outcomeOf, failed, executed>>

(* Dropping the Admission before the completion is published. *)
PersistAndDrop(c) ==
    /\ pc[c] = "persist"
    /\ IF native /\ c \notin failed
       THEN \/ durable' = clone[c] /\ UNCHANGED failed
            \/ Fails(c) /\ UNCHANGED durable
       ELSE UNCHANGED <<durable, failed>>
    /\ recorder' = None
    /\ inFlight' = inFlight \ {c}
    /\ Goto(c, "announce")
    /\ UNCHANGED <<scopeVars, doorVars, flagVars, eventVars, callVars, completed,
                   clone, seen, outcomeOf, executed>>

(* Testing the count of calls in flight before taking this one off it. *)
DropTestsFirst(c) ==
    /\ pc[c] = "drop"
    /\ inFlight' = inFlight \ {c}
    /\ Goto(c, IF inFlight = {} THEN "notify" ELSE AfterDrop(c))
    /\ UNCHANGED <<scopeVars, doorVars, flagVars, bookVars, eventVars, callVars,
                   seen, outcomeOf, failed, executed>>

-----------------------------------------------------------------------------
(* ensure_scope, which reserve_ids and admit call before they take the     *)
(* state mutex: the request or the generation may change in between.       *)
EnsureScope(c) ==
    /\ pc[c] \in {"scope", "admitScope"}
    /\ IF current
       THEN /\ Goto(c, IF pc[c] = "scope" THEN "reserve" ELSE "admit")
            /\ UNCHANGED failed
       ELSE Fails(c) /\ Goto(c, "error")
    /\ UNCHANGED <<scopeVars, doorVars, flagVars, bookVars, eventVars, callVars,
                   seen, inFlight, outcomeOf, executed>>

(* reserve_ids of a native call: the gate takes an id once. *)
Reserve(c) ==
    /\ pc[c] = "reserve"
    /\ IF accepting /\ id[c] \notin seen
       THEN seen' = seen \cup {id[c]} /\ Goto(c, "admitScope") /\ UNCHANGED failed
       ELSE Fails(c) /\ Goto(c, "error") /\ UNCHANGED seen
    /\ UNCHANGED <<scopeVars, doorVars, flagVars, bookVars, eventVars, callVars,
                   inFlight, outcomeOf, executed>>

Admit(c) ==
    /\ pc[c] = "admit"
    /\ IF accepting
       THEN inFlight' = inFlight \cup {c} /\ Goto(c, "publish") /\ UNCHANGED failed
       ELSE Fails(c) /\ Goto(c, "error") /\ UNCHANGED inFlight
    /\ UNCHANGED <<scopeVars, doorVars, flagVars, bookVars, eventVars, callVars,
                   seen, outcomeOf, executed>>

(* publish_started fails when the run has let its event receiver go. *)
PublishStarted(c) ==
    /\ pc[c] = "publish"
    /\ IF listening
       THEN /\ sent' = sent \cup {[what |-> "started", call |-> c]}
            /\ Goto(c, NextStep(c))
            /\ UNCHANGED failed
       ELSE Refuse(c) /\ UNCHANGED sent
    /\ UNCHANGED <<scopeVars, doorVars, flagVars, bookVars, listening, heard,
                   callVars, seen, inFlight, outcomeOf, executed>>

(* An ask subscribes to `closed`, then reads it, then waits for an answer  *)
(* and for a change at once; a stale run cannot ask.                       *)
Subscribe(c) ==
    /\ pc[c] = "subscribe"
    /\ saw' = [saw EXCEPT ![c] = closed]
    /\ Goto(c, "look")
    /\ UNCHANGED <<scopeVars, doorVars, flagVars, bookVars, eventVars, id, kind,
                   dropped, seen, inFlight, outcomeOf, failed, executed>>

Look(c) ==
    /\ pc[c] = "look"
    /\ IF closed \/ ~current
       THEN Refuse(c)
       ELSE Goto(c, "waiting") /\ UNCHANGED failed
    /\ UNCHANGED <<scopeVars, doorVars, flagVars, bookVars, eventVars, callVars,
                   seen, inFlight, outcomeOf, executed>>

(* The biased select takes the change first. *)
WaitClosed(c) ==
    /\ pc[c] = "waiting"
    /\ closed # saw[c]
    /\ Refuse(c)
    /\ UNCHANGED <<scopeVars, doorVars, flagVars, bookVars, eventVars, callVars,
                   seen, inFlight, outcomeOf, executed>>

(* The user answers, the wait times out, the team task settles. *)
Answered(c) ==
    /\ pc[c] = "waiting"
    /\ closed = saw[c]
    /\ Goto(c, "record")
    /\ UNCHANGED <<scopeVars, doorVars, flagVars, bookVars, eventVars, callVars,
                   seen, inFlight, outcomeOf, failed, executed>>

(* execute_outcome, up to its test of the workspace access. *)
Decide(c) ==
    /\ pc[c] = "decide"
    /\ boundary' = BoundaryDue
    /\ IF BoundaryDue
       THEN Comes(c, "refused") /\ Goto(c, "record")
       ELSE /\ Goto(c, IF readOnly /\ kind[c] = "mutate"
                       THEN "register" ELSE "execute")
            /\ UNCHANGED outcomeOf
    /\ UNCHANGED <<scopeVars, doorVars, deferred, asked, bookVars, eventVars,
                   callVars, seen, inFlight, failed, executed>>

(* register_write_request; its error becomes the call's result. *)
Register(c) ==
    /\ pc[c] = "register"
    /\ \/ asked' = TRUE /\ Goto(c, "flag")
       \/ Goto(c, "record") /\ UNCHANGED asked
    /\ UNCHANGED <<scopeVars, doorVars, deferred, boundary, bookVars, eventVars,
                   callVars, seen, inFlight, outcomeOf, failed, executed>>

Flag(c) ==
    /\ pc[c] = "flag"
    /\ deferred' = TRUE
    /\ Comes(c, "deferred")
    /\ Goto(c, "record")
    /\ UNCHANGED <<scopeVars, doorVars, boundary, asked, bookVars, eventVars,
                   callVars, seen, inFlight, failed, executed>>

(* execute_scoped takes the execution lock, tests the scope and then works *)
(* on the project until it lets the lock go.                               *)
Execute(c) ==
    /\ pc[c] = "execute"
    /\ \A d \in Calls : pc[d] # "effect"
    /\ IF current THEN Goto(c, "effect") /\ UNCHANGED failed ELSE Refuse(c)
    /\ UNCHANGED <<scopeVars, doorVars, flagVars, bookVars, eventVars, callVars,
                   seen, inFlight, outcomeOf, executed>>

(* Only a tool that was admitted counts as an action of the iteration; one *)
(* refused for its evidence, its registration or a pending ask does not.   *)
Effect(c) ==
    /\ pc[c] = "effect"
    /\ executed' \in {executed, executed \cup {c}}
    /\ Goto(c, "record")
    /\ UNCHANGED <<scopeVars, doorVars, flagVars, bookVars, eventVars, callVars,
                   seen, inFlight, outcomeOf, failed>>

(* record_completion under the recording mutex: journal and transcript     *)
(* checkpoint, then the gate's state, then the receipt.  A failure is      *)
(* reported only after all three were tried.                               *)
Record(c) ==
    /\ pc[c] = "record"
    /\ recorder = None
    /\ recorder' = c
    /\ failed' \in {failed, failed \cup {c}}
    /\ IF native
       THEN UNCHANGED durable
       ELSE /\ durable' \in {durable, durable \cup {c}}
            /\ c \in failed' \cup durable'
    /\ Goto(c, "push")
    /\ UNCHANGED <<scopeVars, doorVars, flagVars, eventVars, callVars, completed,
                   clone, seen, inFlight, outcomeOf, executed>>

Push(c) ==
    /\ pc[c] = "push"
    /\ completed' = completed \cup {c}
    /\ clone' = [clone EXCEPT ![c] = completed']
    /\ boundary' = BoundaryDue
    /\ Goto(c, "persist")
    /\ UNCHANGED <<scopeVars, doorVars, deferred, asked, recorder, durable,
                   eventVars, callVars, seen, inFlight, outcomeOf, failed, executed>>

Persist(c) ==
    /\ pc[c] = "persist"
    /\ IF native
       THEN \/ durable' = clone[c] /\ UNCHANGED failed
            \/ Fails(c) /\ UNCHANGED durable
       ELSE UNCHANGED <<durable, failed>>
    /\ recorder' = None
    /\ clone' = [clone EXCEPT ![c] = {}]
    /\ Goto(c, "announce")
    /\ UNCHANGED <<scopeVars, doorVars, flagVars, eventVars, callVars, completed,
                   seen, inFlight, outcomeOf, executed>>

(* publish_completed, of a completion that was recorded. *)
Announce(c) ==
    /\ pc[c] = "announce"
    /\ IF c \notin failed /\ listening
       THEN /\ sent' = sent \cup {[what |-> "completed", call |-> c]}
            /\ UNCHANGED failed
       ELSE Fails(c) /\ UNCHANGED sent
    /\ Goto(c, "drop")
    /\ UNCHANGED <<scopeVars, doorVars, flagVars, bookVars, listening, heard,
                   callVars, seen, inFlight, outcomeOf, executed>>

(* Drop for Admission: the last one out notifies, after the mutex. *)
Drop(c) ==
    /\ pc[c] = "drop"
    /\ inFlight' = inFlight \ {c}
    /\ Goto(c, IF inFlight' = {} THEN "notify" ELSE AfterDrop(c))
    /\ UNCHANGED <<scopeVars, doorVars, flagVars, bookVars, eventVars, callVars,
                   seen, outcomeOf, failed, executed>>

Notify(c) ==
    /\ pc[c] = "notify"
    /\ heard' = TRUE
    /\ Goto(c, AfterDrop(c))
    /\ UNCHANGED <<scopeVars, doorVars, flagVars, bookVars, sent, listening,
                   callVars, seen, inFlight, outcomeOf, failed, executed>>

(* dispatch_native turns any error into the run's fatal error; the first   *)
(* one closes the gate.                                                    *)
RecordFatal(c) ==
    /\ native
    /\ pc[c] = "error"
    /\ fatal' = TRUE
    /\ Goto(c, IF fatal THEN "gone" ELSE "close")
    /\ UNCHANGED <<scopeVars, accepting, closed, flagVars, bookVars, eventVars,
                   callVars, seen, inFlight, outcomeOf, failed, executed>>

StopAccepting(c) ==
    /\ pc[c] = "close"
    /\ accepting' = FALSE
    /\ Goto(c, "closing")
    /\ UNCHANGED <<scopeVars, closed, fatal, flagVars, bookVars, eventVars,
                   callVars, seen, inFlight, outcomeOf, failed, executed>>

SendClosed(c) ==
    /\ pc[c] = "closing"
    /\ closed' = TRUE
    /\ Goto(c, "gone")
    /\ UNCHANGED <<scopeVars, accepting, fatal, flagVars, bookVars, eventVars,
                   callVars, seen, inFlight, outcomeOf, failed, executed>>

(* What the call's task or thread does next by itself. *)
CallGoesOn(c) ==
    \/ EnsureScope(c) \/ Reserve(c) \/ Admit(c) \/ PublishStarted(c)
    \/ Subscribe(c) \/ Look(c) \/ WaitClosed(c)
    \/ Decide(c) \/ Register(c) \/ Flag(c) \/ Execute(c) \/ Effect(c)
    \/ Record(c) \/ Push(c) \/ Persist(c) \/ Announce(c)
    \/ Drop(c) \/ Notify(c)
    \/ RecordFatal(c) \/ StopAccepting(c) \/ SendClosed(c)
=============================================================================
