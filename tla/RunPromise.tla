----------------------------- MODULE RunPromise -----------------------------
(***************************************************************************)
(* What a foreground provider run promises the engine that started it,     *)
(* whatever tasks and threads carry out its tool calls.  While it runs,    *)
(* calls take effect and their results become durable.  A run that reports *)
(* a result (completed, parked at a boundary, or stopped for a write       *)
(* transition) has made every effect durable and has none afterwards.  A   *)
(* run that only gives up (failed, cancelled) promises nothing: calls it   *)
(* admitted may still take effect and become durable.                      *)
(***************************************************************************)
CONSTANT Calls      \* the tool calls of one run

VARIABLES executed, \* calls that were dispatched to the project
          durable,  \* calls whose result is in the receipt or the transcript
          outcome   \* "running", or how the run ended

Reported == {"completed", "boundary", "transition"}
GivenUp == {"failed", "cancelled"}

Init == executed = {} /\ durable = {} /\ outcome = "running"

Work ==
    /\ outcome \notin Reported
    /\ executed' \in SUBSET Calls /\ executed \subseteq executed'
    /\ durable' \in SUBSET Calls /\ durable \subseteq durable'
    /\ UNCHANGED outcome

Report ==
    /\ outcome = "running"
    /\ outcome' \in Reported
    /\ durable' \in SUBSET Calls /\ durable \subseteq durable'
    /\ executed \subseteq durable'
    /\ UNCHANGED executed

GiveUp ==
    /\ outcome = "running"
    /\ outcome' \in GivenUp
    /\ UNCHANGED <<executed, durable>>

Next == Work \/ Report \/ GiveUp

Spec == Init /\ [][Next]_<<executed, durable, outcome>>
=============================================================================
