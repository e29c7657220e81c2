---------------------------- MODULE NativeReceipts ----------------------------
(***************************************************************************)
(* How a session continues its conversation with a native provider, whose  *)
(* CLI keeps the conversation itself: provider_runtime's native recovery   *)
(* and the run receipts of provider_tool_loop.  A run leaves a receipt on  *)
(* disk before it starts; the receipt says which native session it resumed *)
(* and which one it reached, and is retired only when the session record   *)
(* names the conversation.  Any write may fail, and the app may die        *)
(* between two writes.                                                     *)
(*                                                                         *)
(* A native session is a number, 0 is an empty conversation.  A CLI that   *)
(* resumes a session stays in it; one that resumes none opens a new one.   *)
(***************************************************************************)
EXTENDS Naturals, FiniteSets

CONSTANTS
    Requests,
    NoRequest,      \* opening a session resumes no request
    NoRun,
    MaxRuns         \* bound: runs that are ever started

ASSUME BoundAssumption == MaxRuns \in Nat
ASSUME NamesAssumption == NoRequest \notin Requests /\ IsFiniteSet(Requests)

Conversations == 0..MaxRuns

\* RunIdentity: run numbers start again at 1 with every start of the app.
Identities == (1..MaxRuns) \X Requests
ASSUME RunAssumption == NoRun \notin Identities

States == {"none", "torn", "pending", "unknown", "interrupted", "completed", "cleared"}
Receipts == [state : States, prior : Conversations, candidate : Conversations]
NoReceipt == [state |-> "none", prior |-> 0, candidate |-> 0]
Phases == {"closed", "refused", "idle", "starting", "claimed", "running",
           "saving", "acking", "resetting", "recovering", "forgetting", "restarting"}

VARIABLES
    saved,          \* the conversation in the session record
    conv,           \* the conversation of the runtime
    adapter,        \* the conversation the adapter resumes
    receipts,       \* the receipts on disk
    acks,           \* receipts to retire after the next save
    staged,         \* the next turn replays the transcript in a new conversation
    run,            \* the run under way
    seen,           \* the native session it published, 0 for none
    nextRun,
    begun,          \* bound: the runs so far
    phase,
    threads,        \* ghost: the conversations the user's next turn may continue
    doubt,          \* ghost: a run ended in "unknown" state, or that was "discarded"
    unsaved         \* ghost: completed requests that no session record follows yet

vars == <<saved, conv, adapter, receipts, acks, staged, run, seen, nextRun, begun, phase,
          threads, doubt, unsaved>>
ghosts == <<threads, doubt, unsaved>>

Init ==
    /\ saved = 0 /\ conv = 0 /\ adapter = 0
    /\ receipts = [i \in Identities |-> NoReceipt]
    /\ acks = {} /\ staged = FALSE
    /\ run = NoRun /\ seen = 0
    /\ nextRun = 1 /\ begun = 0
    /\ phase = "idle"
    /\ threads = {0} /\ doubt = "no" /\ unsaved = {}

In(states) == {i \in Identities : receipts[i].state \in states}
Doubtful == In({"torn", "pending", "unknown"})
Unresolved == Doubtful \cup In({"interrupted", "completed"})
SetReceipt(i, state, candidate) ==
    [receipts EXCEPT ![i] = [state |-> state, prior |-> receipts[i].prior, candidate |-> candidate]]

-----------------------------------------------------------------------------
(* resolve_native_conversation: the receipts of runs with a boundary must  *)
(* form a chain that starts at the current conversation.                   *)

Links(chain, i) ==
    receipts[i].prior = chain.conv \/ receipts[i].candidate \in chain.confirmed

Linked(chain, i) ==
    [conv      |-> IF receipts[i].candidate \in chain.confirmed THEN chain.conv
                   ELSE receipts[i].candidate,
     confirmed |-> chain.confirmed \cup {receipts[i].prior, receipts[i].candidate},
     left      |-> chain.left \ {i}]

Extend(chain) ==
    LET next == {i \in chain.left : Links(chain, i)} IN
    IF next = {} THEN chain
    ELSE Linked(chain, CHOOSE i \in next : \A j \in next : i[1] <= j[1])

\* Faulty: only what the session record or the runtime names is continued.
ChainOfOne(from) == [conv |-> from, confirmed |-> {from}, left |-> {}]

Chain(from) ==
    LET settled == In({"interrupted", "completed"})
        chain[k \in 0..Cardinality(settled)] ==
            IF k = 0 THEN [conv |-> from, confirmed |-> {from}, left |-> settled]
            ELSE Extend(chain[k - 1])
    IN chain[Cardinality(settled)]

\* Faulty: an unconfirmed run is passed over.
ResolvableIfLinked(from, request) ==
    Chain(from).left = {} /\ \A i \in In({"completed"}) : i[2] # request

Resolvable(from, request) ==
    /\ Doubtful = {}
    /\ Chain(from).left = {}
    /\ \A i \in In({"completed"}) : i[2] # request

-----------------------------------------------------------------------------
\* AgentEngine::hydrate.  Without a conversation in the record nothing is
\* resumed, and the transcript of an earlier turn is staged.
Open ==
    /\ phase = "closed"
    /\ conv' = IF saved # 0 /\ Resolvable(saved, NoRequest) THEN Chain(saved).conv ELSE saved
    /\ \/ /\ saved = 0
          /\ staged' \in BOOLEAN /\ phase' = "idle"
          /\ UNCHANGED acks
       \/ /\ saved # 0 /\ Resolvable(saved, NoRequest)
          /\ acks' = In({"interrupted", "completed"}) /\ phase' = "saving"
          /\ UNCHANGED staged
       \/ /\ saved # 0 /\ ~Resolvable(saved, NoRequest)
          /\ phase' = "refused"
          /\ UNCHANGED <<acks, staged>>
    /\ adapter' = IF phase' = "saving" THEN conv' ELSE 0
    /\ UNCHANGED <<saved, receipts, run, seen, nextRun, begun, ghosts>>

Start(request) ==
    /\ run' = <<nextRun, request>>
    /\ nextRun' = nextRun + 1 /\ begun' = begun + 1
    /\ seen' = 0
    /\ phase' = "starting"

\* recover_native_conversation
Begin(request) ==
    /\ phase = "idle" /\ ~staged /\ begun < MaxRuns
    /\ Resolvable(conv, request)
    /\ conv' = Chain(conv).conv
    /\ adapter' = IF conv' # conv THEN conv' ELSE adapter
    /\ acks' = acks \cup In({"interrupted", "completed"})
    /\ Start(request)
    /\ UNCHANGED <<saved, receipts, staged, ghosts>>

\* RunReceiptStore::begin_native: the file is created, never overwritten, and
\* then written.
Claim ==
    /\ phase = "starting"
    /\ IF receipts[run].state = "none"
       THEN /\ receipts' = [receipts EXCEPT ![run] = [state |-> "torn", prior |-> conv, candidate |-> 0]]
            /\ phase' = "claimed"
       ELSE phase' = "saving" /\ UNCHANGED receipts
    /\ UNCHANGED <<saved, conv, adapter, acks, staged, run, seen, nextRun, begun, ghosts>>

Mark ==
    /\ phase = "claimed"
    /\ receipts' = SetReceipt(run, "pending", 0)
    /\ phase' = "running"
    /\ doubt' = "no"
    /\ UNCHANGED <<saved, conv, adapter, acks, staged, run, seen, nextRun, begun, threads, unsaved>>

\* The receipt cannot be written, or the tool server does not start.
StartFails ==
    /\ phase \in {"claimed", "running"} /\ seen = 0
    /\ phase' = "saving"
    /\ UNCHANGED <<saved, conv, adapter, receipts, acks, staged, run, seen, nextRun, begun, ghosts>>

-----------------------------------------------------------------------------
(* A run, and how it ends.                                                 *)

Session == IF adapter # 0 THEN adapter ELSE begun

\* The CLI publishes its session; the early boundary is written if it can be.
Publish ==
    /\ phase = "running" /\ seen = 0
    /\ seen' = Session
    /\ \/ receipts' = SetReceipt(run, "interrupted", Session) /\ threads' = {Session}
       \/ UNCHANGED <<receipts, threads>>
    /\ UNCHANGED <<saved, conv, adapter, acks, staged, run, nextRun, begun, phase, doubt, unsaved>>

Reach(conversation) ==
    /\ conv' = conversation /\ adapter' = conversation
    /\ threads' = {conversation}

\* A confirmed boundary; the receipt or the workspace record may fail.
Complete ==
    /\ phase = "running"
    /\ Reach(Session)
    /\ \/ /\ receipts' = SetReceipt(run, "completed", Session)
          /\ acks' = acks \cup {run}
          /\ unsaved' = unsaved \cup {run[2]}
       \/ UNCHANGED <<receipts, acks, unsaved>>
    /\ phase' = "saving"
    /\ UNCHANGED <<saved, staged, run, seen, nextRun, begun, doubt>>

\* settle_interrupted_native: the session the run published, or the one it was
\* asked to resume.
Interrupt ==
    LET boundary == IF seen # 0 THEN seen ELSE adapter IN
    /\ phase = "running" /\ boundary # 0
    /\ Reach(boundary)
    /\ receipts' \in {receipts, SetReceipt(run, "interrupted", boundary)}
    /\ phase' = "saving"
    /\ UNCHANGED <<saved, acks, staged, run, seen, nextRun, begun, doubt, unsaved>>

\* No session, or a CLI that failed before it published the one it resumed.
EndUnknown ==
    /\ phase = "running" /\ seen = 0
    /\ receipts' \in {receipts, SetReceipt(run, "unknown", 0)}
    /\ doubt' = "unknown"
    /\ phase' = "saving"
    /\ UNCHANGED <<saved, conv, adapter, acks, staged, run, seen, nextRun, begun, threads, unsaved>>

\* update_active_session, which every turn ends with.
Save ==
    /\ phase = "saving"
    /\ saved' = conv
    /\ unsaved' = {}
    /\ phase' = "acking"
    /\ run' = NoRun
    /\ UNCHANGED <<conv, adapter, receipts, acks, staged, seen, nextRun, begun, threads, doubt>>

\* Faulty: the receipts are retired all the same.
SaveFailsAndRetires ==
    /\ phase = "saving"
    /\ phase' = "acking" /\ run' = NoRun
    /\ UNCHANGED <<saved, conv, adapter, receipts, acks, staged, seen, nextRun, begun, ghosts>>

SaveFails ==
    /\ phase = "saving"
    /\ phase' = "idle" /\ run' = NoRun
    /\ UNCHANGED <<saved, conv, adapter, receipts, acks, staged, seen, nextRun, begun, ghosts>>

\* Faulty: the identity stays in the list.
AcknowledgeAgain(i) ==
    /\ phase = "acking" /\ i \in acks
    /\ receipts' = [receipts EXCEPT ![i] = NoReceipt]
    /\ UNCHANGED <<saved, conv, adapter, acks, staged, run, seen, nextRun, begun, phase, ghosts>>

\* acknowledge_persisted
Acknowledge(i) ==
    /\ phase = "acking" /\ i \in acks
    /\ receipts' = [receipts EXCEPT ![i] = NoReceipt]
    /\ acks' = acks \ {i}
    /\ UNCHANGED <<saved, conv, adapter, staged, run, seen, nextRun, begun, phase, ghosts>>

AckEnds ==
    /\ phase = "acking"
    /\ phase' = "idle"
    /\ UNCHANGED <<saved, conv, adapter, receipts, acks, staged, run, seen, nextRun, begun, ghosts>>

-----------------------------------------------------------------------------
(* Resets.                                                                 *)

\* reset_conversation, asked by the user, also to recover a refused session.
Reset ==
    /\ phase \in {"idle", "refused"}
    /\ adapter' = 0
    /\ phase' = IF phase = "idle" THEN "resetting" ELSE "recovering"
    /\ UNCHANGED <<saved, conv, receipts, acks, staged, run, seen, nextRun, begun, ghosts>>

\* fresh_start_with_transcript, on the first turn with a staged transcript.
FreshStart(request) ==
    /\ phase = "idle" /\ staged /\ begun < MaxRuns
    /\ staged' = FALSE
    /\ adapter' = 0
    /\ run' = <<nextRun, request>>
    /\ phase' = "restarting"
    /\ UNCHANGED <<saved, conv, receipts, acks, seen, nextRun, begun, ghosts>>

\* clear_native_recovery: first the receipts of the current conversation.  A
\* torn receipt is moved away.
Clear(i) ==
    /\ phase \in {"resetting", "recovering", "restarting"} /\ i \in Unresolved
    /\ receipts[i].prior = conv \/ \A j \in Unresolved : receipts[j].prior # conv
    /\ receipts' = IF receipts[i].state = "torn" THEN [receipts EXCEPT ![i] = NoReceipt]
                   ELSE SetReceipt(i, "cleared", receipts[i].candidate)
    /\ threads' = Conversations
    /\ unsaved' = unsaved \ {i[2]}
    /\ doubt' = IF doubt # "unknown" \/ Doubtful # {i} THEN doubt
                ELSE IF phase = "restarting" THEN "discarded" ELSE "no"
    /\ UNCHANGED <<saved, conv, adapter, acks, staged, run, seen, nextRun, begun, phase>>

\* The reset fails; a turn that wanted it fails with it.
ClearFails ==
    /\ phase \in {"resetting", "recovering", "restarting"} /\ Unresolved # {}
    /\ phase' = CASE phase = "resetting"  -> "idle"
                  [] phase = "recovering" -> "refused"
                  [] phase = "restarting" -> "saving"
    /\ UNCHANGED <<saved, conv, adapter, receipts, acks, staged, run, seen, nextRun, begun, ghosts>>

Forget == conv' = 0 /\ acks' = {} /\ threads' = {0, saved}

ResetRuntime ==
    /\ phase \in {"resetting", "recovering"} /\ Unresolved = {}
    /\ Forget
    /\ staged' \in BOOLEAN
    /\ phase' = "forgetting"
    /\ UNCHANGED <<saved, adapter, receipts, run, seen, nextRun, begun, doubt, unsaved>>

\* reset_context_epoch
ResetRecord ==
    /\ phase = "forgetting"
    /\ \/ saved' = 0 /\ threads' = {0}
       \/ UNCHANGED <<saved, threads>>
    /\ phase' = "idle"
    /\ UNCHANGED <<conv, adapter, receipts, acks, staged, run, seen, nextRun, begun, doubt, unsaved>>

Restart ==
    /\ phase = "restarting" /\ Unresolved = {}
    /\ Forget
    /\ Start(run[2])
    /\ UNCHANGED <<saved, adapter, receipts, staged, doubt, unsaved>>

-----------------------------------------------------------------------------
\* The app dies.  A run that had begun is unconfirmed unless its receipt names
\* a boundary.
Crash ==
    /\ phase # "closed"
    /\ phase' = "closed"
    /\ conv' = 0 /\ adapter' = 0 /\ acks' = {} /\ staged' = FALSE
    /\ run' = NoRun /\ seen' = 0 /\ nextRun' = 1
    /\ doubt' = IF phase = "running" /\ receipts[run].state = "pending" THEN "unknown" ELSE doubt
    /\ UNCHANGED <<saved, receipts, begun, threads, unsaved>>

Next ==
    \/ Open
    \/ \E request \in Requests : Begin(request) \/ FreshStart(request)
    \/ Claim \/ Mark \/ StartFails
    \/ Publish \/ Complete \/ Interrupt \/ EndUnknown
    \/ Save \/ SaveFails \/ AckEnds
    \/ \E i \in Identities : Acknowledge(i) \/ Clear(i)
    \/ Reset \/ ClearFails \/ ResetRuntime \/ ResetRecord \/ Restart
    \/ Crash

Spec == Init /\ [][Next]_vars

-----------------------------------------------------------------------------
\* Every variable keeps its type, a run under way has an identity, and only
\* receipts that name a boundary wait to be retired.
TypeOK ==
    /\ saved \in Conversations /\ conv \in Conversations /\ adapter \in Conversations
    /\ receipts \in [Identities -> Receipts]
    /\ acks \subseteq In({"interrupted", "completed", "cleared"})
    /\ staged \in BOOLEAN
    /\ run \in Identities \cup {NoRun}
    /\ seen \in Conversations
    /\ nextRun \in 1..MaxRuns + 1 /\ begun \in 0..MaxRuns
    /\ phase \in Phases
    /\ threads \subseteq Conversations
    /\ doubt \in {"no", "unknown", "discarded"}
    /\ unsaved \subseteq Requests
    /\ phase \in {"starting", "claimed", "running"} => run # NoRun

Begins == phase = "claimed" /\ phase' = "running"

\* A turn continues the conversation the last one reached, whatever was not
\* written and wherever the app died: from the session record when it names
\* it, else along the receipts.  Only a reset gives it up; while a reset is
\* half done, nothing is said of what the next turn continues.
ContinuesTheConversation == [][Begins => conv \in threads]_vars

\* After a run that ended without a boundary nothing runs until its receipt
\* has been cleared by a reset: not in the same process, not after a restart,
\* and not because an identity is used again.
UnknownRunsStop == [][Begins => doubt # "unknown"]_vars

\* A request whose run completed is not run again before the session record
\* has caught up with what the run reached, or a reset gave it up.
CompletedRequestsAreSaved == [][Begins => run[2] \notin unsaved]_vars

\* VIOLATED.  hivemind/docs/features/sessions.md:267: an unknown native
\* continuation fails closed and does not reset to empty state.  When the
\* first run of a session dies, its record names no conversation; the next
\* start resumes nothing and stages the transcript, and the first turn then
\* resets the provider, which clears the pending receipt, and goes on.
UnknownRunsAreNotDiscarded == [][Begins => doubt = "no"]_vars
===============================================================================
