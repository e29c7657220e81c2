----------------------------- MODULE TurnCommits -----------------------------
(***************************************************************************)
(* Concurrent EPS turns of one project: the engine of every session        *)
(* (src-tauri/src/engine.rs), the tool call its provider run has in flight *)
(* (tool_exec.rs), the write coordinator they share, and the git commits   *)
(* that split the project's dirty files between the turns (git.rs).        *)
(*                                                                         *)
(* A session is two threads.  The engine opens a request, commits what     *)
(* changed outside the app, runs the provider, commits what the turn owns, *)
(* settles the journal and releases.  The tool thread admits one call      *)
(* under the execution lock, and, because the provider run waits only a    *)
(* grace period for it, can outlive the turn that admitted it.             *)
(***************************************************************************)
EXTENDS WriteCoordinator

CONSTANTS Kinds,      \* the kinds of writer tools in play
          Workers,    \* the sessions that are background workers
          Exposed,    \* the paths that are also edited outside the app
          Outside     \* author of an edit no request claims: the user, a shell

(* "source": file_write, file_edit, file_create, file_delete, ...: claims   *)
(*   the path of its arguments first, writes inside a project transaction  *)
(*   and journals the path.                                                *)
(* "journal": dat, manifest, plugin and map writers: writes inside a       *)
(*   transaction and journals, and claims only afterwards.                 *)
(* "fs": fs_write, fs_edit: claims first, takes no transaction, writes no  *)
(*   journal.                                                              *)
WriterKinds == {"source", "journal", "fs"}

(* Faulty: a source writer that claims only what it has already written.   *)
ClaimsFirstFsOnly == {"fs"}

ClaimsFirst == {"source", "fs"}
Transactional == {"source", "journal"}

ASSUME KindsAssumption == Kinds \subseteq WriterKinds
ASSUME WorkersAssumption == Workers \subseteq Sessions
ASSUME ExposedAssumption == Exposed \subseteq Paths
ASSUME OutsideAssumption == Outside \notin Requests
ASSUME NoneAssumption == None \notin Sessions \cup Requests
ASSUME ThreadsAssumption == None \notin Threads

VARIABLES used,     \* request ids handed out so far
          cur,      \* session -> the request its runtime holds, or None
          ticket,   \* session -> the request of its write ticket, or None
          phase,    \* session -> what its engine is doing
          plan,     \* session -> whether the turn executes an approved plan
          next,     \* session -> where the engine goes after its commit
          git,      \* session -> progress of the git mutation it runs
          snap,     \* session -> what that git mutation read
          tool,     \* session -> the tool call in flight
          journal,  \* request -> paths its unsettled journal entries target
          edits     \* changes in the work tree that no commit holds yet

coordinatorVars == <<active, claims, lock>>
engineVars == <<used, cur, ticket, phase, plan, next>>
gitVars == <<git, snap>>
vars == <<coordinatorVars, engineVars, gitVars, tool, journal, edits>>

Phases == {"idle", "external", "starting", "running", "boundary", "settle",
           "release", "ending", "review", "feedback", "recover", "clearing",
           "abandon"}

GitSteps == {"out", "snapshot", "selected", "committed"}

ToolSteps == {"none", "admitted", "inside", "written", "left"}

Edits == [path : Paths, by : Requests \cup {Outside},
          kind : WriterKinds \cup {"outside"}]

NoSnap == [others |-> {}, mine |-> {}, sel |-> {}]
NoTool == [step |-> "none", req |-> None, kind |-> "none", path |-> None]

TypeOK ==
    /\ CoordinatorTypeOK
    /\ used \subseteq Requests
    /\ cur \in [Sessions -> Requests \cup {None}]
    /\ ticket \in [Sessions -> Requests \cup {None}]
    /\ phase \in [Sessions -> Phases]
    /\ plan \in [Sessions -> BOOLEAN]
    /\ next \in [Sessions -> {"settle", "cancelled", "running", "review", "recover"}]
    /\ git \in [Sessions -> GitSteps]
    /\ snap \in [Sessions -> [others : SUBSET Paths, mine : SUBSET Paths,
                              sel : SUBSET Paths]]
    /\ tool \in [Sessions -> [step : ToolSteps, req : Requests \cup {None},
                              kind : WriterKinds \cup {"none"},
                              path : Paths \cup {None}]]
    /\ journal \in [Requests -> SUBSET Paths]
    /\ edits \subseteq Edits

Dirty == {e.path : e \in edits}

Init ==
    /\ CoordinatorInit
    /\ used = {}
    /\ cur = [s \in Sessions |-> None]
    /\ ticket = [s \in Sessions |-> None]
    /\ phase = [s \in Sessions |-> "idle"]
    /\ plan = [s \in Sessions |-> FALSE]
    /\ next = [s \in Sessions |-> "settle"]
    /\ git = [s \in Sessions |-> "out"]
    /\ snap = [s \in Sessions |-> NoSnap]
    /\ tool = [s \in Sessions |-> NoTool]
    /\ journal = [r \in Requests |-> {}]
    /\ edits = {}

Goto(s, p) == phase' = [phase EXCEPT ![s] = p]

-----------------------------------------------------------------------------
(* Faulty forms of operations below (see WriteCoordinator). *)

(* Leaving every path that is claimed elsewhere, even one's own. *)
UnsharedSelection(s) ==
    IF snap[s].others = {}
    THEN IF Dirty = {} THEN {} ELSE Paths
    ELSE Dirty \ snap[s].others

(* Forgetting that a cancelled turn is over once its commit is made. *)
AfterAnyGit(s) == IF phase[s] = "external" THEN "starting" ELSE next[s]

(* Clearing the current request under the feet of its tool call. *)
ClearCurrentAtOnce(s) ==
    /\ phase[s] = "clearing"
    /\ cur' = [cur EXCEPT ![s] = None]
    /\ Goto(s, "idle")
    /\ UNCHANGED <<coordinatorVars, used, ticket, plan, next, gitVars, tool,
                   journal, edits>>

-----------------------------------------------------------------------------
(* Opening a request.  `begin_request` refuses while a tool call admitted  *)
(* earlier still holds the execution lock or a ticket is outstanding, and  *)
(* retires every claim the session left behind.                            *)
BeginRequest(s, r) ==
    /\ phase[s] = "idle"
    /\ r \notin used
    /\ tool[s].step = "none"
    /\ ticket[s] = None
    /\ used' = used \cup {r}
    /\ claims' = WithoutSession(s)
    /\ cur' = [cur EXCEPT ![s] = r]
    /\ Goto(s, "external")
    /\ UNCHANGED <<active, lock, ticket, plan, next, gitVars, tool, journal, edits>>

(* A chat that `begin_request` refuses fails like any turn: without a      *)
(* ticket its claims end at once, and recovery gives up the rest.          *)
ChatRefused(s) ==
    /\ phase[s] = "idle"
    /\ tool[s].step # "none" \/ ticket[s] # None
    /\ claims' = IF ticket[s] = None THEN WithoutRequest(cur[s]) ELSE claims
    /\ Goto(s, "recover")
    /\ UNCHANGED <<active, lock, used, cur, ticket, plan, next, gitVars, tool,
                   journal, edits>>

(* Cancelling a session that is idle gives up the ticket it still holds.   *)
CancelIdle(s) ==
    /\ phase[s] = "idle"
    /\ ticket[s] # None
    /\ Goto(s, "abandon")
    /\ UNCHANGED <<coordinatorVars, used, cur, ticket, plan, next, gitVars, tool,
                   journal, edits>>

(* The chat turn registers for writing before its first provider step.     *)
RegisterTurn(s) ==
    /\ phase[s] = "starting"
    /\ CanRegister(s, cur[s])
    /\ active' = Registered(s, cur[s])
    /\ ticket' = [ticket EXCEPT ![s] = cur[s]]
    /\ Goto(s, "running")
    /\ UNCHANGED <<claims, lock, used, cur, plan, next, gitVars, tool, journal,
                   edits>>

-----------------------------------------------------------------------------
(* Git mutations: the external-edit commit before a turn and the owned-path *)
(* commit at its boundary.  Both run inside the project transaction; fs     *)
(* writes and claims do not, so they interleave with every step below.     *)

(* Enter the transaction and read the claims: all of them before a turn,   *)
(* those of the other requests (and this one's own) at its boundary.       *)
EnterGit(s) ==
    /\ phase[s] \in {"external", "boundary"}
    /\ git[s] = "out"
    /\ Enter(Turn(s))
    /\ git' = [git EXCEPT ![s] = "snapshot"]
    /\ snap' = [snap EXCEPT ![s] =
                  [others |-> IF phase[s] = "external"
                              THEN ClaimedInFlight
                              ELSE ClaimedByOthers(cur[s]),
                   mine   |-> IF phase[s] = "external"
                              THEN {}
                              ELSE ClaimedBy(cur[s]),
                   sel    |-> {}]]
    /\ UNCHANGED <<active, claims, engineVars, tool, journal, edits>>

(* Read `git status` and select: with no path claimed elsewhere everything *)
(* (`git add --all`), otherwise the dirty paths nobody else claimed and    *)
(* those this request claimed too.                                         *)
Selection(s) ==
    IF snap[s].others = {}
    THEN IF Dirty = {} THEN {} ELSE Paths
    ELSE {p \in Dirty : p \notin snap[s].others \/ p \in snap[s].mine}

SelectPaths(s) ==
    /\ git[s] = "snapshot"
    /\ snap' = [snap EXCEPT ![s].sel = Selection(s)]
    /\ git' = [git EXCEPT ![s] = "selected"]
    /\ UNCHANGED <<coordinatorVars, engineVars, tool, journal, edits>>

(* Where the engine goes once its git mutation is over. *)
AfterGit(s) ==
    IF phase[s] = "external" THEN "starting"
    ELSE IF next[s] = "cancelled" THEN "settle"
    ELSE next[s]

LeaveGit(s) ==
    /\ Leave(Turn(s))
    /\ git' = [git EXCEPT ![s] = "out"]
    /\ snap' = [snap EXCEPT ![s] = NoSnap]
    /\ next' = [next EXCEPT ![s] = "settle"]
    /\ Goto(s, AfterGit(s))

(* The commit takes the selected paths as they are in the work tree now.   *)
CommitPaths(s) ==
    /\ git[s] = "selected"
    /\ edits' = {e \in edits : e.path \notin snap[s].sel}
    /\ IF phase[s] = "external"
       THEN LeaveGit(s)
       ELSE /\ git' = [git EXCEPT ![s] = "committed"]
            /\ UNCHANGED <<lock, snap, phase, next>>
    /\ UNCHANGED <<active, claims, used, cur, ticket, plan, tool, journal>>

(* A git error is reported and the turn goes on: nothing is committed and  *)
(* no claim is dropped.                                                    *)
CommitFails(s) ==
    /\ git[s] \in {"snapshot", "selected"}
    /\ LeaveGit(s)
    /\ UNCHANGED <<active, claims, used, cur, ticket, plan, tool, journal, edits>>

(* What the commit recorded is no longer in flight: drop the request's     *)
(* claims on every path that is clean now, unless that second `git status` *)
(* fails.                                                                  *)
UnclaimRecorded(s) ==
    /\ git[s] = "committed"
    /\ claims' \in {claims, WithoutPaths(cur[s], ClaimedBy(cur[s]) \ Dirty)}
    /\ LeaveGit(s)
    /\ UNCHANGED <<active, used, cur, ticket, plan, tool, journal, edits>>

-----------------------------------------------------------------------------
(* How a provider run ends.  A run that completes has drained its tool     *)
(* gate; one that is cancelled or fails may leave a blocking tool call     *)
(* behind, because shutdown waits for it only a grace period.              *)

EndRun(s, then) ==
    /\ phase[s] = "running"
    /\ next' = [next EXCEPT ![s] = then]
    /\ Goto(s, "boundary")
    /\ UNCHANGED <<coordinatorVars, used, cur, ticket, plan, gitVars, tool,
                   journal, edits>>

RunCompleted(s) == tool[s].step = "none" /\ EndRun(s, "settle")

RunCancelled(s) == EndRun(s, "cancelled")

(* An iteration of an autonomous run ends: commit, then run again.         *)
IterationEnds(s) == tool[s].step = "none" /\ EndRun(s, "running")

(* The run proposed a plan.  A turn that journaled nothing gives its       *)
(* registration back until approval; one that did commits and keeps it.    *)
PlanAfterChanges(s) ==
    /\ phase[s] = "running"
    /\ ~plan[s]
    /\ tool[s].step = "none"
    /\ journal[cur[s]] # {}
    /\ EndRun(s, "review")

PlanWithoutChanges(s) ==
    /\ phase[s] = "running"
    /\ ~plan[s]
    /\ tool[s].step = "none"
    /\ journal[cur[s]] = {}
    /\ Release(cur[s])
    /\ ticket' = [ticket EXCEPT ![s] = None]
    /\ Goto(s, "review")
    /\ UNCHANGED <<lock, used, cur, plan, next, gitVars, tool, journal, edits>>

(* Approving the plan registers again (or finds the live ticket) and runs  *)
(* the turn that executes it.                                              *)
PlanApproved(s) ==
    /\ phase[s] = "review"
    /\ CanRegister(s, cur[s])
    /\ active' = Registered(s, cur[s])
    /\ ticket' = [ticket EXCEPT ![s] = cur[s]]
    /\ plan' = [plan EXCEPT ![s] = TRUE]
    /\ Goto(s, "running")
    /\ UNCHANGED <<claims, lock, used, cur, next, gitVars, tool, journal, edits>>

-----------------------------------------------------------------------------
(* Feedback on the plan is another run of the same request, read-only for  *)
(* canonical writers.  Nothing is committed or settled when it ends.       *)

Feedback(s, from, then) ==
    /\ phase[s] = from
    /\ Goto(s, then)
    /\ UNCHANGED <<coordinatorVars, used, cur, ticket, plan, next, gitVars, tool,
                   journal, edits>>

PlanFeedback(s) == Feedback(s, "review", "feedback")

(* A new plan is reviewed in its turn; a plain answer leaves the session   *)
(* idle.                                                                   *)
FeedbackPlans(s) == tool[s].step = "none" /\ Feedback(s, "feedback", "review")

FeedbackAnswers(s) == tool[s].step = "none" /\ Feedback(s, "feedback", "idle")

(* `cancel` stops the run, waits for it and gives up the ticket. *)
FeedbackCancelled(s) == Feedback(s, "feedback", "abandon")

FeedbackFails(s) == Feedback(s, "feedback", "recover")

(* The first canonical write of the run registers the request and ends the *)
(* run to be continued; `handle_turn_result` takes that for a failure.     *)
FeedbackWrites(s) ==
    /\ phase[s] = "feedback"
    /\ tool[s].step = "none"
    /\ CanRegister(s, cur[s])
    /\ active' = Registered(s, cur[s])
    /\ ticket' = [ticket EXCEPT ![s] = cur[s]]
    /\ Goto(s, "recover")
    /\ UNCHANGED <<claims, lock, used, cur, plan, next, gitVars, tool, journal,
                   edits>>

-----------------------------------------------------------------------------
(* A failed turn is recovered; a worker's is first committed as its own;   *)
(* the failed execution of a plan only gives the registration back.        *)
FailTo(s) == IF plan[s] THEN "abandon"
             ELSE IF s \in Workers THEN "boundary" ELSE "recover"

TurnFails(s) ==
    /\ phase[s] \in {"starting", "running", "settle"}
    /\ next' = [next EXCEPT ![s] = IF FailTo(s) = "boundary" THEN "recover" ELSE @]
    /\ Goto(s, FailTo(s))
    /\ UNCHANGED <<coordinatorVars, used, cur, ticket, plan, gitVars, tool,
                   journal, edits>>

-----------------------------------------------------------------------------
(* Leaving a turn *)

(* Accept and archive what the request journaled, in one transaction; a    *)
(* request that journaled nothing takes none.                              *)
SettleRequest(s) ==
    /\ phase[s] = "settle"
    /\ journal[cur[s]] # {} => lock = None
    /\ journal' = [journal EXCEPT ![cur[s]] = {}]
    /\ Goto(s, "release")
    /\ UNCHANGED <<coordinatorVars, used, cur, ticket, plan, next, gitVars, tool,
                   edits>>

ReleaseTicket(s) ==
    /\ IF ticket[s] = None
       THEN UNCHANGED <<active, claims>>
       ELSE Release(ticket[s])
    /\ ticket' = [ticket EXCEPT ![s] = None]

ReleaseRegistration(s) ==
    /\ phase[s] = "release"
    /\ ReleaseTicket(s)
    /\ Goto(s, "ending")
    /\ UNCHANGED <<lock, used, cur, plan, next, gitVars, tool, journal, edits>>

EndTurnClaims(s) ==
    /\ phase[s] = "ending"
    /\ claims' = WithoutRequest(cur[s])
    /\ plan' = [plan EXCEPT ![s] = FALSE]
    /\ Goto(s, "idle")
    /\ UNCHANGED <<active, lock, used, cur, ticket, next, gitVars, tool, journal,
                   edits>>

(* A failed turn still holds its ticket when its claims would end, so they *)
(* end with the registration; the request is cleared only once the         *)
(* execution lock is free.                                                 *)
RecoverFailure(s) ==
    /\ phase[s] \in {"recover", "abandon"}
    /\ ReleaseTicket(s)
    /\ plan' = [plan EXCEPT ![s] = FALSE]
    /\ Goto(s, IF phase[s] = "recover" THEN "clearing" ELSE "idle")
    /\ UNCHANGED <<lock, used, cur, next, gitVars, tool, journal, edits>>

ClearCurrent(s) ==
    /\ phase[s] = "clearing"
    /\ tool[s].step = "none"
    /\ cur' = [cur EXCEPT ![s] = None]
    /\ Goto(s, "idle")
    /\ UNCHANGED <<coordinatorVars, used, ticket, plan, next, gitVars, tool,
                   journal, edits>>

-----------------------------------------------------------------------------
(* Tool calls.  One call of a session at a time holds the execution lock.  *)

(* Admission: the run is the current one (a cancelled run admits nothing   *)
(* more), a canonical write needs the registration and a run with write    *)
(* access, and a writer that names its path claims it before it runs.      *)
AdmitTool(s, k, p) ==
    /\ phase[s] \in {"running", "feedback"}
    /\ tool[s].step = "none"
    /\ k \in Transactional => phase[s] = "running" /\ Owns(s, cur[s])
    /\ tool' = [tool EXCEPT ![s] =
                  [step |-> "admitted", req |-> cur[s], kind |-> k, path |-> p]]
    /\ claims' = WithClaim(s, cur[s], IF k \in ClaimsFirst THEN {p} ELSE {})
    /\ UNCHANGED <<active, lock, engineVars, gitVars, journal, edits>>

ToolAt(s, step) == tool' = [tool EXCEPT ![s].step = step]

EnterTransaction(s) ==
    /\ tool[s].step = "admitted"
    /\ tool[s].kind \in Transactional
    /\ Enter(Tool(s))
    /\ ToolAt(s, "inside")
    /\ UNCHANGED <<active, claims, engineVars, gitVars, journal, edits>>

(* The write itself; a writer that journals records the path with it.      *)
WriteFile(s) ==
    LET t == tool[s] IN
    /\ t.step = (IF t.kind \in Transactional THEN "inside" ELSE "admitted")
    /\ t.step # "none"
    /\ edits' = edits \cup {[path |-> t.path, by |-> t.req, kind |-> t.kind]}
    /\ journal' = IF t.kind \in Transactional
                  THEN [journal EXCEPT ![t.req] = @ \cup {t.path}]
                  ELSE journal
    /\ ToolAt(s, "written")
    /\ UNCHANGED <<coordinatorVars, engineVars, gitVars>>

LeaveTransaction(s) ==
    /\ tool[s].step = "written"
    /\ IF tool[s].kind \in Transactional THEN Leave(Tool(s)) ELSE UNCHANGED lock
    /\ ToolAt(s, "left")
    /\ UNCHANGED <<active, claims, engineVars, gitVars, journal, edits>>

(* A successful call claims what it changed: its own path and, for a       *)
(* writer that journals, the targets of every entry of the request's       *)
(* journal.  A request that is no longer current claims nothing.           *)
ClaimResult(s) ==
    LET t == tool[s]
        targets == IF t.kind \in Transactional THEN journal[t.req] ELSE {t.path}
    IN  /\ t.step = "left"
        /\ claims' = IF cur[s] = t.req THEN WithClaim(s, t.req, targets) ELSE claims
        /\ tool' = [tool EXCEPT ![s] = NoTool]
        /\ UNCHANGED <<active, lock, engineVars, gitVars, journal, edits>>

(* A call may fail before it writes; what it claimed stays claimed.        *)
ToolFails(s) ==
    /\ tool[s].step \in {"admitted", "inside"}
    /\ IF tool[s].step = "inside" THEN Leave(Tool(s)) ELSE UNCHANGED lock
    /\ tool' = [tool EXCEPT ![s] = NoTool]
    /\ UNCHANGED <<active, claims, engineVars, gitVars, journal, edits>>

(* The user's editor, SCMDraft, or a provider's shell command: an edit     *)
(* that nothing claims.                                                    *)
EditOutside(p) ==
    /\ edits' = edits \cup {[path |-> p, by |-> Outside, kind |-> "outside"]}
    /\ UNCHANGED <<coordinatorVars, engineVars, gitVars, tool, journal>>

-----------------------------------------------------------------------------
GitStep(s) ==
    \/ EnterGit(s) \/ SelectPaths(s) \/ CommitPaths(s) \/ CommitFails(s)
    \/ UnclaimRecorded(s)

EngineStep(s) ==
    \/ RegisterTurn(s)
    \/ SettleRequest(s) \/ ReleaseRegistration(s) \/ EndTurnClaims(s)
    \/ RecoverFailure(s) \/ ClearCurrent(s)

PlanReview(s) ==
    \/ PlanApproved(s) \/ PlanFeedback(s)
    \/ FeedbackPlans(s) \/ FeedbackAnswers(s) \/ FeedbackCancelled(s)
    \/ FeedbackFails(s) \/ FeedbackWrites(s)

RunEnds(s) ==
    \/ RunCompleted(s) \/ RunCancelled(s) \/ IterationEnds(s)
    \/ PlanAfterChanges(s) \/ PlanWithoutChanges(s) \/ TurnFails(s)

ToolStep(s) ==
    \/ EnterTransaction(s) \/ WriteFile(s) \/ LeaveTransaction(s)
    \/ ClaimResult(s) \/ ToolFails(s)

Next ==
    \/ \E s \in Sessions :
         \/ \E r \in Requests : BeginRequest(s, r)
         \/ ChatRefused(s) \/ CancelIdle(s)
         \/ EngineStep(s) \/ GitStep(s) \/ RunEnds(s) \/ PlanReview(s)
         \/ \E k \in Kinds, p \in Paths : AdmitTool(s, k, p)
         \/ ToolStep(s)
    \/ \E p \in Exposed : EditOutside(p)

Spec == Init /\ [][Next]_vars

(* A thread that can go on does; how and when a run ends is the provider's *)
(* and the user's choice, and so is any new request.  The project          *)
(* transaction is a parking_lot mutex, which hands over fairly in the end: *)
(* a waiter that finds it free again and again gets in.                    *)
EngineGoesOn(s) ==
    \/ RegisterTurn(s)
    \/ SelectPaths(s) \/ CommitPaths(s) \/ UnclaimRecorded(s)
    \/ ReleaseRegistration(s) \/ EndTurnClaims(s)
    \/ RecoverFailure(s) \/ ClearCurrent(s)

ToolGoesOn(s) == WriteFile(s) \/ LeaveTransaction(s) \/ ClaimResult(s)

Fairness ==
    \A s \in Sessions :
        /\ WF_vars(EngineGoesOn(s))
        /\ WF_vars(ToolGoesOn(s))
        /\ SF_vars(EnterGit(s) \/ SettleRequest(s))
        /\ SF_vars(EnterTransaction(s))

FairSpec == Spec /\ Fairness

-----------------------------------------------------------------------------
(* Correctness *)

(* The request of a session is in flight while its provider run, or the    *)
(* review of its plan, goes on or is still to continue.                    *)
InFlight(s) ==
    \/ phase[s] \in {"running", "review", "feedback"}
    \/ phase[s] = "boundary" /\ next[s] \in {"running", "review"}

(* No commit of one session takes an edit that a source writer of another  *)
(* session's request in flight has made, unless the committing request has *)
(* claimed the path too: a turn's changes land in that turn's own commit   *)
(* (`commit_claimed_paths`, `commit_external_edits_except`).               *)
CommitsLeaveOthersSourceEdits ==
    [][\A s \in Sessions : \A o \in Sessions \ {s} :
         lock = Turn(s) /\ InFlight(o) =>
           \A e \in edits \ edits' :
             e.by = cur[o] /\ e.kind = "source" => e.path \in ClaimedBy(cur[s])]_vars

(* A commit made after a drained run (the end of a turn, an iteration, a   *)
(* proposed plan) leaves nothing that the turn journaled behind, not even  *)
(* what another session has claimed too (`commit_claimed_paths`).          *)
CommitRecordsTheTurn ==
    \A s \in Sessions :
        git[s] = "committed" /\ next[s] \in {"settle", "running", "review"} =>
            \A e \in edits : e.by = cur[s] => e.kind \notin Transactional

(* At most one request of a session holds paths back from the commits of   *)
(* the other sessions, whatever exit path its earlier requests took        *)
(* (`clear_session_claims` in `begin_request`).                            *)
OneClaimantPerSession ==
    \A q, r \in Requests :
        claims[q].session = claims[r].session /\ claims[q].session # None => q = r

(* The registrations of the coordinator and the tickets the sessions hold  *)
(* agree, through every way a turn can end, fail or be recovered: no       *)
(* registration leaks and no session keeps a ticket of a lost one.         *)
RegistrationsAreTickets ==
    \A r \in Requests, s \in Sessions : active[r] = s <=> ticket[s] = r

(* A tool call that outlives its turn never runs inside a later request of *)
(* the session: `begin_request` and `clear_current` wait for it.           *)
ToolsServeTheirRequest ==
    \A s \in Sessions : tool[s].step # "none" => tool[s].req = cur[s]

(* A transactional tool call is between its first and last write. *)
InTransaction(s) ==
    /\ tool[s].kind \in Transactional
    /\ tool[s].step \in {"inside", "written"}

(* A git mutation never overlaps another one, nor a transactional write of *)
(* any session (`run_git_mutation`).                                       *)
GitRunsAlone ==
    \A s \in Sessions :
        git[s] # "out" =>
            /\ \A o \in Sessions : ~InTransaction(o)
            /\ \A o \in Sessions \ {s} : git[o] = "out"

(* A turn whose last run has ended, however it ended and whatever its tool *)
(* call still waits for, gives the session back.                           *)
TurnsEnd ==
    \A s \in Sessions :
        phase[s] \in {"boundary", "recover", "abandon"} /\ ~InFlight(s)
            ~> phase[s] = "idle"

-----------------------------------------------------------------------------
(* What a comment of the repository says and the code does not keep: a run *)
(* shows the behaviour.                                                    *)

(* A session keeps its registration past a turn for a plan review or a     *)
(* pending write only (`end_turn_claims`).  Feedback that is answered      *)
(* without a new plan leaves it idle with the ticket of the plan turn.     *)
IdleSessionsHoldNoTicket ==
    \A s \in Sessions : phase[s] = "idle" => ticket[s] = None

=============================================================================
