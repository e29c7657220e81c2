-------------------------- MODULE TurnCommitsProofs --------------------------
(***************************************************************************)
(* Theorems of TurnCommits for every set of sessions, requests, paths and  *)
(* writer kinds.                                                           *)
(*                                                                         *)
(* The inductive invariant IInv names what each thread holds at each of    *)
(* its program counters.  Its parts are preserved by one lemma each; the   *)
(* lemmas about single variables (who changes claims, requests, edits,     *)
(* journals, git snapshots) keep the proofs of the parts that relate       *)
(* several of them short.                                                  *)
(***************************************************************************)
EXTENDS TurnCommits, WriteCoordinatorProofs

(* Request ids are fresh: what no turn has opened yet has left no trace.   *)
FreshRequests ==
    /\ \A s \in Sessions : cur[s] # None => cur[s] \in used
    /\ \A s, o \in Sessions : s # o /\ cur[s] # None => cur[s] # cur[o]
    /\ \A e \in edits : e.by = Outside \/ e.by \in used
    /\ \A r \in Requests \ used : claims[r].session = None

(* The program counters and what the session holds at each of them. *)
EngineHolds ==
    \A s \in Sessions :
        /\ phase[s] # "idle" => cur[s] # None
        /\ ticket[s] # None => ticket[s] = cur[s]
        /\ phase[s] \in {"external", "starting", "clearing"} => ticket[s] = None
        /\ git[s] # "out" => phase[s] \in {"external", "boundary"}

(* The tool call serves the request of its session; a run that continues   *)
(* or whose plan is reviewed has drained it, and one that has not started  *)
(* has none.                                                               *)
ToolInFlight ==
    \A s \in Sessions :
        /\ tool[s].step # "none" =>
             /\ tool[s].req = cur[s]
             /\ tool[s].req \in Requests
             /\ tool[s].kind \in WriterKinds
             /\ tool[s].path \in Paths
        /\ phase[s] \in {"external", "starting"} => tool[s].step = "none"
        /\ InFlight(s) /\ phase[s] \notin {"running", "feedback"} =>
             tool[s].step = "none"

(* Who holds the project transaction. *)
LockHolder ==
    \A s \in Sessions :
        /\ git[s] # "out" <=> lock = Turn(s)
        /\ InTransaction(s) <=> lock = Tool(s)

(* The claims a session's current request may hold are its own. *)
ClaimOwners ==
    \A s \in Sessions :
        /\ cur[s] # None => claims[cur[s]].session \in {None, s}
        /\ cur[s] # None => \A r \in Requests : claims[r].session = s => r = cur[s]

SourceEdit(e, s) == e.by = cur[s] /\ e.kind = "source"

(* What a source writer of a request in flight wrote, and what it is about *)
(* to write, is claimed by the request; what it wrote is in its journal.   *)
SourceClaimed ==
    \A s \in Sessions :
        /\ phase[s] \in {"external", "starting"} =>
             \A e \in edits : e.by # cur[s]
        /\ InFlight(s) =>
             \A e \in edits :
               SourceEdit(e, s) =>
                 e.path \in ClaimedBy(cur[s]) /\ e.path \in journal[cur[s]]
        /\ InFlight(s) /\ tool[s].kind = "source" /\ tool[s].step \in {"admitted", "inside"} =>
             tool[s].path \in ClaimedBy(cur[s])

(* What the git mutation of s has read accounts for every source edit of   *)
(* the other sessions' requests in flight.                                 *)
SnapshotCovers ==
    \A s \in Sessions :
        /\ git[s] # "out" => snap[s].mine \subseteq ClaimedBy(cur[s])
        /\ git[s] \in {"snapshot", "selected"} =>
             \A o \in Sessions \ {s} :
               InFlight(o) =>
                 \A e \in edits :
                   SourceEdit(e, o) =>
                     /\ e.path \in snap[s].others
                     /\ git[s] = "selected" /\ e.path \in snap[s].sel =>
                          e.path \in snap[s].mine

IInv ==
    /\ TypeOK
    /\ FreshRequests
    /\ EngineHolds
    /\ RegistrationsAreTickets
    /\ ToolInFlight
    /\ LockHolder
    /\ ClaimOwners
    /\ OneClaimantPerSession
    /\ SourceClaimed
    /\ SnapshotCovers

USE KindsAssumption, OutsideAssumption, NoneAssumption, ThreadsAssumption, ExposedAssumption

(* Unclaiming what a commit recorded keeps the claims on what is still     *)
(* dirty, and every other request (`commit_owned_paths_with`).             *)
LEMMA UnclaimFacts ==
  ASSUME TypeOK, NEW r \in Requests
  PROVE  /\ WithoutPaths(r, ClaimedBy(r) \ Dirty) \in [Requests -> PathClaim]
         /\ \A q \in Requests \ {r} :
              WithoutPaths(r, ClaimedBy(r) \ Dirty)[q] = claims[q]
         /\ WithoutPaths(r, ClaimedBy(r) \ Dirty)[r].paths = ClaimedBy(r) \cap Dirty
         /\ WithoutPaths(r, ClaimedBy(r) \ Dirty)[r].session \in {None, claims[r].session}
  <1> DEFINE clean == ClaimedBy(r) \ Dirty
  <1>1. CoordinatorTypeOK
    BY DEF TypeOK
  <1>2. clean \in SUBSET Paths
    BY <1>1 DEF CoordinatorTypeOK, PathClaim, ClaimedBy
  <1>3. claims[r].paths \ clean = ClaimedBy(r) \cap Dirty
    BY DEF ClaimedBy
  <1> HIDE DEF clean
  <1>4. /\ WithoutPaths(r, clean) \in [Requests -> PathClaim]
        /\ \A q \in Requests \ {r} : WithoutPaths(r, clean)[q] = claims[q]
        /\ WithoutPaths(r, clean)[r].paths = claims[r].paths \ clean
        /\ WithoutPaths(r, clean)[r].session \in {None, claims[r].session}
    BY <1>1, <1>2, WithoutPathsFacts
  <1> QED
    BY <1>3, <1>4 DEF clean

(* The request a session's engine works on, or its tool call, is one. *)
LEMMA CurrentRequest ==
  ASSUME TypeOK, EngineHolds, ToolInFlight, NEW s \in Sessions
  PROVE  /\ CoordinatorTypeOK
         /\ phase[s] # "idle" => cur[s] \in Requests
         /\ ticket[s] # None => ticket[s] \in Requests /\ ticket[s] = cur[s]
         /\ tool[s].step # "none" =>
              tool[s].req \in Requests /\ tool[s].req = cur[s] /\ tool[s].path \in Paths
         /\ git[s] # "out" => cur[s] \in Requests
  BY DEF TypeOK, EngineHolds, ToolInFlight

(* A claim changes hands only by ending, or by the request a session has   *)
(* open claiming for that session.                                         *)
SessionChange(r) ==
    \/ claims'[r].session \in {claims[r].session, None}
    \/ \E s \in Sessions : r = cur[s] /\ cur'[s] = cur[s] /\ claims'[r].session = s

(* Every step changes the owner of a claim only in those ways.             *)
LEMMA ClaimsStep ==
  ASSUME TypeOK, EngineHolds, ToolInFlight, [Next]_vars
  PROVE  \A r \in Requests : SessionChange(r)
  <1> SUFFICES ASSUME NEW r \in Requests PROVE SessionChange(r)
    OBVIOUS
  <1> USE DEF SessionChange
  <1>1. ASSUME NEW s \in Sessions, NEW q \in Requests, BeginRequest(s, q) PROVE SessionChange(r)
    BY <1>1, CurrentRequest, WithoutSessionFacts DEF BeginRequest
  <1>2. ASSUME NEW s \in Sessions, UnclaimRecorded(s) PROVE SessionChange(r)
    BY <1>2, CurrentRequest, UnclaimFacts DEF UnclaimRecorded
  <1>3. ASSUME NEW s \in Sessions, PlanWithoutChanges(s) PROVE SessionChange(r)
    BY <1>3, CurrentRequest, WithoutRequestFacts DEF PlanWithoutChanges, Release
  <1>4. ASSUME NEW s \in Sessions, ReleaseRegistration(s) PROVE SessionChange(r)
    BY <1>4, CurrentRequest, WithoutRequestFacts DEF ReleaseRegistration, ReleaseTicket, Release
  <1>5. ASSUME NEW s \in Sessions, EndTurnClaims(s) PROVE SessionChange(r)
    BY <1>5, CurrentRequest, WithoutRequestFacts DEF EndTurnClaims
  <1>6. ASSUME NEW s \in Sessions, RecoverFailure(s) PROVE SessionChange(r)
    BY <1>6, CurrentRequest, WithoutRequestFacts DEF RecoverFailure, ReleaseTicket, Release
  <1>7. ASSUME NEW s \in Sessions, NEW k \in Kinds, NEW p \in Paths, AdmitTool(s, k, p)
        PROVE  SessionChange(r)
    <2> DEFINE ps == IF k \in ClaimsFirst THEN {p} ELSE {}
    <2>1. ps \in SUBSET Paths /\ cur[s] \in Requests
      BY <1>7, CurrentRequest DEF AdmitTool
    <2>2. claims' = WithClaim(s, cur[s], ps) /\ cur' = cur
      BY <1>7 DEF AdmitTool, engineVars
    <2> HIDE DEF ps
    <2> QED
      BY <2>1, <2>2, CurrentRequest, WithClaimFacts
  <1>8. ASSUME NEW s \in Sessions, ClaimResult(s) PROVE SessionChange(r)
    <2> DEFINE ps == IF tool[s].kind \in Transactional
                     THEN journal[tool[s].req] ELSE {tool[s].path}
    <2>1. ps \in SUBSET Paths /\ cur[s] \in Requests /\ tool[s].req = cur[s]
      BY <1>8, CurrentRequest DEF ClaimResult, TypeOK
    <2>2. claims' = WithClaim(s, cur[s], ps) /\ cur' = cur
      BY <1>8, <2>1 DEF ClaimResult, engineVars
    <2> HIDE DEF ps
    <2> QED
      BY <2>1, <2>2, CurrentRequest, WithClaimFacts
  <1>9. ASSUME NEW s \in Sessions,
          \/ RegisterTurn(s) \/ EnterGit(s) \/ SelectPaths(s) \/ CommitPaths(s)
          \/ CommitFails(s) \/ RunCompleted(s) \/ RunCancelled(s) \/ IterationEnds(s)
          \/ PlanAfterChanges(s)
          \/ PlanReview(s) \/ CancelIdle(s) \/ TurnFails(s) \/ SettleRequest(s)
          \/ ClearCurrent(s) \/ EnterTransaction(s) \/ WriteFile(s) \/ LeaveTransaction(s)
          \/ ToolFails(s)
        PROVE SessionChange(r)
    BY <1>9 DEF RegisterTurn, EnterGit, SelectPaths, CommitPaths, LeaveGit, CommitFails,
       RunCompleted, EndRun, RunCancelled, IterationEnds, PlanAfterChanges, PlanReview,
       PlanApproved, PlanFeedback, FeedbackPlans, FeedbackAnswers, FeedbackCancelled,
    FeedbackFails, FeedbackWrites, Feedback, CancelIdle, ChatRefused, TurnFails, SettleRequest,
       ClearCurrent, EnterTransaction, WriteFile, LeaveTransaction, ToolFails, coordinatorVars
  <1>10. CASE (\E p \in Exposed : EditOutside(p)) \/ UNCHANGED vars
    BY <1>10 DEF EditOutside, vars, coordinatorVars
  <1>11. ASSUME NEW s \in Sessions, ChatRefused(s) PROVE SessionChange(r)
    BY <1>11, CurrentRequest, WithoutRequestFacts DEF ChatRefused
  <1> QED
    BY <1>1, <1>2, <1>3, <1>4, <1>5, <1>6, <1>7, <1>8, <1>9, <1>10, <1>11
       DEF Next, EngineStep, GitStep, RunEnds, PlanReview, ToolStep

(* A session's request changes when it is cleared or a fresh one is opened,*)
(* and opening it has ended every claim of the session.                    *)
Reopens(s) ==
    /\ cur'[s] \in Requests \ used
    /\ cur'[s] \in used'
    /\ \A o \in Sessions \ {s} : cur'[o] = cur[o]
    /\ \A r \in Requests : claims'[r].session \in {claims[r].session, None} \ {s}

(* Every step changes the request of a session only in those ways, and no  *)
(* request id is handed out twice.                                         *)
LEMMA CurStep ==
  ASSUME TypeOK, EngineHolds, ToolInFlight, [Next]_vars
  PROVE  /\ used \subseteq used'
         /\ \A s \in Sessions : cur'[s] = cur[s] \/ cur'[s] = None \/ Reopens(s)
  <1> DEFINE Goal == /\ used \subseteq used'
                     /\ \A s \in Sessions : cur'[s] = cur[s] \/ cur'[s] = None \/ Reopens(s)
  <1>1. ASSUME NEW s \in Sessions, NEW r \in Requests, BeginRequest(s, r) PROVE Goal
    <2>1. /\ used' = used \cup {r} /\ r \notin used
          /\ cur' = [cur EXCEPT ![s] = r]
          /\ claims' = WithoutSession(s)
      BY <1>1 DEF BeginRequest
    <2>2. Reopens(s)
      <3>1. \A q \in Requests : claims'[q].session \in {claims[q].session, None} \ {s}
        BY <2>1, CurrentRequest, WithoutSessionFacts
      <3> QED
        BY <2>1, <3>1 DEF TypeOK, Reopens
    <2> QED
      BY <2>1, <2>2 DEF TypeOK
  <1>2. ASSUME NEW s \in Sessions, ClearCurrent(s) PROVE Goal
    BY <1>2 DEF ClearCurrent, TypeOK
  <1>3. ASSUME NEW s \in Sessions, NEW k \in Kinds, NEW p \in Paths, AdmitTool(s, k, p) PROVE Goal
    BY <1>3 DEF AdmitTool, engineVars
  <1>4. ASSUME NEW s \in Sessions,
          \/ RegisterTurn(s) \/ EnterGit(s) \/ SelectPaths(s) \/ CommitPaths(s)
          \/ CommitFails(s) \/ UnclaimRecorded(s) \/ RunCompleted(s) \/ RunCancelled(s)
          \/ IterationEnds(s) \/ PlanAfterChanges(s) \/ PlanWithoutChanges(s)
          \/ PlanReview(s) \/ CancelIdle(s) \/ ChatRefused(s)
          \/ TurnFails(s) \/ SettleRequest(s) \/ ReleaseRegistration(s) \/ EndTurnClaims(s)
          \/ RecoverFailure(s) \/ EnterTransaction(s) \/ WriteFile(s) \/ LeaveTransaction(s)
          \/ ClaimResult(s) \/ ToolFails(s)
        PROVE  Goal
    BY <1>4 DEF RegisterTurn, EnterGit, SelectPaths, CommitPaths, LeaveGit, CommitFails,
       UnclaimRecorded, RunCompleted, EndRun, RunCancelled, IterationEnds, PlanAfterChanges,
       PlanWithoutChanges, Release, PlanReview, PlanApproved, PlanFeedback, FeedbackPlans,
    FeedbackAnswers, FeedbackCancelled, FeedbackFails, FeedbackWrites, Feedback, CancelIdle,
       ChatRefused, TurnFails, SettleRequest, ReleaseRegistration, ReleaseTicket, EndTurnClaims,
       RecoverFailure, EnterTransaction, WriteFile, LeaveTransaction, ClaimResult, ToolFails,
       engineVars
  <1>5. CASE (\E p \in Exposed : EditOutside(p)) \/ UNCHANGED vars
    BY <1>5 DEF EditOutside, vars, engineVars
  <1> QED
    BY <1>1, <1>2, <1>3, <1>4, <1>5 DEF Next, EngineStep, GitStep, RunEnds, PlanReview, ToolStep

(* A session claims through its current request alone, whatever step is    *)
(* taken.                                                                  *)
LEMMA ClaimOwnersStep ==
  ASSUME TypeOK, FreshRequests, EngineHolds, ToolInFlight, ClaimOwners, OneClaimantPerSession,
         [Next]_vars
  PROVE  ClaimOwners' /\ OneClaimantPerSession'
  <1>1. \A r \in Requests : SessionChange(r)
    BY ClaimsStep
  <1>2. \A s \in Sessions : cur'[s] = cur[s] \/ cur'[s] = None \/ Reopens(s)
    BY CurStep
  <1>3. \A s \in Sessions : cur[s] \in Requests \cup {None}
    BY DEF TypeOK
  <1>4. ClaimOwners'
    <2> SUFFICES ASSUME NEW s \in Sessions, cur'[s] # None
                 PROVE  /\ claims'[cur'[s]].session \in {None, s}
                        /\ \A r \in Requests : claims'[r].session = s => r = cur'[s]
      BY DEF ClaimOwners
    <2>1. CASE cur'[s] = cur[s]
      BY <1>1, <1>3, <2>1 DEF SessionChange, ClaimOwners, FreshRequests
    <2>2. CASE Reopens(s)
      BY <2>2 DEF Reopens, FreshRequests
    <2> QED
      BY <1>2, <2>1, <2>2
  <1>5. OneClaimantPerSession'
    <2> SUFFICES ASSUME NEW q \in Requests, NEW r \in Requests,
                        claims'[q].session = claims'[r].session, claims'[q].session # None
                 PROVE  q = r
      BY DEF OneClaimantPerSession
    <2>1. CASE /\ claims'[q].session = claims[q].session
               /\ claims'[r].session = claims[r].session
      BY <2>1 DEF OneClaimantPerSession
    <2>2. ASSUME NEW s \in Sessions, cur'[s] = cur[s], cur[s] \in {q, r}, claims'[q].session = s
          PROVE  q = r
      BY <1>3, <1>4, <2>2 DEF ClaimOwners
    <2> QED
      BY <1>1, <2>1, <2>2 DEF SessionChange
  <1> QED
    BY <1>4, <1>5

(* Only a tool call, or somebody outside, makes an edit. *)
LEMMA EditsStep ==
  ASSUME [Next]_vars
  PROVE  \/ edits' \subseteq edits
         \/ \E s \in Sessions : WriteFile(s)
         \/ \E p \in Exposed : EditOutside(p)
  <1>1. ASSUME NEW s \in Sessions, NEW r \in Requests, BeginRequest(s, r)
        PROVE  edits' \subseteq edits
    BY <1>1 DEF BeginRequest
  <1>2. ASSUME NEW s \in Sessions, NEW k \in Kinds, NEW p \in Paths, AdmitTool(s, k, p)
        PROVE  edits' \subseteq edits
    BY <1>2 DEF AdmitTool
  <1>3. ASSUME NEW s \in Sessions,
          \/ RegisterTurn(s) \/ EnterGit(s) \/ SelectPaths(s) \/ CommitPaths(s)
          \/ CommitFails(s) \/ UnclaimRecorded(s) \/ RunCompleted(s) \/ RunCancelled(s)
          \/ IterationEnds(s) \/ PlanAfterChanges(s) \/ PlanWithoutChanges(s)
          \/ PlanReview(s) \/ CancelIdle(s) \/ ChatRefused(s)
          \/ TurnFails(s) \/ SettleRequest(s) \/ ReleaseRegistration(s) \/ EndTurnClaims(s)
          \/ RecoverFailure(s) \/ ClearCurrent(s) \/ EnterTransaction(s) \/ LeaveTransaction(s)
          \/ ClaimResult(s) \/ ToolFails(s)
        PROVE  edits' \subseteq edits
    BY <1>3 DEF RegisterTurn, EnterGit, SelectPaths, CommitPaths, LeaveGit, CommitFails,
       UnclaimRecorded, RunCompleted, EndRun, RunCancelled, IterationEnds, PlanAfterChanges,
       PlanWithoutChanges, Release, PlanReview, PlanApproved, PlanFeedback, FeedbackPlans,
    FeedbackAnswers, FeedbackCancelled, FeedbackFails, FeedbackWrites, Feedback, CancelIdle,
       ChatRefused, TurnFails, SettleRequest, ReleaseRegistration, ReleaseTicket, EndTurnClaims,
       RecoverFailure, ClearCurrent, EnterTransaction, LeaveTransaction, ClaimResult, ToolFails
  <1>4. CASE UNCHANGED vars
    BY <1>4 DEF vars
  <1> QED
    BY <1>1, <1>2, <1>3, <1>4 DEF Next, EngineStep, GitStep, RunEnds, PlanReview, ToolStep

(* Every step keeps request ids fresh.                                     *)
LEMMA FreshStep ==
  ASSUME TypeOK, FreshRequests, EngineHolds, ToolInFlight, [Next]_vars
  PROVE  FreshRequests'
  <1>1. /\ used \subseteq used'
        /\ \A s \in Sessions : cur'[s] = cur[s] \/ cur'[s] = None \/ Reopens(s)
    BY CurStep
  <1>2. \A s \in Sessions : cur'[s] # None => cur'[s] \in used'
    BY <1>1 DEF FreshRequests, Reopens
  <1>3. \A s, o \in Sessions : s # o /\ cur'[s] # None => cur'[s] # cur'[o]
    BY <1>1 DEF FreshRequests, Reopens
  <1>4. \A r \in Requests \ used' : claims'[r].session = None
    BY <1>1, ClaimsStep DEF FreshRequests, SessionChange
  <1>5. \A e \in edits' : e.by = Outside \/ e.by \in used'
    <2>1. ASSUME NEW s \in Sessions, WriteFile(s)
          PROVE  \A e \in edits' : e.by = Outside \/ e.by \in used'
      BY <1>1, <2>1, CurrentRequest DEF WriteFile, FreshRequests
    <2>2. ASSUME NEW p \in Exposed, EditOutside(p)
          PROVE  \A e \in edits' : e.by = Outside \/ e.by \in used'
      BY <1>1, <2>2 DEF EditOutside, FreshRequests
    <2>3. ASSUME edits' \subseteq edits PROVE \A e \in edits' : e.by = Outside \/ e.by \in used'
      BY <1>1, <2>3 DEF FreshRequests
    <2> QED
      BY <2>1, <2>2, <2>3, EditsStep
  <1> QED
    BY <1>2, <1>3, <1>4, <1>5 DEF FreshRequests

(* Every step keeps what an engine holds at its program counters.          *)
LEMMA EngineHoldsStep ==
  ASSUME TypeOK, FreshRequests, EngineHolds, ToolInFlight, [Next]_vars
  PROVE  EngineHolds'
  <1> USE DEF EngineHolds, FreshRequests, TypeOK, CoordinatorTypeOK, Phases, GitSteps, vars,
     coordinatorVars, engineVars, gitVars
  <1>1. ASSUME NEW s \in Sessions, NEW r \in Requests, BeginRequest(s, r) PROVE EngineHolds'
    BY <1>1 DEF BeginRequest, Goto
  <1>2. ASSUME NEW s \in Sessions, RegisterTurn(s) PROVE EngineHolds'
    BY <1>2 DEF RegisterTurn, Registered, CanRegister, Goto
  <1>3. ASSUME NEW s \in Sessions, EnterGit(s) PROVE EngineHolds'
    BY <1>3 DEF EnterGit, Enter
  <1>4. ASSUME NEW s \in Sessions, SelectPaths(s) PROVE EngineHolds'
    BY <1>4 DEF SelectPaths
  <1>5. ASSUME NEW s \in Sessions, CommitPaths(s) PROVE EngineHolds'
    BY <1>5 DEF CommitPaths, LeaveGit, AfterGit, Leave, Goto
  <1>6. ASSUME NEW s \in Sessions, CommitFails(s) PROVE EngineHolds'
    BY <1>6 DEF CommitFails, LeaveGit, AfterGit, Leave, Goto
  <1>7. ASSUME NEW s \in Sessions, UnclaimRecorded(s) PROVE EngineHolds'
    BY <1>7 DEF UnclaimRecorded, LeaveGit, AfterGit, Leave, Goto
  <1>8. ASSUME NEW s \in Sessions, RunCompleted(s) PROVE EngineHolds'
    BY <1>8 DEF RunCompleted, EndRun, Goto
  <1>9. ASSUME NEW s \in Sessions, RunCancelled(s) PROVE EngineHolds'
    BY <1>9 DEF RunCancelled, EndRun, Goto
  <1>10. ASSUME NEW s \in Sessions, IterationEnds(s) PROVE EngineHolds'
    BY <1>10 DEF IterationEnds, EndRun, Goto
  <1>11. ASSUME NEW s \in Sessions, PlanAfterChanges(s) PROVE EngineHolds'
    BY <1>11 DEF PlanAfterChanges, EndRun, Goto
  <1>12. ASSUME NEW s \in Sessions, PlanWithoutChanges(s) PROVE EngineHolds'
    BY <1>12 DEF PlanWithoutChanges, Release, Goto
  <1>13. ASSUME NEW s \in Sessions, PlanApproved(s) PROVE EngineHolds'
    BY <1>13 DEF PlanApproved, Registered, CanRegister, Goto
  <1>14. ASSUME NEW s \in Sessions, TurnFails(s) PROVE EngineHolds'
    BY <1>14 DEF TurnFails, FailTo, Goto
  <1>15. ASSUME NEW s \in Sessions, SettleRequest(s) PROVE EngineHolds'
    BY <1>15 DEF SettleRequest, Goto
  <1>16. ASSUME NEW s \in Sessions, ReleaseRegistration(s) PROVE EngineHolds'
    BY <1>16 DEF ReleaseRegistration, ReleaseTicket, Release, Goto
  <1>17. ASSUME NEW s \in Sessions, EndTurnClaims(s) PROVE EngineHolds'
    BY <1>17 DEF EndTurnClaims, Goto
  <1>18. ASSUME NEW s \in Sessions, RecoverFailure(s) PROVE EngineHolds'
    BY <1>18 DEF RecoverFailure, ReleaseTicket, Release, Goto
  <1>19. ASSUME NEW s \in Sessions, ClearCurrent(s) PROVE EngineHolds'
    BY <1>19 DEF ClearCurrent, Goto
  <1>20. ASSUME NEW s \in Sessions, NEW k \in Kinds, NEW p \in Paths, AdmitTool(s, k, p)
         PROVE  EngineHolds'
    BY <1>20 DEF AdmitTool
  <1>21. ASSUME NEW p \in Exposed, EditOutside(p) PROVE EngineHolds'
    BY <1>21 DEF EditOutside
  <1>22. ASSUME NEW s \in Sessions,
          \/ EnterTransaction(s) \/ WriteFile(s) \/ LeaveTransaction(s) \/ ClaimResult(s)
          \/ ToolFails(s)
        PROVE EngineHolds'
    BY <1>22 DEF EnterTransaction, Enter, ToolAt, WriteFile, LeaveTransaction, Leave,
       ClaimResult, ToolFails
  <1>23. CASE UNCHANGED vars
    BY <1>23
  <1>24. ASSUME NEW s \in Sessions,
           \/ PlanFeedback(s) \/ FeedbackPlans(s) \/ FeedbackAnswers(s)
           \/ FeedbackCancelled(s) \/ FeedbackFails(s) \/ CancelIdle(s)
         PROVE  EngineHolds'
    BY <1>24 DEF PlanFeedback, FeedbackPlans, FeedbackAnswers, FeedbackCancelled, FeedbackFails,
       Feedback, CancelIdle, Goto
  <1>25. ASSUME NEW s \in Sessions, FeedbackWrites(s) PROVE EngineHolds'
    BY <1>25 DEF FeedbackWrites, Registered, CanRegister, Goto
  <1>26. ASSUME NEW s \in Sessions, ChatRefused(s) PROVE EngineHolds'
    <2>1. cur[s] # None
      BY <1>26 DEF ChatRefused, ToolInFlight
    <2> QED
      BY <1>26, <2>1 DEF ChatRefused, Goto
  <1> QED
    BY <1>1, <1>2, <1>3, <1>4, <1>5, <1>6, <1>7, <1>8, <1>9, <1>10, <1>11, <1>12, <1>13, <1>14,
       <1>15, <1>16, <1>17, <1>18, <1>19, <1>20, <1>21, <1>22, <1>23, <1>24, <1>25,
       <1>26 DEF Next, EngineStep, GitStep, RunEnds, PlanReview, ToolStep

(* Every step changes a registration and the ticket of its session         *)
(* together.                                                               *)
LEMMA RegistrationsStep ==
  ASSUME TypeOK, FreshRequests, EngineHolds, RegistrationsAreTickets, [Next]_vars
  PROVE  RegistrationsAreTickets'
  <1> USE DEF RegistrationsAreTickets, EngineHolds, FreshRequests, TypeOK, CoordinatorTypeOK,
     vars, coordinatorVars, engineVars, gitVars
  <1>1. ASSUME NEW s \in Sessions, RegisterTurn(s) PROVE RegistrationsAreTickets'
    BY <1>1 DEF RegisterTurn, Registered, CanRegister, Goto
  <1>2. ASSUME NEW s \in Sessions, PlanWithoutChanges(s) PROVE RegistrationsAreTickets'
    BY <1>2 DEF PlanWithoutChanges, Release, Goto
  <1>3. ASSUME NEW s \in Sessions, PlanApproved(s) PROVE RegistrationsAreTickets'
    BY <1>3 DEF PlanApproved, Registered, CanRegister, Goto
  <1>4. ASSUME NEW s \in Sessions, ReleaseRegistration(s) PROVE RegistrationsAreTickets'
    BY <1>4 DEF ReleaseRegistration, ReleaseTicket, Release, Goto
  <1>5. ASSUME NEW s \in Sessions, RecoverFailure(s) PROVE RegistrationsAreTickets'
    BY <1>5 DEF RecoverFailure, ReleaseTicket, Release, Goto
  <1>6. ASSUME NEW s \in Sessions, NEW r \in Requests, BeginRequest(s, r)
        PROVE  RegistrationsAreTickets'
    BY <1>6 DEF BeginRequest, Goto
  <1>7. ASSUME NEW s \in Sessions, NEW k \in Kinds, NEW p \in Paths, AdmitTool(s, k, p)
        PROVE  RegistrationsAreTickets'
    BY <1>7 DEF AdmitTool
  <1>8. ASSUME NEW p \in Exposed, EditOutside(p) PROVE RegistrationsAreTickets'
    BY <1>8 DEF EditOutside
  <1>9. ASSUME NEW s \in Sessions,
          \/ EnterGit(s) \/ SelectPaths(s) \/ CommitPaths(s) \/ CommitFails(s)
          \/ UnclaimRecorded(s) \/ RunCompleted(s) \/ RunCancelled(s) \/ IterationEnds(s)
          \/ PlanAfterChanges(s) \/ TurnFails(s) \/ SettleRequest(s) \/ EndTurnClaims(s)
          \/ ClearCurrent(s) \/ EnterTransaction(s) \/ WriteFile(s) \/ LeaveTransaction(s)
          \/ ClaimResult(s) \/ ToolFails(s)
        PROVE RegistrationsAreTickets'
    BY <1>9 DEF EnterGit, Enter, SelectPaths, CommitPaths, LeaveGit, AfterGit, Leave, Goto,
       CommitFails, UnclaimRecorded, RunCompleted, EndRun, RunCancelled, IterationEnds,
       PlanAfterChanges, TurnFails, FailTo, SettleRequest, EndTurnClaims, ClearCurrent,
    EnterTransaction, ToolAt, WriteFile, LeaveTransaction, ClaimResult, ToolFails
  <1>10. CASE UNCHANGED vars
    BY <1>10
  <1>11. ASSUME NEW s \in Sessions,
           \/ PlanFeedback(s) \/ FeedbackPlans(s) \/ FeedbackAnswers(s)
           \/ FeedbackCancelled(s) \/ FeedbackFails(s) \/ CancelIdle(s)
         PROVE  RegistrationsAreTickets'
    BY <1>11 DEF PlanFeedback, FeedbackPlans, FeedbackAnswers, FeedbackCancelled, FeedbackFails,
       Feedback, CancelIdle, Goto
  <1>12. ASSUME NEW s \in Sessions, FeedbackWrites(s) PROVE RegistrationsAreTickets'
    BY <1>12 DEF FeedbackWrites, Registered, CanRegister, Goto
  <1>13. ASSUME NEW s \in Sessions, ChatRefused(s) PROVE RegistrationsAreTickets'
    BY <1>13 DEF ChatRefused, Goto
  <1> QED
    BY <1>1, <1>2, <1>3, <1>4, <1>5, <1>6, <1>7, <1>8, <1>9, <1>10, <1>11, <1>12,
       <1>13 DEF Next, EngineStep, GitStep, RunEnds, PlanReview, ToolStep

(* Every step that takes or gives up the transaction moves the program     *)
(* counter of its thread with it.                                          *)
LEMMA LockHolderStep ==
  ASSUME TypeOK, LockHolder, [Next]_vars
  PROVE  LockHolder'
  <1> USE DEF LockHolder, InTransaction, TypeOK, CoordinatorTypeOK, PathClaim, Edits, Phases,
     GitSteps, ToolSteps, NoSnap, NoTool, WriterKinds, Transactional, ClaimsFirst, vars,
     coordinatorVars, engineVars, gitVars
  <1>1. ASSUME NEW s \in Sessions, EnterGit(s) PROVE LockHolder'
    BY <1>1, ThreadsDiffer DEF EnterGit, Enter
  <1>2. ASSUME NEW s \in Sessions, SelectPaths(s) PROVE LockHolder'
    BY <1>2, ThreadsDiffer DEF SelectPaths
  <1>3. ASSUME NEW s \in Sessions, CommitPaths(s) PROVE LockHolder'
    <2>1. CASE phase[s] = "external"
      BY <1>3, <2>1, ThreadsDiffer DEF CommitPaths, LeaveGit, Leave
    <2>2. CASE phase[s] # "external"
      BY <1>3, <2>2, ThreadsDiffer DEF CommitPaths
    <2> QED
      BY <2>1, <2>2
  <1>4. ASSUME NEW s \in Sessions, CommitFails(s) PROVE LockHolder'
    BY <1>4, ThreadsDiffer DEF CommitFails, LeaveGit, AfterGit, Leave, Goto
  <1>5. ASSUME NEW s \in Sessions, UnclaimRecorded(s) PROVE LockHolder'
    BY <1>5, ThreadsDiffer DEF UnclaimRecorded, LeaveGit, AfterGit, Leave, Goto
  <1>6. ASSUME NEW s \in Sessions, NEW k \in Kinds, NEW p \in Paths, AdmitTool(s, k, p)
        PROVE  LockHolder'
    BY <1>6, ThreadsDiffer DEF AdmitTool
  <1>7. ASSUME NEW s \in Sessions, EnterTransaction(s) PROVE LockHolder'
    BY <1>7, ThreadsDiffer DEF EnterTransaction, Enter, ToolAt
  <1>8. ASSUME NEW s \in Sessions, WriteFile(s) PROVE LockHolder'
    BY <1>8, ThreadsDiffer DEF WriteFile, ToolAt
  <1>9. ASSUME NEW s \in Sessions, LeaveTransaction(s) PROVE LockHolder'
    BY <1>9, ThreadsDiffer DEF LeaveTransaction, Leave, ToolAt
  <1>10. ASSUME NEW s \in Sessions, ClaimResult(s) PROVE LockHolder'
    BY <1>10, ThreadsDiffer DEF ClaimResult
  <1>11. ASSUME NEW s \in Sessions, ToolFails(s) PROVE LockHolder'
    BY <1>11, ThreadsDiffer DEF ToolFails, Leave
  <1>12. ASSUME NEW s \in Sessions, NEW r \in Requests, BeginRequest(s, r) PROVE LockHolder'
    BY <1>12 DEF BeginRequest, Goto
  <1>13. ASSUME NEW p \in Exposed, EditOutside(p) PROVE LockHolder'
    BY <1>13 DEF EditOutside
  <1>14. ASSUME NEW s \in Sessions,
          \/ RegisterTurn(s) \/ RunCompleted(s) \/ RunCancelled(s) \/ IterationEnds(s)
          \/ PlanAfterChanges(s) \/ PlanWithoutChanges(s)
          \/ PlanReview(s) \/ CancelIdle(s) \/ ChatRefused(s) \/ TurnFails(s)
          \/ SettleRequest(s) \/ ReleaseRegistration(s) \/ EndTurnClaims(s) \/ RecoverFailure(s)
          \/ ClearCurrent(s)
        PROVE LockHolder'
    BY <1>14 DEF RegisterTurn, Registered, CanRegister, Goto, RunCompleted, EndRun,
       RunCancelled, IterationEnds, PlanAfterChanges, PlanWithoutChanges, Release, PlanReview,
       PlanApproved, PlanFeedback, FeedbackPlans, FeedbackAnswers, FeedbackCancelled,
    FeedbackFails, FeedbackWrites, Feedback, CancelIdle, ChatRefused, TurnFails, FailTo,
       SettleRequest, ReleaseRegistration, ReleaseTicket, EndTurnClaims, RecoverFailure,
       ClearCurrent
  <1>15. CASE UNCHANGED vars
    BY <1>15
  <1> QED
    BY <1>1, <1>2, <1>3, <1>4, <1>5, <1>6, <1>7, <1>8, <1>9, <1>10, <1>11, <1>12, <1>13, <1>14,
       <1>15 DEF Next, EngineStep, GitStep, RunEnds, PlanReview, ToolStep

(* Every step keeps the tool call with the request it was admitted for.    *)
LEMMA ToolInFlightStep ==
  ASSUME TypeOK, EngineHolds, ToolInFlight, [Next]_vars
  PROVE  ToolInFlight'
  <1> USE DEF ToolInFlight, EngineHolds, InFlight, TypeOK, CoordinatorTypeOK, PathClaim, Edits,
     Phases, GitSteps, ToolSteps, NoSnap, NoTool, WriterKinds, Transactional, ClaimsFirst, vars,
     coordinatorVars, engineVars, gitVars
  <1>0. ASSUME NEW s \in Sessions, git[s] # "out", LeaveGit(s), UNCHANGED <<tool, cur>>
        PROVE  ToolInFlight'
    <2>1. /\ tool' = tool /\ cur' = cur
          /\ next' = [next EXCEPT ![s] = "settle"]
          /\ phase' = [phase EXCEPT ![s] = AfterGit(s)]
      BY <1>0 DEF LeaveGit, Goto
    <2>2. \/ phase[s] = "external" /\ AfterGit(s) = "starting"
          \/ phase[s] = "boundary" /\ AfterGit(s) = "settle"
          \/ phase[s] = "boundary" /\ AfterGit(s) = next[s]
      BY <1>0 DEF AfterGit
    <2>3. CASE phase[s] = "external" /\ AfterGit(s) = "starting"
      <3>1. phase' = [phase EXCEPT ![s] = "starting"]
        BY <2>1, <2>3
      <3> QED
        BY <2>1, <2>3, <3>1
    <2>4. CASE phase[s] = "boundary" /\ AfterGit(s) = "settle"
      <3>1. phase' = [phase EXCEPT ![s] = "settle"]
        BY <2>1, <2>4
      <3> QED
        BY <2>1, <2>4, <3>1
    <2>5. CASE phase[s] = "boundary" /\ AfterGit(s) = next[s]
      <3>1. phase' = [phase EXCEPT ![s] = next[s]]
        BY <2>1, <2>5
      <3> QED
        BY <2>1, <2>5, <3>1
    <2> QED
      BY <2>2, <2>3, <2>4, <2>5
  <1>1. ASSUME NEW s \in Sessions, NEW r \in Requests, BeginRequest(s, r) PROVE ToolInFlight'
    BY <1>1 DEF BeginRequest, Goto
  <1>2. ASSUME NEW s \in Sessions, RegisterTurn(s) PROVE ToolInFlight'
    BY <1>2 DEF RegisterTurn, Registered, CanRegister, Goto
  <1>3. ASSUME NEW s \in Sessions, EnterGit(s) PROVE ToolInFlight'
    BY <1>3 DEF EnterGit, Enter
  <1>4. ASSUME NEW s \in Sessions, SelectPaths(s) PROVE ToolInFlight'
    BY <1>4 DEF SelectPaths
  <1>5. ASSUME NEW s \in Sessions, CommitPaths(s) PROVE ToolInFlight'
    <2>1. CASE phase[s] = "external"
      <3>1. git[s] # "out" /\ LeaveGit(s) /\ UNCHANGED <<tool, cur>>
        BY <1>5, <2>1 DEF CommitPaths
      <3> QED
        BY <1>0, <3>1
    <2>2. CASE phase[s] # "external"
      BY <1>5, <2>2 DEF CommitPaths
    <2> QED
      BY <2>1, <2>2
  <1>6. ASSUME NEW s \in Sessions, CommitFails(s) PROVE ToolInFlight'
    <2>1. git[s] # "out" /\ LeaveGit(s) /\ UNCHANGED <<tool, cur>>
      BY <1>6 DEF CommitFails
    <2> QED
      BY <1>0, <2>1
  <1>7. ASSUME NEW s \in Sessions, UnclaimRecorded(s) PROVE ToolInFlight'
    <2>1. git[s] # "out" /\ LeaveGit(s) /\ UNCHANGED <<tool, cur>>
      BY <1>7 DEF UnclaimRecorded
    <2> QED
      BY <1>0, <2>1
  <1>8. ASSUME NEW s \in Sessions, RunCompleted(s) PROVE ToolInFlight'
    BY <1>8 DEF RunCompleted, EndRun, Goto
  <1>9. ASSUME NEW s \in Sessions, RunCancelled(s) PROVE ToolInFlight'
    BY <1>9 DEF RunCancelled, EndRun, Goto
  <1>10. ASSUME NEW s \in Sessions, IterationEnds(s) PROVE ToolInFlight'
    BY <1>10 DEF IterationEnds, EndRun, Goto
  <1>11. ASSUME NEW s \in Sessions, PlanAfterChanges(s) PROVE ToolInFlight'
    BY <1>11 DEF PlanAfterChanges, EndRun, Goto
  <1>12. ASSUME NEW s \in Sessions, PlanWithoutChanges(s) PROVE ToolInFlight'
    BY <1>12 DEF PlanWithoutChanges, Release, Goto
  <1>13. ASSUME NEW s \in Sessions, TurnFails(s) PROVE ToolInFlight'
    BY <1>13 DEF TurnFails, FailTo, Goto
  <1>14. ASSUME NEW s \in Sessions, NEW k \in Kinds, NEW p \in Paths, AdmitTool(s, k, p)
         PROVE  ToolInFlight'
    BY <1>14 DEF AdmitTool
  <1>15. ASSUME NEW s \in Sessions, ClearCurrent(s) PROVE ToolInFlight'
    BY <1>15 DEF ClearCurrent, Goto
  <1>16. ASSUME NEW s \in Sessions, ToolFails(s) PROVE ToolInFlight'
    BY <1>16 DEF ToolFails, Leave
  <1>17. ASSUME NEW s \in Sessions, ClaimResult(s) PROVE ToolInFlight'
    BY <1>17 DEF ClaimResult
  <1>18. ASSUME NEW s \in Sessions, PlanApproved(s) PROVE ToolInFlight'
    BY <1>18 DEF PlanApproved, Registered, CanRegister, Goto
  <1>19. ASSUME NEW s \in Sessions, WriteFile(s) PROVE ToolInFlight'
    BY <1>19 DEF WriteFile, ToolAt
  <1>20. ASSUME NEW s \in Sessions, SettleRequest(s) PROVE ToolInFlight'
    BY <1>20 DEF SettleRequest, Goto
  <1>21. ASSUME NEW s \in Sessions, EnterTransaction(s) PROVE ToolInFlight'
    BY <1>21 DEF EnterTransaction, Enter, ToolAt
  <1>22. ASSUME NEW s \in Sessions, LeaveTransaction(s) PROVE ToolInFlight'
    BY <1>22 DEF LeaveTransaction, Leave, ToolAt
  <1>23. ASSUME NEW p \in Exposed, EditOutside(p) PROVE ToolInFlight'
    BY <1>23 DEF EditOutside
  <1>24. ASSUME NEW s \in Sessions,
          \/ ReleaseRegistration(s) \/ EndTurnClaims(s) \/ RecoverFailure(s)
        PROVE ToolInFlight'
    <2>1. ASSUME ReleaseRegistration(s) PROVE ToolInFlight'
      BY <2>1 DEF ReleaseRegistration, Goto
    <2>2. ASSUME EndTurnClaims(s) PROVE ToolInFlight'
      BY <2>2 DEF EndTurnClaims, Goto
    <2>3. ASSUME RecoverFailure(s) PROVE ToolInFlight'
      BY <2>3 DEF RecoverFailure, Goto
    <2> QED
      BY <1>24, <2>1, <2>2, <2>3
  <1>25. CASE UNCHANGED vars
    BY <1>25
  <1>26. ASSUME NEW s \in Sessions,
           \/ PlanFeedback(s) \/ FeedbackPlans(s) \/ FeedbackAnswers(s)
           \/ FeedbackCancelled(s) \/ FeedbackFails(s) \/ CancelIdle(s)
         PROVE  ToolInFlight'
    <2>1. ASSUME PlanFeedback(s) PROVE ToolInFlight'
      BY <2>1 DEF PlanFeedback, Feedback, Goto
    <2>2. ASSUME FeedbackPlans(s) PROVE ToolInFlight'
      BY <2>2 DEF FeedbackPlans, Feedback, Goto
    <2>3. ASSUME FeedbackAnswers(s) PROVE ToolInFlight'
      BY <2>3 DEF FeedbackAnswers, Feedback, Goto
    <2>4. ASSUME FeedbackCancelled(s) PROVE ToolInFlight'
      BY <2>4 DEF FeedbackCancelled, Feedback, Goto
    <2>5. ASSUME FeedbackFails(s) PROVE ToolInFlight'
      BY <2>5 DEF FeedbackFails, Feedback, Goto
    <2>6. ASSUME CancelIdle(s) PROVE ToolInFlight'
      BY <2>6 DEF CancelIdle, Goto
    <2> QED
      BY <1>26, <2>1, <2>2, <2>3, <2>4, <2>5, <2>6
  <1>27. ASSUME NEW s \in Sessions, FeedbackWrites(s) PROVE ToolInFlight'
    BY <1>27 DEF FeedbackWrites, Registered, CanRegister, Goto
  <1>28. ASSUME NEW s \in Sessions, ChatRefused(s) PROVE ToolInFlight'
    BY <1>28 DEF ChatRefused, Goto
  <1> QED
    BY <1>1, <1>2, <1>3, <1>4, <1>5, <1>6, <1>7, <1>8, <1>9, <1>10, <1>11, <1>12, <1>13, <1>14,
       <1>15, <1>16, <1>17, <1>18, <1>19, <1>20, <1>21, <1>22, <1>23, <1>24, <1>25, <1>26,
       <1>27, <1>28 DEF Next, EngineStep, GitStep, RunEnds, PlanReview, ToolStep

(* The calls of TypeOK. *)
ToolCalls == [step : ToolSteps, req : Requests \cup {None},
              kind : WriterKinds \cup {"none"}, path : Paths \cup {None}]

(* Moving a call to its next step keeps it a call.                         *)
LEMMA ToolAtType ==
  ASSUME TypeOK, NEW s \in Sessions, NEW step \in ToolSteps, ToolAt(s, step)
  PROVE  tool' \in [Sessions -> ToolCalls]
  <1>1. tool \in [Sessions -> ToolCalls]
    BY DEF TypeOK, ToolCalls
  <1>2. tool[s] \in ToolCalls
    BY <1>1
  <1> DEFINE moved == [tool[s] EXCEPT !.step = step]
  <1>3. moved \in ToolCalls
    BY <1>2 DEF ToolCalls
  <1>4. tool' = [tool EXCEPT ![s] = moved]
    BY DEF ToolAt
  <1> QED
    BY <1>1, <1>3, <1>4

(* Selecting paths keeps the snapshot a snapshot.                          *)
LEMMA SnapType ==
  ASSUME TypeOK, NEW s \in Sessions, SelectPaths(s)
  PROVE  snap' \in [Sessions -> [others : SUBSET Paths, mine : SUBSET Paths,
                                 sel : SUBSET Paths]]
  <1> DEFINE Snaps == [others : SUBSET Paths, mine : SUBSET Paths, sel : SUBSET Paths]
  <1>1. snap \in [Sessions -> Snaps]
    BY DEF TypeOK
  <1>2. Selection(s) \in SUBSET Paths
    BY DEF Selection, Dirty, TypeOK, Edits
  <1> DEFINE selected == [snap[s] EXCEPT !.sel = Selection(s)]
  <1>3. selected \in Snaps
    BY <1>1, <1>2
  <1>4. snap' = [snap EXCEPT ![s] = selected]
    BY DEF SelectPaths
  <1> HIDE DEF selected
  <1> QED
    BY <1>1, <1>3, <1>4

(* Every step keeps the variables in their types.                          *)
LEMMA TypeStep ==
  ASSUME TypeOK, EngineHolds, ToolInFlight, [Next]_vars
  PROVE  TypeOK'
  <1> USE DEF TypeOK, CoordinatorTypeOK, PathClaim, Edits, Phases, GitSteps, ToolSteps, NoSnap,
     NoTool, WriterKinds, Transactional, ClaimsFirst, vars, coordinatorVars, engineVars, gitVars
  <1>1. ASSUME NEW s \in Sessions, NEW r \in Requests, BeginRequest(s, r) PROVE TypeOK'
    BY <1>1, WithoutSessionFacts DEF BeginRequest, Goto
  <1>2. ASSUME NEW s \in Sessions, RegisterTurn(s) PROVE TypeOK'
    BY <1>2 DEF RegisterTurn, Registered, CanRegister, Goto
  <1>3. ASSUME NEW s \in Sessions, EnterGit(s) PROVE TypeOK'
    <2>1. /\ ClaimedInFlight \in SUBSET Paths
          /\ ClaimedByOthers(cur[s]) \in SUBSET Paths
          /\ ClaimedBy(cur[s]) \in SUBSET Paths
      BY <1>3, CurrentRequest DEF ClaimedInFlight, ClaimedByOthers, ClaimedBy, EnterGit
    <2> QED
      BY <1>3, <2>1, ThreadsDiffer DEF EnterGit, Enter
  <1>4. ASSUME NEW s \in Sessions, SelectPaths(s) PROVE TypeOK'
    <2>2. snap' \in [Sessions -> [others : SUBSET Paths, mine : SUBSET Paths,
                                  sel : SUBSET Paths]]
      BY <1>4, SnapType
    <2> QED
      BY <1>4, <2>2 DEF SelectPaths
  <1>5. ASSUME NEW s \in Sessions, CommitPaths(s) PROVE TypeOK'
    <2>1. CASE phase[s] = "external"
      <3>1. edits' \subseteq Edits
        BY <1>5 DEF CommitPaths
      <3>2. AfterGit(s) = "starting"
        BY <2>1 DEF AfterGit
      <3>3. LeaveGit(s) /\ UNCHANGED <<active, claims, used, cur, ticket, plan, tool, journal>>
        BY <1>5, <2>1 DEF CommitPaths
      <3> QED
        BY <3>1, <3>2, <3>3 DEF LeaveGit, Leave, Goto
    <2>2. CASE phase[s] # "external"
      BY <1>5, <2>2 DEF CommitPaths
    <2> QED
      BY <2>1, <2>2
  <1>6. ASSUME NEW s \in Sessions, CommitFails(s) PROVE TypeOK'
    BY <1>6 DEF CommitFails, LeaveGit, AfterGit, Leave, Goto
  <1>7. ASSUME NEW s \in Sessions, UnclaimRecorded(s) PROVE TypeOK'
    <2>1. claims' \in [Requests -> PathClaim]
      <3>1. cur[s] \in Requests
        BY <1>7, CurrentRequest DEF UnclaimRecorded
      <3>2. WithoutPaths(cur[s], ClaimedBy(cur[s]) \ Dirty) \in [Requests -> PathClaim]
        BY <3>1, UnclaimFacts
      <3> QED
        BY <1>7, <3>2 DEF UnclaimRecorded
    <2> QED
      BY <1>7, <2>1 DEF UnclaimRecorded, LeaveGit, AfterGit, Leave, Goto
  <1>8. ASSUME NEW s \in Sessions, RunCompleted(s) PROVE TypeOK'
    BY <1>8 DEF RunCompleted, EndRun, Goto
  <1>9. ASSUME NEW s \in Sessions, RunCancelled(s) PROVE TypeOK'
    BY <1>9 DEF RunCancelled, EndRun, Goto
  <1>10. ASSUME NEW s \in Sessions, IterationEnds(s) PROVE TypeOK'
    BY <1>10 DEF IterationEnds, EndRun, Goto
  <1>11. ASSUME NEW s \in Sessions, PlanAfterChanges(s) PROVE TypeOK'
    BY <1>11 DEF PlanAfterChanges, EndRun, Goto
  <1>12. ASSUME NEW s \in Sessions, PlanWithoutChanges(s) PROVE TypeOK'
    BY <1>12, CurrentRequest, WithoutRequestFacts DEF PlanWithoutChanges, Release, Goto
  <1>13. ASSUME NEW s \in Sessions, PlanApproved(s) PROVE TypeOK'
    BY <1>13 DEF PlanApproved, Registered, CanRegister, Goto
  <1>14. ASSUME NEW s \in Sessions, TurnFails(s) PROVE TypeOK'
    BY <1>14 DEF TurnFails, FailTo, Goto
  <1>15. ASSUME NEW s \in Sessions, SettleRequest(s) PROVE TypeOK'
    BY <1>15 DEF SettleRequest, Goto
  <1>16. ASSUME NEW s \in Sessions, ReleaseRegistration(s) PROVE TypeOK'
    <2>1. CASE ticket[s] = None
      BY <1>16, <2>1 DEF ReleaseRegistration, ReleaseTicket, Goto
    <2>2. CASE ticket[s] # None
      <3>1. ticket[s] \in Requests /\ CoordinatorTypeOK
        BY <2>2, CurrentRequest
      <3>2. WithoutRequest(ticket[s]) \in [Requests -> PathClaim]
        BY <3>1, WithoutRequestFacts
      <3> QED
        BY <1>16, <2>2, <3>1, <3>2 DEF ReleaseRegistration, ReleaseTicket, Release, Goto
    <2> QED
      BY <2>1, <2>2
  <1>17. ASSUME NEW s \in Sessions, EndTurnClaims(s) PROVE TypeOK'
    BY <1>17, CurrentRequest, WithoutRequestFacts DEF EndTurnClaims, Goto
  <1>18. ASSUME NEW s \in Sessions, RecoverFailure(s) PROVE TypeOK'
    <2>1. CASE ticket[s] = None
      BY <1>18, <2>1 DEF RecoverFailure, ReleaseTicket, Goto
    <2>2. CASE ticket[s] # None
      <3>1. ticket[s] \in Requests /\ CoordinatorTypeOK
        BY <2>2, CurrentRequest
      <3>2. WithoutRequest(ticket[s]) \in [Requests -> PathClaim]
        BY <3>1, WithoutRequestFacts
      <3> QED
        BY <1>18, <2>2, <3>1, <3>2 DEF RecoverFailure, ReleaseTicket, Release, Goto
    <2> QED
      BY <2>1, <2>2
  <1>19. ASSUME NEW s \in Sessions, ClearCurrent(s) PROVE TypeOK'
    BY <1>19 DEF ClearCurrent, Goto
  <1>20. ASSUME NEW s \in Sessions, NEW k \in Kinds, NEW p \in Paths, AdmitTool(s, k, p)
         PROVE  TypeOK'
    <2> DEFINE ps == IF k \in ClaimsFirst THEN {p} ELSE {}
    <2>1. ps \in SUBSET Paths /\ cur[s] \in Requests /\ CoordinatorTypeOK
      BY <1>20, CurrentRequest DEF AdmitTool
    <2>2. claims' = WithClaim(s, cur[s], ps)
      BY <1>20 DEF AdmitTool
    <2> HIDE DEF ps
    <2>3. claims' \in [Requests -> PathClaim]
      BY <2>1, <2>2, WithClaimFacts
    <2> QED
      BY <1>20, <2>1, <2>3 DEF AdmitTool
  <1>21. ASSUME NEW s \in Sessions, EnterTransaction(s) PROVE TypeOK'
    <2>1. tool' \in [Sessions -> [step : ToolSteps, req : Requests \cup {None},
                                  kind : WriterKinds \cup {"none"},
                                  path : Paths \cup {None}]]
      BY <1>21, ToolAtType DEF EnterTransaction, ToolCalls
    <2> QED
      BY <1>21, <2>1, ThreadsDiffer DEF EnterTransaction, Enter
  <1>22. ASSUME NEW s \in Sessions, WriteFile(s) PROVE TypeOK'
    <2>1. tool' \in [Sessions -> [step : ToolSteps, req : Requests \cup {None},
                                  kind : WriterKinds \cup {"none"},
                                  path : Paths \cup {None}]]
      BY <1>22, ToolAtType DEF WriteFile, ToolCalls
    <2>2. tool[s].req \in Requests /\ tool[s].path \in Paths /\ tool[s].kind \in WriterKinds
      BY <1>22 DEF WriteFile, ToolInFlight
    <2>3. edits' \subseteq Edits
      BY <1>22, <2>2 DEF WriteFile
    <2>4. journal' \in [Requests -> SUBSET Paths]
      BY <1>22, <2>2 DEF WriteFile
    <2> QED
      BY <1>22, <2>1, <2>3, <2>4 DEF WriteFile
  <1>23. ASSUME NEW s \in Sessions, LeaveTransaction(s) PROVE TypeOK'
    <2>1. tool' \in [Sessions -> [step : ToolSteps, req : Requests \cup {None},
                                  kind : WriterKinds \cup {"none"},
                                  path : Paths \cup {None}]]
      BY <1>23, ToolAtType DEF LeaveTransaction, ToolCalls
    <2> QED
      BY <1>23, <2>1 DEF LeaveTransaction, Leave
  <1>24. ASSUME NEW s \in Sessions, ClaimResult(s) PROVE TypeOK'
    <2> DEFINE ps == IF tool[s].kind \in Transactional
                     THEN journal[tool[s].req] ELSE {tool[s].path}
    <2>1. ps \in SUBSET Paths /\ tool[s].req \in Requests /\ CoordinatorTypeOK
      BY <1>24, CurrentRequest DEF ClaimResult
    <2>2. claims' = IF cur[s] = tool[s].req THEN WithClaim(s, tool[s].req, ps) ELSE claims
      BY <1>24 DEF ClaimResult
    <2> HIDE DEF ps
    <2>3. claims' \in [Requests -> PathClaim]
      BY <2>1, <2>2, WithClaimFacts
    <2> QED
      BY <1>24, <2>3 DEF ClaimResult
  <1>25. ASSUME NEW s \in Sessions, ToolFails(s) PROVE TypeOK'
    BY <1>25 DEF ToolFails, Leave
  <1>26. ASSUME NEW p \in Exposed, EditOutside(p) PROVE TypeOK'
    BY <1>26 DEF EditOutside
  <1>27. CASE UNCHANGED vars
    BY <1>27
  <1>28. ASSUME NEW s \in Sessions,
           \/ PlanFeedback(s) \/ FeedbackPlans(s) \/ FeedbackAnswers(s)
           \/ FeedbackCancelled(s) \/ FeedbackFails(s) \/ CancelIdle(s)
         PROVE  TypeOK'
    BY <1>28, ZenonT(40) DEF PlanFeedback, FeedbackPlans, FeedbackAnswers, FeedbackCancelled, FeedbackFails,
       Feedback, CancelIdle, Goto
  <1>29. ASSUME NEW s \in Sessions, FeedbackWrites(s) PROVE TypeOK'
    BY <1>29 DEF FeedbackWrites, Registered, CanRegister, Goto
  <1>30. ASSUME NEW s \in Sessions, ChatRefused(s) PROVE TypeOK'
    <2>1. cur[s] \in Requests
      BY <1>30, CurrentRequest DEF ChatRefused
    <2>2. claims' \in [Requests -> PathClaim]
      BY <1>30, <2>1, WithoutRequestFacts DEF ChatRefused
    <2> QED
      BY <1>30, <2>2 DEF ChatRefused, Goto
  <1> QED
    BY <1>1, <1>2, <1>3, <1>4, <1>5, <1>6, <1>7, <1>8, <1>9, <1>10, <1>11, <1>12, <1>13, <1>14,
       <1>15, <1>16, <1>17, <1>18, <1>19, <1>20, <1>21, <1>22, <1>23, <1>24, <1>25, <1>26,
       <1>27, <1>28, <1>29, <1>30 DEF Next, EngineStep, GitStep, RunEnds, PlanReview, ToolStep

(* How a session comes to be about to run, and to be in flight. *)
FlightChange(s) ==
    /\ phase'[s] \in {"external", "starting"} =>
         \/ phase[s] \in {"external", "starting"} /\ cur'[s] = cur[s]
         \/ cur'[s] \in Requests \ used /\ edits' = edits
    /\ InFlight(s)' =>
         /\ cur'[s] = cur[s]
         /\ \/ InFlight(s)
            \/ phase[s] = "starting" /\ edits' = edits /\ tool' = tool

(* Every step makes a session run, or about to run, only in those ways.    *)
LEMMA FlightStep ==
  ASSUME TypeOK, EngineHolds, [Next]_vars, NEW s \in Sessions
  PROVE  FlightChange(s)
  <1> USE DEF FlightChange, InFlight
  <1>1. ASSUME phase' = phase, next' = next, cur' = cur PROVE FlightChange(s)
    BY <1>1
  <1>2. ASSUME NEW o \in Sessions, NEW r \in Requests, BeginRequest(o, r) PROVE FlightChange(s)
    BY <1>2 DEF BeginRequest, Goto, TypeOK, EngineHolds, engineVars
  <1>3. ASSUME NEW o \in Sessions, RegisterTurn(o) PROVE FlightChange(s)
    BY <1>3 DEF RegisterTurn, Registered, CanRegister, Goto, TypeOK, EngineHolds, engineVars
  <1>4. ASSUME NEW o \in Sessions, CommitPaths(o) PROVE FlightChange(s)
    <2>1. CASE phase[o] = "external"
      <3>1. phase' = [phase EXCEPT ![o] = "starting"]
        BY <1>4, <2>1 DEF CommitPaths, LeaveGit, AfterGit, Goto
      <3>2. cur' = cur /\ \A q \in Sessions \ {o} : next'[q] = next[q]
        BY <1>4, <2>1 DEF CommitPaths, LeaveGit, TypeOK
      <3> QED
        BY <3>1, <3>2, <2>1 DEF TypeOK
    <2>2. CASE phase[o] # "external"
      BY <1>1, <1>4, <2>2 DEF CommitPaths
    <2> QED
      BY <2>1, <2>2
  <1>5. ASSUME NEW o \in Sessions, CommitFails(o) PROVE FlightChange(s)
    BY <1>5 DEF CommitFails, LeaveGit, AfterGit, Leave, Goto, TypeOK, EngineHolds, engineVars
  <1>6. ASSUME NEW o \in Sessions, UnclaimRecorded(o) PROVE FlightChange(s)
    BY <1>6 DEF UnclaimRecorded, LeaveGit, AfterGit, Leave, Goto, TypeOK, EngineHolds, engineVars
  <1>7. ASSUME NEW o \in Sessions, RunCompleted(o) PROVE FlightChange(s)
    BY <1>7 DEF RunCompleted, EndRun, Goto, TypeOK, EngineHolds, engineVars
  <1>8. ASSUME NEW o \in Sessions, RunCancelled(o) PROVE FlightChange(s)
    BY <1>8 DEF RunCancelled, EndRun, Goto, TypeOK, EngineHolds, engineVars
  <1>9. ASSUME NEW o \in Sessions, IterationEnds(o) PROVE FlightChange(s)
    BY <1>9 DEF IterationEnds, EndRun, Goto, TypeOK, EngineHolds, engineVars
  <1>10. ASSUME NEW o \in Sessions, PlanAfterChanges(o) PROVE FlightChange(s)
    BY <1>10 DEF PlanAfterChanges, EndRun, Goto, TypeOK, EngineHolds, engineVars
  <1>11. ASSUME NEW o \in Sessions, PlanWithoutChanges(o) PROVE FlightChange(s)
    BY <1>11 DEF PlanWithoutChanges, Release, Goto, TypeOK, EngineHolds, engineVars
  <1>12. ASSUME NEW o \in Sessions, PlanApproved(o) PROVE FlightChange(s)
    BY <1>12 DEF PlanApproved, Registered, CanRegister, Goto, TypeOK, EngineHolds, engineVars
  <1>13. ASSUME NEW o \in Sessions, TurnFails(o) PROVE FlightChange(s)
    BY <1>13 DEF TurnFails, FailTo, Goto, TypeOK, EngineHolds, engineVars
  <1>14. ASSUME NEW o \in Sessions, SettleRequest(o) PROVE FlightChange(s)
    BY <1>14 DEF SettleRequest, Goto, TypeOK, EngineHolds, engineVars
  <1>15. ASSUME NEW o \in Sessions, ReleaseRegistration(o) PROVE FlightChange(s)
    BY <1>15 DEF ReleaseRegistration, ReleaseTicket, Release, Goto, TypeOK, EngineHolds,
       engineVars
  <1>16. ASSUME NEW o \in Sessions, EndTurnClaims(o) PROVE FlightChange(s)
    BY <1>16 DEF EndTurnClaims, Goto, TypeOK, EngineHolds, engineVars
  <1>17. ASSUME NEW o \in Sessions, RecoverFailure(o) PROVE FlightChange(s)
    BY <1>17 DEF RecoverFailure, ReleaseTicket, Release, Goto, TypeOK, EngineHolds, engineVars
  <1>18. ASSUME NEW o \in Sessions, ClearCurrent(o) PROVE FlightChange(s)
    BY <1>18 DEF ClearCurrent, Goto, TypeOK, EngineHolds, engineVars
  <1>19. ASSUME NEW o \in Sessions,
          \/ \E k \in Kinds, p \in Paths : AdmitTool(o, k, p)
          \/ EnterGit(o) \/ SelectPaths(o) \/ ToolStep(o)
        PROVE  phase' = phase /\ next' = next /\ cur' = cur
    BY <1>19 DEF EnterGit, SelectPaths, AdmitTool, ToolStep, EnterTransaction, WriteFile,
       LeaveTransaction, ClaimResult, ToolFails, engineVars
  <1>20. CASE (\E p \in Exposed : EditOutside(p)) \/ UNCHANGED vars
    BY <1>1, <1>20 DEF EditOutside, vars, engineVars
  <1>21. ASSUME NEW o \in Sessions,
           \/ PlanFeedback(o) \/ FeedbackPlans(o) \/ FeedbackAnswers(o)
           \/ FeedbackCancelled(o) \/ FeedbackFails(o) \/ CancelIdle(o)
         PROVE  FlightChange(s)
    BY <1>21 DEF PlanFeedback, FeedbackPlans, FeedbackAnswers, FeedbackCancelled, FeedbackFails,
       Feedback, CancelIdle, Goto, TypeOK, EngineHolds, engineVars
  <1>22. ASSUME NEW o \in Sessions, FeedbackWrites(o) PROVE FlightChange(s)
    BY <1>22 DEF FeedbackWrites, Registered, CanRegister, Goto, TypeOK, EngineHolds, engineVars
  <1>23. ASSUME NEW o \in Sessions, ChatRefused(o) PROVE FlightChange(s)
    BY <1>23 DEF ChatRefused, Goto, TypeOK, EngineHolds, engineVars
  <1> QED
    BY <1>1, <1>2, <1>3, <1>4, <1>5, <1>6, <1>7, <1>8, <1>9, <1>10, <1>11, <1>12, <1>13, <1>14,
       <1>15, <1>16, <1>17, <1>18, <1>19, <1>20, <1>21, <1>22, <1>23 DEF Next, EngineStep,
       GitStep, RunEnds, PlanReview

(* Who may take a path from the claims of a request. *)
PathsChange(r) ==
    \/ claims[r].paths \subseteq claims'[r].paths
    \/ \E s \in Sessions : phase[s] = "idle" /\ claims[r].session = s
    \/ \E s \in Sessions :
         /\ r = cur[s]
         /\ \/ phase[s] \in {"idle", "release", "ending", "recover", "abandon"}
            \/ phase[s] = "running" /\ tool[s].step = "none" /\ journal[r] = {}
            \/ /\ git[s] = "committed" /\ git'[s] = "out" /\ edits' = edits
               /\ claims[r].paths \cap Dirty \subseteq claims'[r].paths

(* Every step takes paths from a claim only in those ways.                 *)
LEMMA PathsStep ==
  ASSUME TypeOK, EngineHolds, ToolInFlight, [Next]_vars, NEW r \in Requests
  PROVE  PathsChange(r)
  <1> USE DEF PathsChange
  <1>1. ASSUME NEW s \in Sessions, NEW q \in Requests, BeginRequest(s, q) PROVE PathsChange(r)
    BY <1>1, CurrentRequest, WithoutSessionFacts DEF BeginRequest
  <1>2. ASSUME NEW s \in Sessions, UnclaimRecorded(s) PROVE PathsChange(r)
    <2>1. cur[s] \in Requests
      BY <1>2, CurrentRequest DEF UnclaimRecorded
    <2>2. git[s] = "committed" /\ git'[s] = "out" /\ edits' = edits
      BY <1>2 DEF UnclaimRecorded, LeaveGit, TypeOK
    <2>3. CASE claims' = claims
      BY <2>3
    <2>4. CASE claims' = WithoutPaths(cur[s], ClaimedBy(cur[s]) \ Dirty)
      BY <2>1, <2>2, <2>4, UnclaimFacts DEF ClaimedBy
    <2> QED
      BY <1>2, <2>3, <2>4 DEF UnclaimRecorded
  <1>3. ASSUME NEW s \in Sessions, PlanWithoutChanges(s) PROVE PathsChange(r)
    BY <1>3, CurrentRequest, WithoutRequestFacts DEF PlanWithoutChanges, Release
  <1>4. ASSUME NEW s \in Sessions, ReleaseRegistration(s) PROVE PathsChange(r)
    BY <1>4, CurrentRequest, WithoutRequestFacts DEF ReleaseRegistration, ReleaseTicket, Release
  <1>5. ASSUME NEW s \in Sessions, EndTurnClaims(s) PROVE PathsChange(r)
    BY <1>5, CurrentRequest, WithoutRequestFacts DEF EndTurnClaims
  <1>6. ASSUME NEW s \in Sessions, RecoverFailure(s) PROVE PathsChange(r)
    BY <1>6, CurrentRequest, WithoutRequestFacts DEF RecoverFailure, ReleaseTicket, Release
  <1>7. ASSUME NEW s \in Sessions, NEW q \in Requests, NEW ps \in SUBSET Paths,
               claims' = WithClaim(s, q, ps)
        PROVE  PathsChange(r)
    BY <1>7, CurrentRequest, WithClaimFacts
  <1>8. ASSUME NEW s \in Sessions, NEW k \in Kinds, NEW p \in Paths, AdmitTool(s, k, p)
        PROVE  PathsChange(r)
    <2> DEFINE ps == IF k \in ClaimsFirst THEN {p} ELSE {}
    <2>1. ps \in SUBSET Paths /\ cur[s] \in Requests /\ claims' = WithClaim(s, cur[s], ps)
      BY <1>8, CurrentRequest DEF AdmitTool
    <2> HIDE DEF ps
    <2> QED
      BY <1>7, <2>1
  <1>9. ASSUME NEW s \in Sessions, ClaimResult(s) PROVE PathsChange(r)
    <2> DEFINE ps == IF tool[s].kind \in Transactional
                     THEN journal[tool[s].req] ELSE {tool[s].path}
    <2>1. /\ ps \in SUBSET Paths /\ cur[s] \in Requests
          /\ claims' = WithClaim(s, cur[s], ps)
      BY <1>9, CurrentRequest DEF ClaimResult, TypeOK
    <2> HIDE DEF ps
    <2> QED
      BY <1>7, <2>1
  <1>10. ASSUME NEW s \in Sessions,
          \/ RegisterTurn(s) \/ EnterGit(s) \/ SelectPaths(s) \/ CommitPaths(s)
          \/ CommitFails(s) \/ RunCompleted(s) \/ RunCancelled(s) \/ IterationEnds(s)
          \/ PlanAfterChanges(s)
          \/ PlanReview(s) \/ CancelIdle(s) \/ TurnFails(s) \/ SettleRequest(s)
          \/ ClearCurrent(s) \/ EnterTransaction(s) \/ WriteFile(s) \/ LeaveTransaction(s)
          \/ ToolFails(s)
        PROVE  PathsChange(r)
    BY <1>10 DEF RegisterTurn, EnterGit, SelectPaths, CommitPaths, LeaveGit, CommitFails,
       RunCompleted, EndRun, RunCancelled, IterationEnds, PlanAfterChanges, PlanReview,
       PlanApproved, PlanFeedback, FeedbackPlans, FeedbackAnswers, FeedbackCancelled,
    FeedbackFails, FeedbackWrites, Feedback, CancelIdle, ChatRefused, TurnFails, SettleRequest,
       ClearCurrent, EnterTransaction, WriteFile, LeaveTransaction, ToolFails, coordinatorVars
  <1>11. CASE (\E p \in Exposed : EditOutside(p)) \/ UNCHANGED vars
    BY <1>11 DEF EditOutside, vars, coordinatorVars
  <1>12. ASSUME NEW s \in Sessions, ChatRefused(s) PROVE PathsChange(r)
    BY <1>12, CurrentRequest, WithoutRequestFacts DEF ChatRefused
  <1> QED
    BY <1>1, <1>2, <1>3, <1>4, <1>5, <1>6, <1>8, <1>9, <1>10, <1>11, <1>12
       DEF Next, EngineStep, GitStep, RunEnds, PlanReview, ToolStep

(* A journal is only emptied by settling its request. *)
LEMMA JournalStep ==
  ASSUME TypeOK, EngineHolds, ToolInFlight, [Next]_vars, NEW r \in Requests
  PROVE  journal[r] \subseteq journal'[r] \/ \E s \in Sessions : phase[s] = "settle" /\ r = cur[s]
  <1> DEFINE Goal == journal[r] \subseteq journal'[r]
                     \/ \E s \in Sessions : phase[s] = "settle" /\ r = cur[s]
  <1>1. ASSUME NEW s \in Sessions, SettleRequest(s) PROVE Goal
    BY <1>1, CurrentRequest DEF SettleRequest, TypeOK
  <1>2. ASSUME NEW s \in Sessions, WriteFile(s) PROVE Goal
    BY <1>2, CurrentRequest DEF WriteFile, TypeOK
  <1>3. ASSUME NEW s \in Sessions, NEW q \in Requests, BeginRequest(s, q) PROVE Goal
    BY <1>3 DEF BeginRequest
  <1>4. ASSUME NEW s \in Sessions, NEW k \in Kinds, NEW p \in Paths, AdmitTool(s, k, p) PROVE Goal
    BY <1>4 DEF AdmitTool
  <1>5. ASSUME NEW s \in Sessions,
          \/ RegisterTurn(s) \/ EnterGit(s) \/ SelectPaths(s) \/ CommitPaths(s)
          \/ CommitFails(s) \/ UnclaimRecorded(s) \/ RunCompleted(s) \/ RunCancelled(s)
          \/ IterationEnds(s) \/ PlanAfterChanges(s) \/ PlanWithoutChanges(s)
          \/ PlanReview(s) \/ CancelIdle(s) \/ ChatRefused(s)
          \/ TurnFails(s) \/ ReleaseRegistration(s) \/ EndTurnClaims(s) \/ RecoverFailure(s)
          \/ ClearCurrent(s) \/ EnterTransaction(s) \/ LeaveTransaction(s) \/ ClaimResult(s)
          \/ ToolFails(s)
        PROVE  Goal
    BY <1>5 DEF RegisterTurn, EnterGit, SelectPaths, CommitPaths, LeaveGit, CommitFails,
       UnclaimRecorded, RunCompleted, EndRun, RunCancelled, IterationEnds, PlanAfterChanges,
       PlanWithoutChanges, Release, PlanReview, PlanApproved, PlanFeedback, FeedbackPlans,
    FeedbackAnswers, FeedbackCancelled, FeedbackFails, FeedbackWrites, Feedback, CancelIdle,
       ChatRefused, TurnFails, ReleaseRegistration, ReleaseTicket, EndTurnClaims,
       RecoverFailure, ClearCurrent, EnterTransaction, LeaveTransaction, ClaimResult, ToolFails
  <1>6. CASE (\E p \in Exposed : EditOutside(p)) \/ UNCHANGED vars
    BY <1>6 DEF EditOutside, vars
  <1> QED
    BY <1>1, <1>2, <1>3, <1>4, <1>5, <1>6 DEF Next, EngineStep, GitStep, RunEnds, PlanReview,
       ToolStep

(* A request in flight keeps its claims on every path it has dirtied.      *)
LEMMA InFlightKeeps ==
  ASSUME TypeOK, FreshRequests, EngineHolds, ToolInFlight, ClaimOwners, SourceClaimed, [Next]_vars,
         NEW s \in Sessions, InFlight(s), NEW p \in claims[cur[s]].paths,
         \/ \E e \in edits : e \in edits' /\ SourceEdit(e, s) /\ e.path = p
         \/ tool[s].step # "none"
  PROVE  p \in claims'[cur[s]].paths
  <1>1. cur[s] \in Requests /\ PathsChange(cur[s])
    BY CurrentRequest, PathsStep DEF InFlight
  <1>2. \A o \in Sessions : cur[o] = cur[s] => o = s
    BY <1>1 DEF FreshRequests
  <1>3. CASE \E o \in Sessions : phase[o] = "idle" /\ claims[cur[s]].session = o
    BY <1>1, <1>2, <1>3 DEF ClaimOwners, InFlight
  <1>4. CASE \E o \in Sessions :
               /\ cur[s] = cur[o]
               /\ phase[o] \in {"idle", "release", "ending", "recover", "abandon"}
    BY <1>2, <1>4 DEF InFlight
  <1>5. CASE phase[s] = "running" /\ tool[s].step = "none" /\ journal[cur[s]] = {}
    BY <1>5 DEF SourceClaimed
  <1>6. CASE /\ git[s] = "committed" /\ edits' = edits
             /\ claims[cur[s]].paths \cap Dirty \subseteq claims'[cur[s]].paths
    <2>1. tool[s].step = "none"
      BY <1>6 DEF EngineHolds, ToolInFlight
    <2> QED
      BY <1>6, <2>1 DEF Dirty
  <1> QED
    BY <1>1, <1>2, <1>3, <1>4, <1>5, <1>6 DEF PathsChange

(* A source call is about to write only if it was admitted for that path.  *)
LEMMA CallStep ==
  ASSUME TypeOK, [Next]_vars, NEW s \in Sessions, tool'[s].step \in {"admitted", "inside"}
  PROVE  \/ /\ tool[s].step \in {"admitted", "inside"}
            /\ tool'[s].kind = tool[s].kind
            /\ tool'[s].path = tool[s].path
         \/ \E k \in Kinds, p \in Paths : AdmitTool(s, k, p)
  <1> DEFINE Goal == \/ /\ tool[s].step \in {"admitted", "inside"}
                        /\ tool'[s].kind = tool[s].kind
                        /\ tool'[s].path = tool[s].path
                     \/ \E k \in Kinds, p \in Paths : AdmitTool(s, k, p)
  <1> tool \in [Sessions -> ToolCalls]
    BY DEF TypeOK, ToolCalls
  <1>1. CASE tool' = tool
    BY <1>1
  <1>2. ASSUME NEW o \in Sessions, NEW k \in Kinds, NEW p \in Paths, AdmitTool(o, k, p) PROVE Goal
    BY <1>2 DEF AdmitTool
  <1>3. ASSUME NEW o \in Sessions, NEW step \in ToolSteps, ToolAt(o, step),
               o = s => tool[s].step \in {"admitted", "inside"} \/ step \notin {"admitted", "inside"}
        PROVE  Goal
    BY <1>3 DEF ToolAt, ToolCalls
  <1>4. ASSUME NEW o \in Sessions, EnterTransaction(o) PROVE Goal
    BY <1>3, <1>4 DEF EnterTransaction, ToolSteps
  <1>5. ASSUME NEW o \in Sessions, WriteFile(o) PROVE Goal
    BY <1>3, <1>5 DEF WriteFile, ToolSteps
  <1>6. ASSUME NEW o \in Sessions, LeaveTransaction(o) PROVE Goal
    BY <1>3, <1>6 DEF LeaveTransaction, ToolSteps
  <1>7. ASSUME NEW o \in Sessions, ClaimResult(o) \/ ToolFails(o) PROVE Goal
    BY <1>7 DEF ClaimResult, ToolFails, NoTool
  <1>8. ASSUME NEW o \in Sessions, NEW r \in Requests, BeginRequest(o, r) PROVE tool' = tool
    BY <1>8 DEF BeginRequest
  <1>9. ASSUME NEW o \in Sessions,
               EngineStep(o) \/ GitStep(o) \/ RunEnds(o) \/ PlanReview(o) \/ CancelIdle(o) \/ ChatRefused(o)
        PROVE  tool' = tool
    BY <1>9 DEF EngineStep, GitStep, RunEnds, RegisterTurn, EnterGit, SelectPaths, CommitPaths,
       LeaveGit, CommitFails, UnclaimRecorded, RunCompleted, EndRun, RunCancelled, IterationEnds,
       PlanAfterChanges, PlanWithoutChanges, PlanReview, PlanApproved, PlanFeedback,
       FeedbackPlans, FeedbackAnswers, FeedbackCancelled, FeedbackFails, FeedbackWrites,
          Feedback, CancelIdle, ChatRefused, TurnFails, SettleRequest,
       ReleaseRegistration, EndTurnClaims, RecoverFailure, ClearCurrent
  <1>10. CASE (\E p \in Exposed : EditOutside(p)) \/ UNCHANGED vars
    BY <1>1, <1>10 DEF EditOutside, vars
  <1> QED
    BY <1>1, <1>2, <1>4, <1>5, <1>6, <1>7, <1>8, <1>9, <1>10 DEF Next, ToolStep

(* Whose edit a new edit of the work tree is. *)
LEMMA NewEdit ==
  ASSUME TypeOK, FreshRequests, EngineHolds, ToolInFlight, [Next]_vars,
         NEW s \in Sessions, cur[s] # None, NEW e \in edits' \ edits, e.by = cur[s]
  PROVE  /\ WriteFile(s)
         /\ e = [path |-> tool[s].path, by |-> tool[s].req, kind |-> tool[s].kind]
  <1>1. cur[s] \in Requests
    BY DEF TypeOK
  <1>2. ASSUME NEW o \in Sessions, WriteFile(o)
        PROVE  /\ o = s
               /\ e = [path |-> tool[s].path, by |-> tool[s].req, kind |-> tool[s].kind]
    <2>1. e = [path |-> tool[o].path, by |-> tool[o].req, kind |-> tool[o].kind]
      BY <1>2 DEF WriteFile
    <2>2. tool[o].req = cur[o]
      BY <1>2 DEF WriteFile, ToolInFlight
    <2> QED
      BY <2>1, <2>2 DEF FreshRequests
  <1>3. ASSUME NEW p \in Exposed, EditOutside(p) PROVE FALSE
    BY <1>1, <1>3 DEF EditOutside
  <1> QED
    BY <1>2, <1>3, EditsStep

(* Every step keeps the source edits of a request in flight claimed: the   *)
(* call claimed its path before it wrote, and no step that drops the claim *)
(* leaves the edit uncommitted.                                            *)
LEMMA SourceClaimedStep ==
  ASSUME TypeOK, FreshRequests, EngineHolds, ToolInFlight, ClaimOwners, SourceClaimed, [Next]_vars
  PROVE  SourceClaimed'
  <1> SUFFICES ASSUME NEW s \in Sessions
               PROVE  /\ phase'[s] \in {"external", "starting"} => \A e \in edits' : e.by # cur'[s]
                      /\ InFlight(s)' =>
                           \A e \in edits' :
                             e.by = cur'[s] /\ e.kind = "source" =>
                               e.path \in claims'[cur'[s]].paths /\ e.path \in journal'[cur'[s]]
                      /\ /\ InFlight(s)'
                         /\ tool'[s].kind = "source"
                         /\ tool'[s].step \in {"admitted", "inside"}
                         => tool'[s].path \in claims'[cur'[s]].paths
    BY DEF SourceClaimed, SourceEdit, ClaimedBy
  <1>1. FlightChange(s)
    BY FlightStep
  <1>2. ASSUME phase'[s] \in {"external", "starting"}, NEW e \in edits' PROVE e.by # cur'[s]
    <2>1. CASE phase[s] \in {"external", "starting"} /\ cur'[s] = cur[s]
      <3>1. tool[s].step = "none" /\ cur[s] # None
        BY <2>1 DEF ToolInFlight, EngineHolds
      <3>2. CASE e \in edits
        BY <2>1, <3>2 DEF SourceClaimed
      <3>3. CASE e \notin edits
        BY <2>1, <3>1, <3>3, NewEdit DEF WriteFile
      <3> QED
        BY <3>2, <3>3
    <2>2. CASE cur'[s] \in Requests \ used /\ edits' = edits
      BY <2>2 DEF FreshRequests
    <2> QED
      BY <1>1, <1>2, <2>1, <2>2 DEF FlightChange
  <1>3. ASSUME InFlight(s)', phase[s] = "starting", edits' = edits, tool' = tool
        PROVE  /\ \A e \in edits' : e.by # cur[s]
               /\ tool'[s].step = "none"
    BY <1>3 DEF SourceClaimed, ToolInFlight
  <1>4. ASSUME InFlight(s)', InFlight(s), NEW e \in edits', e.by = cur[s], e.kind = "source"
        PROVE  e.path \in claims'[cur[s]].paths /\ e.path \in journal'[cur[s]]
    <2>1. cur[s] # None /\ cur[s] \in Requests
      BY <1>4, CurrentRequest DEF InFlight, EngineHolds
    <2>2. CASE e \in edits
      <3>1. e.path \in claims[cur[s]].paths /\ e.path \in journal[cur[s]]
        BY <1>4, <2>2 DEF SourceClaimed, SourceEdit, ClaimedBy
      <3>2. e.path \in claims'[cur[s]].paths
        BY <1>4, <2>2, <3>1, InFlightKeeps DEF SourceEdit
      <3>3. \A o \in Sessions : cur[s] = cur[o] => phase[o] # "settle"
        BY <1>4, <2>1 DEF FreshRequests, InFlight
      <3>4. journal[cur[s]] \subseteq journal'[cur[s]]
        BY <2>1, <3>3, JournalStep
      <3> QED
        BY <3>1, <3>2, <3>4
    <2>3. CASE e \notin edits
      <3>1. /\ WriteFile(s)
            /\ e = [path |-> tool[s].path, by |-> tool[s].req, kind |-> tool[s].kind]
        BY <1>4, <2>1, <2>3, NewEdit
      <3>2. tool[s].kind = "source" /\ e.path = tool[s].path /\ tool[s].req = cur[s]
        BY <1>4, <3>1
      <3>3. tool[s].step = "inside"
        BY <3>1, <3>2 DEF WriteFile, Transactional
      <3>4. e.path \in claims'[cur[s]].paths
        BY <1>4, <3>1, <3>2, <3>3 DEF SourceClaimed, ClaimedBy, WriteFile, coordinatorVars
      <3>5. journal' = [journal EXCEPT ![cur[s]] = @ \cup {e.path}]
        BY <3>1, <3>2 DEF WriteFile, Transactional
      <3> QED
        BY <2>1, <3>4, <3>5 DEF TypeOK
    <2> QED
      BY <2>2, <2>3
  <1>5. ASSUME InFlight(s)', InFlight(s), tool'[s].kind = "source",
               tool'[s].step \in {"admitted", "inside"}
        PROVE  tool'[s].path \in claims'[cur[s]].paths
    <2>1. CASE /\ tool[s].step \in {"admitted", "inside"}
               /\ tool'[s].kind = tool[s].kind
               /\ tool'[s].path = tool[s].path
      <3>1. tool[s].path \in claims[cur[s]].paths
        BY <1>5, <2>1 DEF SourceClaimed, ClaimedBy
      <3> QED
        BY <1>5, <2>1, <3>1, InFlightKeeps
    <2>2. ASSUME NEW k \in Kinds, NEW p \in Paths, AdmitTool(s, k, p)
          PROVE  tool'[s].path \in claims'[cur[s]].paths
      <3>1. tool'[s].kind = k /\ tool'[s].path = p
        BY <2>2 DEF AdmitTool, TypeOK
      <3>2. claims' = WithClaim(s, cur[s], {p})
        BY <1>5, <2>2, <3>1 DEF AdmitTool, ClaimsFirst
      <3>3. CoordinatorTypeOK /\ cur[s] \in Requests
        BY <2>2, CurrentRequest DEF AdmitTool
      <3> QED
        BY <3>1, <3>2, <3>3, WithClaimFacts
    <2> QED
      BY <1>5, <2>1, <2>2, CallStep
  <1>6. InFlight(s)' => cur'[s] = cur[s]
    BY <1>1 DEF FlightChange
  <1> QED
    BY <1>1, <1>2, <1>3, <1>4, <1>5, <1>6 DEF FlightChange

(* The steps that move a session's git mutation, which keeps its request.  *)
GitChange(s) ==
    /\ git[s] # "out" => cur'[s] = cur[s]
    /\ \/ git'[s] = "out"
       \/ EnterGit(s)
       \/ SelectPaths(s)
       \/ git[s] # "out" /\ git'[s] \in {git[s], "committed"} /\ snap'[s] = snap[s]

(* Every step moves a git mutation only in those ways.                     *)
LEMMA GitStepFacts ==
  ASSUME TypeOK, EngineHolds, [Next]_vars, NEW s \in Sessions
  PROVE  GitChange(s)
  <1> USE DEF GitChange
  <1>1. CASE UNCHANGED <<cur, gitVars>>
    BY <1>1 DEF gitVars, TypeOK, GitSteps
  <1>2. ASSUME NEW o \in Sessions, NEW r \in Requests, BeginRequest(o, r) PROVE GitChange(s)
    BY <1>2 DEF BeginRequest, gitVars, TypeOK, GitSteps, EngineHolds
  <1>3. ASSUME NEW o \in Sessions, ClearCurrent(o) PROVE GitChange(s)
    BY <1>3 DEF ClearCurrent, gitVars, TypeOK, GitSteps, EngineHolds
  <1>4. ASSUME NEW o \in Sessions, EnterGit(o) PROVE GitChange(s)
    BY <1>4 DEF EnterGit, engineVars, TypeOK, GitSteps
  <1>5. ASSUME NEW o \in Sessions, SelectPaths(o) PROVE GitChange(s)
    BY <1>5 DEF SelectPaths, engineVars, TypeOK, GitSteps
  <1>6. ASSUME NEW o \in Sessions, LeaveGit(o), cur' = cur PROVE GitChange(s)
    BY <1>6 DEF LeaveGit, TypeOK, GitSteps
  <1>7. ASSUME NEW o \in Sessions, CommitPaths(o) PROVE GitChange(s)
    <2>1. CASE phase[o] = "external"
      BY <1>6, <1>7, <2>1 DEF CommitPaths
    <2>2. CASE phase[o] # "external"
      BY <1>7, <2>2 DEF CommitPaths, TypeOK, GitSteps
    <2> QED
      BY <2>1, <2>2
  <1>8. ASSUME NEW o \in Sessions, CommitFails(o) \/ UnclaimRecorded(o) PROVE GitChange(s)
    BY <1>6, <1>8 DEF CommitFails, UnclaimRecorded
  <1>9. ASSUME NEW o \in Sessions,
          \/ RegisterTurn(o) \/ RunCompleted(o) \/ RunCancelled(o) \/ IterationEnds(o)
          \/ PlanAfterChanges(o) \/ PlanWithoutChanges(o)
          \/ PlanReview(o) \/ CancelIdle(o) \/ ChatRefused(o) \/ TurnFails(o)
          \/ SettleRequest(o) \/ ReleaseRegistration(o) \/ EndTurnClaims(o) \/ RecoverFailure(o)
        PROVE  UNCHANGED <<cur, gitVars>>
    BY <1>9 DEF RegisterTurn, RunCompleted, EndRun, RunCancelled, IterationEnds, PlanAfterChanges,
       PlanWithoutChanges, PlanReview, PlanApproved, PlanFeedback, FeedbackPlans,
       FeedbackAnswers, FeedbackCancelled, FeedbackFails, FeedbackWrites, Feedback, CancelIdle,
          ChatRefused, TurnFails, SettleRequest, ReleaseRegistration,
       EndTurnClaims, RecoverFailure
  <1>10. ASSUME NEW o \in Sessions,
          (\E k \in Kinds, p \in Paths : AdmitTool(o, k, p)) \/ ToolStep(o)
        PROVE  UNCHANGED <<cur, gitVars>>
    BY <1>10 DEF AdmitTool, ToolStep, EnterTransaction, WriteFile, LeaveTransaction, ClaimResult,
       ToolFails, engineVars
  <1>11. CASE (\E p \in Exposed : EditOutside(p)) \/ UNCHANGED vars
    BY <1>1, <1>11 DEF EditOutside, vars, engineVars
  <1> QED
    BY <1>1, <1>2, <1>3, <1>4, <1>5, <1>7, <1>8, <1>9, <1>10, <1>11
       DEF Next, EngineStep, GitStep, RunEnds, PlanReview

(* What a boundary commit has read as its own stays claimed until it is    *)
(* over: only its own engine could drop the claim.                         *)
LEMMA MineStep ==
  ASSUME TypeOK, FreshRequests, EngineHolds, ToolInFlight, ClaimOwners, SnapshotCovers,
         [Next]_vars, NEW s \in Sessions, git'[s] # "out"
  PROVE  snap'[s].mine \subseteq claims'[cur'[s]].paths
  <1>1. GitChange(s)
    BY GitStepFacts
  <1>2. CASE EnterGit(s)
    <2>1. snap'[s].mine \subseteq ClaimedBy(cur[s])
      BY <1>2 DEF EnterGit, TypeOK
    <2> QED
      BY <1>2, <2>1 DEF EnterGit, engineVars, ClaimedBy
  <1>3. CASE SelectPaths(s)
    <2>1. git[s] # "out" /\ claims' = claims /\ cur' = cur
      BY <1>3 DEF SelectPaths, coordinatorVars, engineVars
    <2>2. snap'[s].mine = snap[s].mine
      BY <1>3 DEF SelectPaths, TypeOK
    <2> QED
      BY <2>1, <2>2 DEF SnapshotCovers, ClaimedBy
  <1>4. CASE git[s] # "out" /\ snap'[s] = snap[s]
    <2>1. /\ phase[s] \in {"external", "boundary"}
          /\ cur'[s] = cur[s]
          /\ cur[s] \in Requests
      BY <1>1, <1>4, CurrentRequest DEF GitChange, EngineHolds
    <2>2. snap[s].mine \subseteq claims[cur[s]].paths
      BY <1>4 DEF SnapshotCovers, ClaimedBy
    <2>3. \A o \in Sessions : cur[o] = cur[s] => o = s
      BY <2>1 DEF FreshRequests
    <2>4. claims[cur[s]].session \in {None, s}
      BY <2>1 DEF ClaimOwners
    <2>5. PathsChange(cur[s])
      BY <2>1, PathsStep
    <2>6. claims[cur[s]].paths \subseteq claims'[cur[s]].paths
      BY <2>1, <2>3, <2>4, <2>5 DEF PathsChange
    <2> QED
      BY <1>4, <2>1, <2>2, <2>6
  <1> QED
    BY <1>1, <1>2, <1>3, <1>4 DEF GitChange

(* Every step keeps the snapshot of a git mutation true of the source      *)
(* edits in flight: claims made before it are in it, and no source write   *)
(* happens while it holds the transaction.                                 *)
LEMMA SnapshotCoversStep ==
  ASSUME TypeOK, FreshRequests, EngineHolds, ToolInFlight, LockHolder, ClaimOwners,
         SourceClaimed, SnapshotCovers, [Next]_vars
  PROVE  SnapshotCovers'
  <1> DEFINE Covers(s, p) == /\ p \in snap'[s].others
                             /\ git'[s] = "selected" /\ p \in snap'[s].sel => p \in snap'[s].mine
  <1>1. ASSUME NEW s \in Sessions, git'[s] \in {"snapshot", "selected"},
               NEW o \in Sessions \ {s}, InFlight(o)',
               NEW e \in edits', e.by = cur'[o], e.kind = "source"
        PROVE  Covers(s, e.path)
    <2>1. GitChange(s) /\ FlightChange(o)
      BY GitStepFacts, FlightStep
    <2>2. ASSUME phase[o] = "starting", edits' = edits, cur'[o] = cur[o] PROVE FALSE
      BY <1>1, <2>2 DEF SourceClaimed
    <2>3. InFlight(o) /\ cur'[o] = cur[o]
      BY <1>1, <2>1, <2>2 DEF FlightChange
    <2>4. cur[o] \in Requests /\ cur[o] # None
      BY <2>3, CurrentRequest DEF InFlight, EngineHolds
    <2>5. e \in edits
      <3> SUFFICES ASSUME e \notin edits PROVE FALSE
        OBVIOUS
      <3>1. /\ WriteFile(o)
            /\ e = [path |-> tool[o].path, by |-> tool[o].req, kind |-> tool[o].kind]
        BY <1>1, <2>3, <2>4, NewEdit
      <3>2. tool[o].kind = "source" /\ tool[o].step = "inside" /\ git' = git
        BY <1>1, <3>1 DEF WriteFile, Transactional, gitVars
      <3>3. lock = Tool(o) /\ lock = Turn(s)
        BY <1>1, <3>2 DEF LockHolder, InTransaction, Transactional
      <3> QED
        BY <3>3, ThreadsDiffer
    <2>6. SourceEdit(e, o)
      BY <1>1, <2>3 DEF SourceEdit
    <2>7. CASE EnterGit(s)
      <3>1. e.path \in ClaimedBy(cur[o])
        BY <2>3, <2>5, <2>6 DEF SourceClaimed
      <3>2. cur[s] # cur[o]
        BY <2>4 DEF FreshRequests
      <3>3. e.path \in ClaimedInFlight /\ e.path \in ClaimedByOthers(cur[s])
        BY <2>4, <3>1, <3>2 DEF ClaimedInFlight, ClaimedByOthers, ClaimedBy
      <3>4. git'[s] = "snapshot"
        BY <2>7 DEF EnterGit, TypeOK
      <3>5. snap'[s].others \in {ClaimedInFlight, ClaimedByOthers(cur[s])}
        BY <2>7 DEF EnterGit, TypeOK
      <3> QED
        BY <3>3, <3>4, <3>5
    <2>8. CASE SelectPaths(s)
      <3>1. e.path \in snap[s].others
        BY <2>3, <2>5, <2>6, <2>8 DEF SnapshotCovers, SelectPaths
      <3>2. /\ snap'[s].others = snap[s].others
            /\ snap'[s].mine = snap[s].mine
            /\ snap'[s].sel = Selection(s)
        BY <2>8 DEF SelectPaths, TypeOK
      <3>3. e.path \in Selection(s) => e.path \in snap[s].mine
        BY <3>1 DEF Selection
      <3> QED
        BY <3>1, <3>2, <3>3
    <2>9. CASE git'[s] = git[s] /\ snap'[s] = snap[s]
      BY <1>1, <2>3, <2>5, <2>6, <2>9 DEF SnapshotCovers
    <2> QED
      BY <1>1, <2>1, <2>7, <2>8, <2>9 DEF GitChange
  <1> QED
    BY <1>1, MineStep DEF SnapshotCovers, SourceEdit, ClaimedBy

(* Nothing is claimed, dirty or running to begin with. *)
LEMMA InitIInv == Init => IInv
  <1> SUFFICES ASSUME Init PROVE IInv
    OBVIOUS
  <1>1. TypeOK
    BY DEF Init, CoordinatorInit, TypeOK, CoordinatorTypeOK, PathClaim, NoClaim, Phases, GitSteps,
       ToolSteps, NoSnap, NoTool
  <1>2. FreshRequests /\ EngineHolds /\ RegistrationsAreTickets /\ OneClaimantPerSession
    BY DEF Init, CoordinatorInit, NoClaim, FreshRequests, EngineHolds, RegistrationsAreTickets,
       OneClaimantPerSession
  <1>3. ToolInFlight /\ ClaimOwners
    BY DEF Init, CoordinatorInit, NoClaim, NoTool, ToolInFlight, InFlight, ClaimOwners
  <1>4. LockHolder
    BY ThreadsDiffer DEF Init, CoordinatorInit, NoTool, LockHolder, InTransaction
  <1>5. SourceClaimed /\ SnapshotCovers
    BY DEF Init, SourceClaimed, SnapshotCovers, InFlight
  <1> QED
    BY <1>1, <1>2, <1>3, <1>4, <1>5 DEF IInv

(* Every reachable state satisfies the inductive invariant.                *)
THEOREM InductiveInvariant == Spec => []IInv
  <1>1. Init => IInv
    BY InitIInv
  <1>2. IInv /\ [Next]_vars => IInv'
    <2> SUFFICES ASSUME IInv, [Next]_vars PROVE IInv'
      OBVIOUS
    <2> USE DEF IInv
    <2>1. TypeOK' /\ FreshRequests' /\ EngineHolds'
      BY TypeStep, FreshStep, EngineHoldsStep
    <2>2. RegistrationsAreTickets' /\ ToolInFlight' /\ LockHolder'
      BY RegistrationsStep, ToolInFlightStep, LockHolderStep
    <2>3. ClaimOwners' /\ OneClaimantPerSession'
      BY ClaimOwnersStep
    <2>4. SourceClaimed' /\ SnapshotCovers'
      BY SourceClaimedStep, SnapshotCoversStep
    <2> QED
      BY <2>1, <2>2, <2>3, <2>4
  <1> QED
    BY <1>1, <1>2, PTL DEF Spec

(* The variables keep their types in every reachable state.                *)
THEOREM TypeCorrect == Spec => []TypeOK
  <1>1. IInv => TypeOK
    BY DEF IInv
  <1> QED
    BY <1>1, InductiveInvariant, PTL

(* At most one request of a session holds back paths, whichever way its    *)
(* earlier turns ended: the order of `begin_request` and the admission     *)
(* checks leave no stale claimant behind.                                  *)
THEOREM OneClaimant == Spec => []OneClaimantPerSession
  <1>1. IInv => OneClaimantPerSession
    BY DEF IInv
  <1> QED
    BY <1>1, InductiveInvariant, PTL

(* No turn, failed, recovered, cancelled or settled, leaves a registration *)
(* without a ticket or a ticket without a registration.                    *)
THEOREM RegistrationsAgree == Spec => []RegistrationsAreTickets
  <1>1. IInv => RegistrationsAreTickets
    BY DEF IInv
  <1> QED
    BY <1>1, InductiveInvariant, PTL

(* A call that outlives its turn never runs inside a later request of its  *)
(* session.                                                                *)
THEOREM ToolsServe == Spec => []ToolsServeTheirRequest
  <1>1. IInv => ToolsServeTheirRequest
    BY DEF IInv, ToolInFlight, ToolsServeTheirRequest
  <1> QED
    BY <1>1, InductiveInvariant, PTL

(* A git mutation overlaps neither another one nor a transactional write.  *)
THEOREM GitAlone == Spec => []GitRunsAlone
  <1>1. IInv => GitRunsAlone
    BY ThreadsDiffer DEF IInv, LockHolder, GitRunsAlone
  <1> QED
    BY <1>1, InductiveInvariant, PTL

(* Only a commit takes an edit out of the work tree's changes. *)
LEMMA OnlyCommitsTake ==
  ASSUME [Next]_vars, NEW e \in edits \ edits'
  PROVE  \E s \in Sessions : CommitPaths(s)
  <1>1. ASSUME NEW s \in Sessions, NEW r \in Requests, BeginRequest(s, r) PROVE FALSE
    BY <1>1 DEF BeginRequest
  <1>2. ASSUME NEW s \in Sessions, EngineStep(s) PROVE FALSE
    BY <1>2 DEF EngineStep, RegisterTurn, SettleRequest, ReleaseRegistration, EndTurnClaims,
       RecoverFailure, ClearCurrent
  <1>3. ASSUME NEW s \in Sessions, GitStep(s), ~CommitPaths(s) PROVE FALSE
    BY <1>3 DEF GitStep, EnterGit, SelectPaths, CommitFails, UnclaimRecorded
  <1>4. ASSUME NEW s \in Sessions, RunEnds(s) \/ PlanReview(s) \/ CancelIdle(s) \/ ChatRefused(s)
        PROVE  FALSE
    BY <1>4 DEF RunEnds, RunCompleted, EndRun, RunCancelled, IterationEnds, PlanAfterChanges,
       PlanWithoutChanges, TurnFails, PlanReview, PlanApproved, PlanFeedback, FeedbackPlans,
       FeedbackAnswers, FeedbackCancelled, FeedbackFails, FeedbackWrites, Feedback, CancelIdle,
          ChatRefused
  <1>5. ASSUME NEW s \in Sessions, NEW k \in Kinds, NEW p \in Paths, AdmitTool(s, k, p)
        PROVE  FALSE
    BY <1>5 DEF AdmitTool
  <1>6. ASSUME NEW s \in Sessions, ToolStep(s) PROVE FALSE
    BY <1>6 DEF ToolStep, EnterTransaction, WriteFile, LeaveTransaction, ClaimResult, ToolFails
  <1>7. CASE (\E p \in Exposed : EditOutside(p)) \/ UNCHANGED vars
    BY <1>7 DEF EditOutside, vars
  <1> QED
    BY <1>1, <1>2, <1>3, <1>4, <1>5, <1>6, <1>7 DEF Next

(* No commit of one session takes a source edit of another session's       *)
(* request in flight, unless it has claimed the path too: the property the *)
(* claims, the transaction and the order in which `commit_claimed_paths`   *)
(* reads them are there for.                                               *)
THEOREM TurnsKeepTheirEdits == Spec => CommitsLeaveOthersSourceEdits
  <1> DEFINE Leaves == \A s \in Sessions : \A o \in Sessions \ {s} :
                         lock = Turn(s) /\ InFlight(o) =>
                           \A e \in edits \ edits' :
                             e.by = cur[o] /\ e.kind = "source" => e.path \in ClaimedBy(cur[s])
  <1>1. IInv /\ [Next]_vars => Leaves
    <2> SUFFICES ASSUME IInv, [Next]_vars,
                        NEW s \in Sessions, NEW o \in Sessions \ {s}, lock = Turn(s), InFlight(o),
                        NEW e \in edits \ edits', e.by = cur[o], e.kind = "source"
                 PROVE  e.path \in ClaimedBy(cur[s])
      OBVIOUS
    <2>1. PICK c \in Sessions : CommitPaths(c)
      BY OnlyCommitsTake
    <2>2. c = s
      BY <2>1, ThreadsDiffer DEF CommitPaths, IInv, LockHolder
    <2>3. git[s] = "selected" /\ e.path \in snap[s].sel
      BY <2>1, <2>2 DEF CommitPaths
    <2>4. e.path \in snap[s].mine /\ snap[s].mine \subseteq ClaimedBy(cur[s])
      BY <2>3 DEF IInv, SnapshotCovers, SourceEdit
    <2> QED
      BY <2>4
  <1>2. IInv /\ [Next]_vars => [Leaves]_vars
    BY <1>1
  <1> QED
    BY <1>2, InductiveInvariant, PTL DEF Spec, CommitsLeaveOthersSourceEdits

-----------------------------------------------------------------------------
(* What a commit after a drained run records.                              *)

Drained(s) == phase[s] = "boundary" /\ next[s] \in {"settle", "running", "review"}

TurnEdit(e, s) == e.by = cur[s] /\ e.kind \in Transactional

(* A request that is to be committed has journaled what it wrote, and has  *)
(* claimed it unless the call that wrote it is still to do so; a drained   *)
(* run has no such call left, and its commit takes every edit of the turn. *)
TurnRecorded ==
    \A s \in Sessions :
        /\ Drained(s) => tool[s].step = "none"
        /\ InFlight(s) \/ Drained(s) =>
             \A e \in edits :
               TurnEdit(e, s) =>
                 /\ e.path \in journal[cur[s]]
                 /\ \/ e.path \in ClaimedBy(cur[s])
                    \/ tool[s].kind \in Transactional /\ tool[s].step \in {"written", "left"}
        /\ Drained(s) =>
             \A e \in edits :
               TurnEdit(e, s) =>
                 /\ git[s] = "snapshot" => e.path \in snap[s].mine
                 /\ git[s] = "selected" => e.path \in snap[s].sel
                 /\ git[s] # "committed"

(* A run is drained when it ends without a call left, and stays so.        *)
DrainedChange(s) ==
    Drained(s)' =>
        /\ cur'[s] = cur[s]
        /\ tool'[s].step = "none"
        /\ \/ Drained(s)
           \/ phase[s] = "running" /\ git'[s] = "out"

(* Every step leaves a run drained, or drains it, only in those ways.      *)
LEMMA DrainedStep ==
  ASSUME TypeOK, EngineHolds, [Next]_vars, NEW s \in Sessions,
         Drained(s) => tool[s].step = "none"
  PROVE  DrainedChange(s)
  <1> USE DEF DrainedChange, Drained
  <1>1. ASSUME phase' = phase, next' = next, cur' = cur, tool'[s] = tool[s] PROVE DrainedChange(s)
    BY <1>1
  <1>2. ASSUME NEW o \in Sessions, NEW r \in Requests, BeginRequest(o, r) PROVE DrainedChange(s)
    BY <1>2 DEF BeginRequest, Goto, TypeOK
  <1>3. ASSUME NEW o \in Sessions, RegisterTurn(o) PROVE DrainedChange(s)
    BY <1>3 DEF RegisterTurn, Goto, TypeOK
  <1>4. ASSUME NEW o \in Sessions, LeaveGit(o), git[o] # "out", UNCHANGED <<cur, tool>>
        PROVE  DrainedChange(s)
    <2>1. /\ phase' = [phase EXCEPT ![o] = AfterGit(o)]
          /\ next' = [next EXCEPT ![o] = "settle"]
          /\ cur' = cur /\ tool' = tool
      BY <1>4 DEF LeaveGit, Goto
    <2>2. AfterGit(o) # "boundary"
      BY <1>4 DEF AfterGit, TypeOK
    <2> QED
      BY <2>1, <2>2 DEF TypeOK
  <1>5. ASSUME NEW o \in Sessions, CommitPaths(o) PROVE DrainedChange(s)
    <2>1. CASE phase[o] = "external"
      BY <1>4, <1>5, <2>1 DEF CommitPaths
    <2>2. CASE phase[o] # "external"
      BY <1>1, <1>5, <2>2 DEF CommitPaths
    <2> QED
      BY <2>1, <2>2
  <1>6. ASSUME NEW o \in Sessions, CommitFails(o) \/ UnclaimRecorded(o) PROVE DrainedChange(s)
    BY <1>4, <1>6 DEF CommitFails, UnclaimRecorded
  <1>7. ASSUME NEW o \in Sessions, RunCompleted(o) \/ IterationEnds(o) \/ PlanAfterChanges(o)
        PROVE  DrainedChange(s)
    <2>1. /\ tool[o].step = "none" /\ phase[o] = "running" /\ git' = git /\ tool' = tool /\ cur' = cur
          /\ phase' = [phase EXCEPT ![o] = "boundary"]
          /\ \A q \in Sessions \ {o} : next'[q] = next[q]
      BY <1>7 DEF RunCompleted, IterationEnds, PlanAfterChanges, EndRun, Goto, gitVars, TypeOK
    <2>2. git[o] = "out"
      BY <2>1 DEF EngineHolds, TypeOK
    <2> QED
      BY <2>1, <2>2 DEF TypeOK
  <1>8. ASSUME NEW o \in Sessions, RunCancelled(o) PROVE DrainedChange(s)
    BY <1>8 DEF RunCancelled, EndRun, Goto, TypeOK
  <1>9. ASSUME NEW o \in Sessions, TurnFails(o) PROVE DrainedChange(s)
    BY <1>9 DEF TurnFails, FailTo, Goto, TypeOK
  <1>10. ASSUME NEW o \in Sessions, PlanWithoutChanges(o) \/ PlanApproved(o) PROVE DrainedChange(s)
    BY <1>10 DEF PlanWithoutChanges, PlanApproved, Goto, TypeOK
  <1>11. ASSUME NEW o \in Sessions,
           \/ PlanFeedback(o) \/ FeedbackPlans(o) \/ FeedbackAnswers(o)
           \/ FeedbackCancelled(o) \/ FeedbackFails(o) \/ FeedbackWrites(o)
         PROVE  DrainedChange(s)
    BY <1>11 DEF PlanFeedback, FeedbackPlans, FeedbackAnswers, FeedbackCancelled, FeedbackFails,
       FeedbackWrites, Feedback, Goto, TypeOK
  <1>12. ASSUME NEW o \in Sessions, CancelIdle(o) \/ ChatRefused(o) PROVE DrainedChange(s)
    BY <1>12 DEF CancelIdle, ChatRefused, Goto, TypeOK
  <1>13. ASSUME NEW o \in Sessions,
           \/ SettleRequest(o) \/ ReleaseRegistration(o) \/ EndTurnClaims(o)
         PROVE  DrainedChange(s)
    BY <1>13 DEF SettleRequest, ReleaseRegistration, EndTurnClaims, Goto, TypeOK
  <1>14. ASSUME NEW o \in Sessions, RecoverFailure(o) \/ ClearCurrent(o) PROVE DrainedChange(s)
    BY <1>14 DEF RecoverFailure, ClearCurrent, Goto, TypeOK
  <1>15. ASSUME NEW o \in Sessions, EnterGit(o) \/ SelectPaths(o) PROVE DrainedChange(s)
    BY <1>1, <1>15 DEF EnterGit, SelectPaths, engineVars
  <1>16. ASSUME NEW o \in Sessions, NEW k \in Kinds, NEW p \in Paths, AdmitTool(o, k, p)
         PROVE  DrainedChange(s)
    BY <1>16 DEF AdmitTool, engineVars, TypeOK
  <1>17. ASSUME NEW o \in Sessions, ToolStep(o) PROVE DrainedChange(s)
    <2>1. tool[o].step # "none" /\ UNCHANGED engineVars
      BY <1>17 DEF ToolStep, EnterTransaction, WriteFile, LeaveTransaction, ClaimResult, ToolFails
    <2>2. \A q \in Sessions \ {o} : tool'[q] = tool[q]
      BY <1>17 DEF ToolStep, EnterTransaction, WriteFile, LeaveTransaction, ClaimResult, ToolFails,
         ToolAt, TypeOK
    <2> QED
      BY <1>1, <2>1, <2>2 DEF engineVars
  <1>18. CASE (\E p \in Exposed : EditOutside(p)) \/ UNCHANGED vars
    BY <1>1, <1>18 DEF EditOutside, vars, engineVars
  <1> QED
    BY <1>2, <1>3, <1>5, <1>6, <1>7, <1>8, <1>9, <1>10, <1>11, <1>12, <1>13, <1>14, <1>15, <1>16,
       <1>17, <1>18 DEF Next, EngineStep, GitStep, RunEnds, PlanReview
(* Only a commit's own step says that it is made.                          *)
LEMMA CommittedStep ==
  ASSUME TypeOK, [Next]_vars, NEW s \in Sessions, git'[s] = "committed", git[s] # "committed"
  PROVE  CommitPaths(s)
  <1>1. ASSUME NEW o \in Sessions, CommitPaths(o) PROVE o = s
    BY <1>1 DEF CommitPaths, LeaveGit, TypeOK
  <1>2. ASSUME NEW o \in Sessions,
          \/ \E r \in Requests : BeginRequest(o, r)
          \/ ChatRefused(o) \/ CancelIdle(o) \/ EngineStep(o) \/ RunEnds(o) \/ PlanReview(o)
        PROVE  git' = git
    BY <1>2 DEF BeginRequest, ChatRefused, CancelIdle, EngineStep, RegisterTurn, SettleRequest,
       ReleaseRegistration, EndTurnClaims, RecoverFailure, ClearCurrent, RunEnds, RunCompleted,
       RunCancelled, IterationEnds, PlanAfterChanges, PlanWithoutChanges, TurnFails, EndRun,
       PlanReview, PlanApproved, PlanFeedback, FeedbackPlans, FeedbackAnswers, FeedbackCancelled,
       FeedbackFails, FeedbackWrites, Feedback, gitVars
  <1>3. ASSUME NEW o \in Sessions,
               EnterGit(o) \/ SelectPaths(o) \/ CommitFails(o) \/ UnclaimRecorded(o)
        PROVE  FALSE
    BY <1>3 DEF EnterGit, SelectPaths, CommitFails, UnclaimRecorded, LeaveGit, TypeOK
  <1>4. ASSUME NEW o \in Sessions,
               (\E k \in Kinds, p \in Paths : AdmitTool(o, k, p)) \/ ToolStep(o)
        PROVE  git' = git
    BY <1>4 DEF AdmitTool, ToolStep, EnterTransaction, WriteFile, LeaveTransaction, ClaimResult,
       ToolFails, gitVars
  <1>5. CASE (\E p \in Exposed : EditOutside(p)) \/ UNCHANGED vars
    BY <1>5 DEF EditOutside, vars, gitVars
  <1> QED
    BY <1>1, <1>2, <1>3, <1>4, <1>5 DEF Next, GitStep

CallWritten(s) == tool[s].kind \in Transactional /\ tool[s].step \in {"written", "left"}

(* A call that has written is over only when it has claimed.               *)
LEMMA WrittenStep ==
  ASSUME TypeOK, [Next]_vars, NEW s \in Sessions, CallWritten(s)
  PROVE  CallWritten(s)' \/ ClaimResult(s)
  <1> USE DEF CallWritten
  <1>1. CASE tool'[s] = tool[s]
    BY <1>1
  <1>2. ASSUME NEW o \in Sessions, ToolStep(o) PROVE CallWritten(s)' \/ ClaimResult(s)
    <2>1. \A q \in Sessions \ {o} : tool'[q] = tool[q]
      BY <1>2 DEF ToolStep, EnterTransaction, WriteFile, LeaveTransaction, ClaimResult, ToolFails,
         ToolAt, TypeOK
    <2>2. CASE o = s
      BY <1>2, <2>2 DEF ToolStep, EnterTransaction, WriteFile, LeaveTransaction, ToolFails, ToolAt,
         TypeOK
    <2> QED
      BY <1>1, <2>1, <2>2
  <1>3. ASSUME NEW o \in Sessions, NEW k \in Kinds, NEW p \in Paths, AdmitTool(o, k, p)
        PROVE  tool'[s] = tool[s]
    BY <1>3 DEF AdmitTool, TypeOK
  <1>4. ASSUME NEW o \in Sessions,
          \/ \E r \in Requests : BeginRequest(o, r)
          \/ ChatRefused(o) \/ CancelIdle(o) \/ EngineStep(o) \/ GitStep(o) \/ RunEnds(o)
          \/ PlanReview(o)
        PROVE  tool' = tool
    BY <1>4 DEF BeginRequest, ChatRefused, CancelIdle, EngineStep, RegisterTurn, SettleRequest,
       ReleaseRegistration, EndTurnClaims, RecoverFailure, ClearCurrent, GitStep, EnterGit,
       SelectPaths, CommitPaths, CommitFails, UnclaimRecorded, RunEnds, RunCompleted,
       RunCancelled, IterationEnds, PlanAfterChanges, PlanWithoutChanges, TurnFails, EndRun,
       PlanReview, PlanApproved, PlanFeedback, FeedbackPlans, FeedbackAnswers, FeedbackCancelled,
       FeedbackFails, FeedbackWrites, Feedback
  <1>5. CASE (\E p \in Exposed : EditOutside(p)) \/ UNCHANGED vars
    BY <1>1, <1>5 DEF EditOutside, vars
  <1> QED
    BY <1>1, <1>2, <1>3, <1>4, <1>5 DEF Next

(* Until it is committed, a request keeps its claims on what it journaled  *)
(* and has not committed.                                                  *)
LEMMA RecordedKeeps ==
  ASSUME TypeOK, FreshRequests, EngineHolds, ToolInFlight, ClaimOwners, [Next]_vars,
         NEW s \in Sessions, InFlight(s) \/ Drained(s),
         NEW e \in edits, e \in edits',
         e.path \in claims[cur[s]].paths, e.path \in journal[cur[s]]
  PROVE  e.path \in claims'[cur[s]].paths
  <1> phase[s] \in {"running", "review", "feedback", "boundary"}
    BY DEF InFlight, Drained
  <1>1. cur[s] \in Requests /\ PathsChange(cur[s])
    BY CurrentRequest, PathsStep
  <1>2. \A o \in Sessions : cur[o] = cur[s] => o = s
    BY <1>1 DEF FreshRequests
  <1>3. ~\E o \in Sessions : phase[o] = "idle" /\ claims[cur[s]].session = o
    BY <1>1, <1>2 DEF ClaimOwners
  <1>4. \/ claims[cur[s]].paths \subseteq claims'[cur[s]].paths
        \/ claims[cur[s]].paths \cap Dirty \subseteq claims'[cur[s]].paths
    BY <1>1, <1>2, <1>3 DEF PathsChange
  <1> QED
    BY <1>4 DEF Dirty

(* Every step keeps what a turn wrote recorded.                            *)
LEMMA TurnRecordedStep ==
  ASSUME IInv, TurnRecorded, [Next]_vars
  PROVE  TurnRecorded'
  <1> USE DEF IInv
  <1> SUFFICES
        ASSUME NEW s \in Sessions
        PROVE  /\ Drained(s)' => tool'[s].step = "none"
               /\ InFlight(s)' \/ Drained(s)' =>
                    \A e \in edits' :
                      e.by = cur'[s] /\ e.kind \in Transactional =>
                        /\ e.path \in journal'[cur'[s]]
                        /\ e.path \in claims'[cur'[s]].paths \/ CallWritten(s)'
               /\ Drained(s)' =>
                    \A e \in edits' :
                      e.by = cur'[s] /\ e.kind \in Transactional =>
                        /\ git'[s] = "snapshot" => e.path \in snap'[s].mine
                        /\ git'[s] = "selected" => e.path \in snap'[s].sel
                        /\ git'[s] # "committed"
    BY DEF TurnRecorded, TurnEdit, ClaimedBy, CallWritten
  <1>1. DrainedChange(s) /\ FlightChange(s)
    BY DrainedStep, FlightStep DEF TurnRecorded
  <1>2. ASSUME InFlight(s) \/ Drained(s), NEW e \in edits, e.by = cur[s], e.kind \in Transactional
        PROVE  /\ e.path \in journal[cur[s]]
               /\ e.path \in claims[cur[s]].paths \/ CallWritten(s)
               /\ Drained(s) => /\ e.path \in claims[cur[s]].paths
                                /\ git[s] = "snapshot" => e.path \in snap[s].mine
                                /\ git[s] = "selected" => e.path \in snap[s].sel
                                /\ git[s] # "committed"
    BY <1>2 DEF TurnRecorded, TurnEdit, ClaimedBy, CallWritten
  <1>3. ASSUME InFlight(s)' \/ Drained(s)', NEW e \in edits', e.by = cur'[s], e.kind \in Transactional
        PROVE  /\ e.path \in journal'[cur'[s]]
               /\ e.path \in claims'[cur'[s]].paths \/ CallWritten(s)'
    <2>1. cur'[s] = cur[s] /\ (InFlight(s) \/ Drained(s))
      <3>1. CASE InFlight(s)' /\ phase[s] = "starting" /\ edits' = edits
        BY <1>1, <1>3, <3>1 DEF SourceClaimed, FlightChange
      <3>2. CASE phase[s] = "running"
        BY <1>1, <1>3, <3>2 DEF InFlight, FlightChange, DrainedChange
      <3> QED
        BY <1>1, <1>3, <3>1, <3>2 DEF FlightChange, DrainedChange
    <2>2. phase[s] \in {"running", "review", "feedback", "boundary"}
      BY <2>1 DEF InFlight, Drained
    <2>3. cur[s] \in Requests /\ cur[s] # None
      BY <2>2, CurrentRequest DEF EngineHolds
    <2>4. CASE e \in edits
      <3>1. \A o \in Sessions : cur[s] = cur[o] => phase[o] # "settle"
        BY <2>2, <2>3 DEF FreshRequests
      <3>2. e.path \in journal[cur[s]] /\ e.path \in journal'[cur[s]]
        BY <1>2, <1>3, <2>1, <2>3, <2>4, <3>1, JournalStep
      <3>3. CASE e.path \in claims[cur[s]].paths
        BY <1>3, <2>1, <2>4, <3>2, <3>3, RecordedKeeps
      <3>4. CASE ClaimResult(s) /\ CallWritten(s)
        <4> DEFINE ps == journal[cur[s]]
        <4>1. tool[s].req = cur[s] /\ ps \in SUBSET Paths /\ CoordinatorTypeOK
          BY <2>3, <3>4, CurrentRequest DEF ClaimResult, TypeOK
        <4>2. claims' = WithClaim(s, cur[s], ps)
          BY <3>4, <4>1 DEF ClaimResult, CallWritten
        <4>3. e.path \in ps
          BY <3>2
        <4> HIDE DEF ps
        <4> QED
          BY <2>1, <2>3, <3>2, <4>1, <4>2, <4>3, WithClaimFacts
      <3> QED
        BY <1>2, <1>3, <2>1, <2>4, <3>2, <3>3, <3>4, WrittenStep
    <2>5. CASE e \notin edits
      <3>1. /\ WriteFile(s)
            /\ e = [path |-> tool[s].path, by |-> tool[s].req, kind |-> tool[s].kind]
        BY <1>3, <2>1, <2>3, <2>5, NewEdit
      <3>2. e.path = tool[s].path /\ tool[s].req = cur[s] /\ tool[s].kind \in Transactional
        BY <1>3, <2>1, <3>1
      <3>3. journal' = [journal EXCEPT ![cur[s]] = @ \cup {e.path}]
        BY <3>1, <3>2 DEF WriteFile
      <3>4. e.path \in journal'[cur[s]]
        BY <2>3, <3>3 DEF TypeOK
      <3>5. CallWritten(s)'
        BY <3>1, <3>2 DEF WriteFile, ToolAt, CallWritten, TypeOK
      <3> QED
        BY <2>1, <3>4, <3>5
    <2> QED
      BY <2>4, <2>5
  <1>4. ASSUME Drained(s)', NEW e \in edits', e.by = cur'[s], e.kind \in Transactional
        PROVE  /\ git'[s] = "snapshot" => e.path \in snap'[s].mine
               /\ git'[s] = "selected" => e.path \in snap'[s].sel
               /\ git'[s] # "committed"
    <2>1. CASE git'[s] = "out"
      BY <2>1
    <2>2. CASE Drained(s) /\ git'[s] # "out"
      <3>1. tool[s].step = "none" /\ phase[s] = "boundary" /\ cur'[s] = cur[s] /\ cur[s] # None
        BY <1>1, <1>4, <2>2 DEF TurnRecorded, Drained, DrainedChange, EngineHolds
      <3>2. e \in edits
        BY <1>4, <3>1, NewEdit DEF WriteFile
      <3>3. GitChange(s)
        BY GitStepFacts
      <3>4. CASE EnterGit(s)
        BY <1>2, <1>4, <2>2, <3>1, <3>2, <3>4 DEF EnterGit, ClaimedBy, TypeOK
      <3>5. CASE SelectPaths(s)
        <4>1. e.path \in snap[s].mine /\ e.path \in Dirty /\ e.path \in Paths
          BY <1>2, <1>4, <2>2, <3>1, <3>2, <3>5 DEF SelectPaths, Dirty, TypeOK, Edits
        <4>2. e.path \in Selection(s)
          BY <4>1 DEF Selection
        <4> QED
          BY <3>5, <4>2 DEF SelectPaths, TypeOK
      <3>6. CASE git'[s] = git[s] /\ snap'[s] = snap[s]
        BY <1>2, <1>4, <2>2, <3>1, <3>2, <3>6
      <3>7. CASE git'[s] = "committed" /\ git[s] # "committed"
        <4>1. CommitPaths(s)
          BY <3>7, CommittedStep
        <4>2. e.path \in snap[s].sel
          BY <1>2, <1>4, <2>2, <3>1, <3>2, <4>1 DEF CommitPaths
        <4> QED
          BY <1>4, <4>1, <4>2 DEF CommitPaths
      <3> QED
        BY <2>2, <3>3, <3>4, <3>5, <3>6, <3>7 DEF GitChange
    <2> QED
      BY <1>1, <1>4, <2>1, <2>2 DEF DrainedChange
  <1> QED
    BY <1>1, <1>3, <1>4 DEF DrainedChange

(* A commit after a drained run leaves nothing of its turn behind: what    *)
(* the turn wrote is claimed by the time its run is drained, and what is   *)
(* claimed is selected, whoever else claims it (`commit_claimed_paths`).   *)
THEOREM TurnsAreRecorded == Spec => []CommitRecordsTheTurn
  <1>1. Init => TurnRecorded
    BY DEF Init, TurnRecorded, InFlight, Drained
  <1>2. IInv /\ TurnRecorded /\ [Next]_vars => TurnRecorded'
    BY TurnRecordedStep
  <1>3. IInv /\ TurnRecorded => CommitRecordsTheTurn
    BY DEF IInv, EngineHolds, SourceClaimed, TurnRecorded, TurnEdit, Drained, CommitRecordsTheTurn
  <1> QED
    BY <1>1, <1>2, <1>3, InductiveInvariant, PTL DEF Spec
==============================================================================
