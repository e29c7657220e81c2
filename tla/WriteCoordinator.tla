-------------------------- MODULE WriteCoordinator --------------------------
(***************************************************************************)
(* ProjectWriteCoordinator (src-tauri/src/write_coordinator.rs): the       *)
(* registrations of the requests that may write, the project paths each    *)
(* request has claimed, and the mutex that serializes one project          *)
(* transaction.  Every operation below is one critical section of the      *)
(* code (`release` two in a row, registrations and then claims); the       *)
(* components that call the coordinator conjoin it with their own state.   *)
(*                                                                         *)
(* Only one coordinator key is kept: `eps:<id>` of one open project, the   *)
(* key that EPS tool transactions, git mutations and path claims share.    *)
(***************************************************************************)
CONSTANTS Sessions,  \* session ids
          Requests,  \* request ids; every turn opens a fresh one
          Paths,     \* project-relative paths
          None       \* "no value" of an Option

VARIABLES active,    \* request -> the session registered for it, or None
          claims,    \* request -> its PathClaim
          lock       \* the thread holding the project transaction, or None

(* A request with no path left has no entry in the claims map. *)
NoClaim == [session |-> None, paths |-> {}]

PathClaim == [session : Sessions \cup {None}, paths : SUBSET Paths]

(* The two kinds of thread that enter a project transaction. *)
Turn(s) == <<s, "turn">>   \* the session's engine, for a git mutation or to settle
Tool(s) == <<s, "tool">>   \* the blocking thread of the session's tool call

Threads == {Turn(s) : s \in Sessions} \cup {Tool(s) : s \in Sessions}

CoordinatorTypeOK ==
    /\ active \in [Requests -> Sessions \cup {None}]
    /\ claims \in [Requests -> PathClaim]
    /\ lock \in Threads \cup {None}

CoordinatorInit ==
    /\ active = [r \in Requests |-> None]
    /\ claims = [r \in Requests |-> NoClaim]
    /\ lock = None

-----------------------------------------------------------------------------
(* Faulty forms of the operations below.  No specification uses them: each *)
(* stands in for its operation to show that a property notices the fault.  *)

(* Entering without waiting for the holder. *)
EnterUnlocked(t) == lock' = t

(* Giving the transaction up without unlocking it. *)
LeaveLocked(t) == lock = t /\ UNCHANGED lock

(* Dropping the claims of a request and not its registration. *)
ReleaseClaimsOnly(r) ==
    /\ claims' = [claims EXCEPT ![r] = NoClaim]
    /\ UNCHANGED active

(* Opening a request without retiring the session's old claims. *)
WithSession(s) == claims

-----------------------------------------------------------------------------
(* Registrations *)

(* Registering again for the same session returns the live ticket; another *)
(* session is refused.                                                     *)
CanRegister(s, r) == active[r] \in {None, s}

Registered(s, r) == [active EXCEPT ![r] = s]

Owns(s, r) == active[r] = s

-----------------------------------------------------------------------------
(* Path claims *)

(* The first claim of a request fixes its session; a claim of no path adds *)
(* no entry.                                                               *)
WithClaim(s, r, ps) ==
    IF ps = {}
    THEN claims
    ELSE [claims EXCEPT ![r] =
            [session |-> IF @.paths = {} THEN s ELSE @.session,
             paths   |-> @.paths \cup ps]]

WithoutPaths(r, ps) ==
    [claims EXCEPT ![r] = IF @.paths \subseteq ps
                          THEN NoClaim
                          ELSE [session |-> @.session, paths |-> @.paths \ ps]]

WithoutRequest(r) == [claims EXCEPT ![r] = NoClaim]

WithoutSession(s) ==
    [r \in Requests |-> IF claims[r].session = s THEN NoClaim ELSE claims[r]]

(* `release` drops the registration and the claims of the request. *)
Release(r) ==
    /\ active' = [active EXCEPT ![r] = None]
    /\ claims' = WithoutRequest(r)

ClaimedBy(r) == claims[r].paths

ClaimedByOthers(r) == UNION {claims[q].paths : q \in Requests \ {r}}

ClaimedInFlight == UNION {claims[q].paths : q \in Requests}

-----------------------------------------------------------------------------
(* The project transaction: a mutex that is not reentrant *)

Enter(t) == lock = None /\ lock' = t

Leave(t) == lock = t /\ lock' = None
=============================================================================
