----------------------- MODULE WriteCoordinatorProofs -----------------------
(***************************************************************************)
(* What the operations of the write coordinator change and what they leave *)
(* alone, for every set of sessions, requests and paths.                   *)
(***************************************************************************)
EXTENDS WriteCoordinator, TLAPS

(* No two threads are taken for each other. *)
LEMMA ThreadsDiffer ==
  ASSUME NEW s \in Sessions, NEW o \in Sessions
  PROVE  /\ Turn(s) # Tool(o)
         /\ Turn(s) = Turn(o) => s = o
         /\ Tool(s) = Tool(o) => s = o
         /\ Turn(s) \in Threads
         /\ Tool(s) \in Threads
  BY DEF Turn, Tool, Threads

(* A claim adds to the paths of its own request only. *)
LEMMA WithClaimFacts ==
  ASSUME CoordinatorTypeOK,
         NEW s \in Sessions, NEW r \in Requests, NEW ps \in SUBSET Paths
  PROVE  /\ WithClaim(s, r, ps) \in [Requests -> PathClaim]
         /\ \A q \in Requests \ {r} : WithClaim(s, r, ps)[q] = claims[q]
         /\ WithClaim(s, r, ps)[r].paths = claims[r].paths \cup ps
         /\ WithClaim(s, r, ps)[r].session \in {s, claims[r].session}
  BY DEF WithClaim, CoordinatorTypeOK, PathClaim

(* Dropping recorded paths leaves the request's other paths, and every     *)
(* other request, as they were.                                            *)
LEMMA WithoutPathsFacts ==
  ASSUME CoordinatorTypeOK, NEW r \in Requests, NEW ps \in SUBSET Paths
  PROVE  /\ WithoutPaths(r, ps) \in [Requests -> PathClaim]
         /\ \A q \in Requests \ {r} : WithoutPaths(r, ps)[q] = claims[q]
         /\ WithoutPaths(r, ps)[r].paths = claims[r].paths \ ps
         /\ WithoutPaths(r, ps)[r].session \in {None, claims[r].session}
  <1>1. CASE claims[r].paths \subseteq ps
    BY <1>1 DEF WithoutPaths, CoordinatorTypeOK, PathClaim, NoClaim
  <1>2. CASE ~(claims[r].paths \subseteq ps)
    BY <1>2 DEF WithoutPaths, CoordinatorTypeOK, PathClaim, NoClaim
  <1> QED BY <1>1, <1>2

(* Ending the claims of a request touches no other request. *)
LEMMA WithoutRequestFacts ==
  ASSUME CoordinatorTypeOK, NEW r \in Requests
  PROVE  /\ WithoutRequest(r) \in [Requests -> PathClaim]
         /\ \A q \in Requests \ {r} : WithoutRequest(r)[q] = claims[q]
         /\ WithoutRequest(r)[r].paths = {}
         /\ WithoutRequest(r)[r].session = None
  BY DEF WithoutRequest, CoordinatorTypeOK, PathClaim, NoClaim

(* Retiring a session ends its claims and nobody else's. *)
LEMMA WithoutSessionFacts ==
  ASSUME CoordinatorTypeOK, NEW s \in Sessions, None \notin Sessions
  PROVE  /\ WithoutSession(s) \in [Requests -> PathClaim]
         /\ \A q \in Requests : claims[q].session # s => WithoutSession(s)[q] = claims[q]
         /\ \A q \in Requests : claims[q].session = s => WithoutSession(s)[q].session = None
  BY DEF WithoutSession, CoordinatorTypeOK, PathClaim, NoClaim
=============================================================================
