------------------------ MODULE ConcurrentSourcesProofs ------------------------
(***************************************************************************)
(* Proofs about ConcurrentSources, for any number of lines, texts, paths   *)
(* and sessions: the merge takes no line that someone else changed, and    *)
(* stale targets are refused.                                              *)
(***************************************************************************)
EXTENDS ConcurrentSources, WellFoundedInduction, TLAPS

-----------------------------------------------------------------------------
(* Least elements and induction.                                           *)

\* Every nonempty set of natural numbers has a least element.
LEMMA Least ==
    ASSUME NEW T \in SUBSET Nat, T # {}
    PROVE  \E x \in T : \A y \in T : x <= y
<1> DEFINE R == OpToRel(<, Nat)
<1>1. IsWellFoundedOn(R, Nat)
  BY NatLessThanWellFounded
<1>2. \A x, y \in Nat : <<x, y>> \in R <=> x < y
  BY DEF OpToRel
<1> HIDE DEF R
<1>3. PICK x \in T : \A y \in T : ~(<<y, x>> \in R)
  BY <1>1, WFMin
<1>4. ASSUME NEW y \in T PROVE x <= y
  <2>1. x \in Nat /\ y \in Nat /\ ~(<<y, x>> \in R)
    BY <1>3
  <2>2. ~(y < x)
    BY <2>1, <1>2
  <2> QED  BY <2>1, <2>2
<1> QED  BY <1>4

\* A set that holds 0 and is closed under successors, up to N, holds 0..N.
LEMMA Inductive ==
    ASSUME NEW N \in Nat, NEW S, 0 \in S, \A n \in 0..N : n \in S /\ n < N => n + 1 \in S
    PROVE  \A n \in 0..N : n \in S
<1> SUFFICES ASSUME NEW m \in 0..N, m \notin S PROVE FALSE
  OBVIOUS
<1> DEFINE T == {n \in 0..N : n \notin S}
<1>1. T \in SUBSET Nat /\ T # {}
  OBVIOUS
<1>2. PICK x \in T : \A y \in T : x <= y
  <2> HIDE DEF T
  <2> QED  BY <1>1, Least
<1>3. x \in 0..N /\ x \notin S /\ x # 0
  OBVIOUS
<1>4. x - 1 \in 0..N /\ x - 1 < x /\ x - 1 < N /\ (x - 1) + 1 = x
  BY <1>3
<1>5. x - 1 \in S
  BY <1>2, <1>4
<1>6. (x - 1) + 1 \in S
  BY <1>4, <1>5
<1> QED  BY <1>3, <1>4, <1>6

\* The least and the greatest of a nonempty set of lines.
LEMMA Ends ==
    ASSUME NEW N \in Nat, NEW T \in SUBSET (1..N), T # {}
    PROVE  /\ \E x \in T : \A y \in T : x <= y
           /\ \E x \in T : \A y \in T : y <= x
<1>1. T \in SUBSET Nat
  OBVIOUS
<1>2. \E x \in T : \A y \in T : x <= y
  BY <1>1, Least
<1> DEFINE U == {n \in Nat : N - n \in T}
<1>3. \A y \in T : y \in Nat /\ N - y \in U /\ N - (N - y) = y
  OBVIOUS
<1>4. U \in SUBSET Nat /\ U # {}
  BY <1>3
<1> HIDE DEF U
<1>5. PICK u \in U : \A w \in U : u <= w
  BY <1>4, Least
<1>6. u \in Nat /\ N - u \in T
  BY <1>4, <1>5 DEF U
<1>7. \A y \in T : y <= N - u
  BY <1>3, <1>5, <1>6, <1>4
<1> QED  BY <1>2, <1>6, <1>7

-----------------------------------------------------------------------------
(* The lineage of a path.                                                  *)

\* What a walk back through the entries keeps at every step holds of its end.
LEMMA WalkKeeps ==
    ASSUME NEW entries \in Seq(Entries), NEW X, NEW line \in X,
           \A i \in 1..Len(entries) : \A x \in X : Back(entries[i], x) \in X
    PROVE  Walk(entries, line) \in X
<1> DEFINE N == Len(entries)
           Step(f) == [n \in 0..N |-> IF n = 0 THEN line ELSE Back(entries[N + 1 - n], f[n - 1])]
           Upto(n) == {g \in [0..n -> X] :
                          g[0] = line /\ \A i \in 1..n : g[i] = Back(entries[N + 1 - i], g[i - 1])}
           S == {n \in 0..N : Upto(n) # {}}
<1>0. N \in Nat
  OBVIOUS
<1>1. 0 \in S
  <2>1. [i \in 0..0 |-> line] \in Upto(0)
    OBVIOUS
  <2> QED  BY <2>1, <1>0
<1>2. ASSUME NEW n \in 0..N, n \in S, n < N PROVE n + 1 \in S
  <2> PICK g \in Upto(n) : TRUE
    BY <1>2
  <2> DEFINE h == [i \in 0..(n + 1) |-> IF i = n + 1 THEN Back(entries[N + 1 - i], g[n]) ELSE g[i]]
  <2>1. N + 1 - (n + 1) \in 1..N /\ g[n] \in X
    BY <1>0, <1>2
  <2>2. Back(entries[N + 1 - (n + 1)], g[n]) \in X
    BY <2>1
  <2>3. h \in [0..(n + 1) -> X]
    BY <2>2, <1>0
  <2>4. h[0] = line /\ \A i \in 1..(n + 1) : h[i] = Back(entries[N + 1 - i], h[i - 1])
    BY <1>0
  <2> HIDE DEF h
  <2>5. h \in Upto(n + 1)
    BY <2>3, <2>4
  <2>6. n + 1 \in 0..N
    BY <1>2, <1>0
  <2> QED  BY <2>5, <2>6
<1>3. N \in S
  <2>1. N \in 0..N
    BY <1>0
  <2> HIDE DEF S, N
  <2> QED  BY <1>0, <1>1, <1>2, <2>1, Inductive
<1>4. PICK g \in Upto(N) : TRUE
  BY <1>3
<1>5. g = Step(g)
  BY <1>0
<1> DEFINE end == CHOOSE f : f = Step(f)
<1>6. end = Step(end) /\ Walk(entries, line) = end[N]
  BY <1>5 DEF Walk
<1> HIDE DEF end
<1>7. end[0] = line /\ \A n \in 1..N : end[n] = Back(entries[N + 1 - n], end[n - 1])
  <2>1. \A n \in 0..N : Step(end)[n] = IF n = 0 THEN line ELSE Back(entries[N + 1 - n], end[n - 1])
    OBVIOUS
  <2>2. \A n \in 0..N : end[n] = Step(end)[n]
    BY <1>6
  <2> QED  BY <2>1, <2>2, <1>0
<1> DEFINE K == {n \in 0..N : end[n] \in X}
<1>8. 0 \in K
  BY <1>7, <1>0
<1>9. ASSUME NEW n \in 0..N, n \in K, n < N PROVE n + 1 \in K
  <2>1. n + 1 \in 1..N /\ (n + 1) - 1 = n /\ N + 1 - (n + 1) \in 1..N /\ n + 1 \in 0..N
    BY <1>9, <1>0
  <2>2. end[n + 1] = Back(entries[N + 1 - (n + 1)], end[n])
    BY <1>7, <2>1
  <2>3. Back(entries[N + 1 - (n + 1)], end[n]) \in X
    BY <1>9, <2>1
  <2> QED  BY <2>1, <2>2, <2>3
<1>10. N \in K
  <2>1. N \in 0..N
    BY <1>0
  <2> HIDE DEF K, N
  <2> QED  BY <1>0, <1>8, <1>9, <2>1, Inductive
<1> QED  BY <1>6, <1>10

-----------------------------------------------------------------------------
(* The merge.                                                              *)

\* A changed line lies in a longest run of changed lines.
LEMMA RunAround ==
    ASSUME NEW base \in Contents, NEW changed \in Contents, NEW l \in Lines, changed[l] # base[l]
    PROVE  \E run \in Edits(base, changed) : run[1] <= l /\ l <= run[2]
<1> USE LinesAssumption DEF Lines
<1> DEFINE A == {k \in Lines : k <= l /\ \A m \in k..l : changed[m] # base[m]}
           B == {k \in Lines : l <= k /\ \A m \in l..k : changed[m] # base[m]}
<1>1. A \in SUBSET (1..LineCount) /\ B \in SUBSET (1..LineCount) /\ l \in A /\ l \in B
  OBVIOUS
<1>2. PICK x \in A : \A y \in A : x <= y
  <2> HIDE DEF A, B
  <2> QED  BY <1>1, Ends
<1>3. PICK z \in B : \A y \in B : y <= z
  <2> HIDE DEF A, B
  <2> QED  BY <1>1, Ends
<1>4. x \in Lines /\ z \in Lines /\ x <= l /\ l <= z
  OBVIOUS
<1>5. \A m \in x..z : changed[m] # base[m]
  BY <1>4
<1>6. ASSUME x - 1 \in Lines PROVE changed[x - 1] = base[x - 1]
  <2>1. (x - 1) \notin A
    BY <1>2, <1>4
  <2> QED  BY <2>1, <1>4, <1>6
<1>7. ASSUME z + 1 \in Lines PROVE changed[z + 1] = base[z + 1]
  <2>1. (z + 1) \notin B
    BY <1>3, <1>4
  <2> QED  BY <2>1, <1>4, <1>7
<1> HIDE DEF A, B
<1>8. <<x, z>> \in Edits(base, changed)
  BY <1>4, <1>5, <1>6, <1>7 DEF Edits
<1> QED  BY <1>8, <1>4

\* A line that the merge does not take from the live file is as it was in the
\* base: whoever changed a line of the live file since then keeps it.
THEOREM MergeKeepsConcurrentLines ==
    ASSUME NEW base \in Contents, NEW ours \in Contents, NEW current \in Contents,
           CanMerge(base, ours, current),
           NEW l \in Lines, Merge(base, ours, current)[l] # current[l]
    PROVE  current[l] = base[l]
<1>1. ours[l] # base[l] /\ ours[l] # current[l]
  BY DEF Merge
<1> SUFFICES ASSUME current[l] # base[l] PROVE FALSE
  OBVIOUS
<1>2. \A a \in Edits(base, ours), b \in Edits(base, current) :
          Overlap(a, b) => SameEdit(a, b, ours, current)
  BY <1>1 DEF CanMerge
<1>3. PICK a \in Edits(base, ours) : a[1] <= l /\ l <= a[2]
  BY <1>1, RunAround
<1>4. PICK b \in Edits(base, current) : b[1] <= l /\ l <= b[2]
  BY RunAround
<1>5. a \in Lines \X Lines /\ b \in Lines \X Lines
  BY DEF Edits
<1>6. Overlap(a, b)
  BY <1>3, <1>4, <1>5, LinesAssumption DEF Overlap, Lines
<1>7. \A k \in a[1]..a[2] : ours[k] = current[k]
  BY <1>2, <1>6 DEF SameEdit
<1> QED  BY <1>1, <1>3, <1>5, <1>7, LinesAssumption DEF Lines

LEMMA MergeType ==
    ASSUME NEW base \in Contents, NEW ours \in Contents, NEW current \in Contents
    PROVE  Merge(base, ours, current) \in Contents
BY DEF Merge, Contents

-----------------------------------------------------------------------------
(* The inductive invariant.                                                *)

\* What a session's turn captured, and what its request wrote, it has seen.
Seen ==
    /\ \A s \in turn, p \in Paths : baseline[s][p] # Missing => baseline[s][p] \in seen[s]
    /\ \A s \in Sessions : \A i \in 1..Len(journal[s]) :
          journal[s][i].tool = "write" => journal[s][i].after \in seen[s]

\* A call that writes has a content to write.
Writes == call # NoCall /\ call.tool = "write" => call.new \in Contents

IInv == TypeOK /\ Seen /\ Writes /\ StaleTargetsAreRefused

\* A path's lineage depends on the request's journal and its turn's baseline.
LEMMA LineageSame ==
    ASSUME NEW s, NEW p, journal'[s] = journal[s], baseline'[s] = baseline[s]
    PROVE  Lineage(s, p)' = Lineage(s, p)
BY DEF Lineage

\* A step of the walk back, when the writes it meets wrote contents in L.
Steps(L) == [origin : Paths, latest : L \cup {Missing}, created : BOOLEAN]

LEMMA BackKeeps ==
    ASSUME NEW L, NEW e \in Entries, e.tool = "write" => e.after \in L, NEW x \in Steps(L)
    PROVE  Back(e, x) \in Steps(L)
<1>1. CASE x.created
  BY <1>1 DEF Back
<1>2. CASE ~x.created /\ e.tool = "write" /\ e.path = x.origin /\ x.latest = Missing
  <2>1. Back(e, x) = [x EXCEPT !.latest = e.after]
    BY <1>2 DEF Back
  <2> QED  BY <2>1, <1>2 DEF Steps
<1>3. CASE ~x.created /\ e.tool = "move" /\ e.to = x.origin
  <2>1. Back(e, x) = [x EXCEPT !.origin = e.path]
    BY <1>3 DEF Back
  <2>2. e.path \in Paths
    BY <1>3 DEF Entries
  <2> QED  BY <2>1, <2>2 DEF Steps
<1>4. CASE ~x.created /\ e.tool = "create" /\ e.path = x.origin
  <2>1. Back(e, x) = [x EXCEPT !.created = TRUE]
    BY <1>4 DEF Back
  <2> QED  BY <2>1 DEF Steps
<1>5. CASE /\ ~x.created
           /\ ~(e.tool = "write" /\ e.path = x.origin /\ x.latest = Missing)
           /\ ~(e.tool = "move" /\ e.to = x.origin)
           /\ ~(e.tool = "create" /\ e.path = x.origin)
  BY <1>5 DEF Back
<1> QED  BY <1>1, <1>2, <1>3, <1>4, <1>5

\* The contents a lineage leads to were captured or written by the request.
LEMMA LineageSeen ==
    ASSUME TypeOK, Seen, NEW s \in turn, NEW p \in Paths
    PROVE  /\ Lineage(s, p).latest \in Contents \cup {Missing}
           /\ Lineage(s, p).baseline \in Contents \cup {Missing}
           /\ Lineage(s, p).latest # Missing => Lineage(s, p).latest \in seen[s]
           /\ Lineage(s, p).baseline # Missing => Lineage(s, p).baseline \in seen[s]
<1> DEFINE start == [origin |-> p, latest |-> Missing, created |-> FALSE]
           line == Walk(journal[s], start)
<1>1. s \in Sessions /\ journal[s] \in Seq(Entries) /\ baseline[s] \in Files
      /\ seen[s] \in SUBSET Contents
  BY DEF TypeOK
<1>2. start \in Steps(seen[s])
  BY DEF Steps
<1>3. ASSUME NEW i \in 1..Len(journal[s]), NEW x \in Steps(seen[s])
      PROVE  Back(journal[s][i], x) \in Steps(seen[s])
  <2>1. journal[s][i] \in Entries
    BY <1>1
  <2>2. journal[s][i].tool = "write" => journal[s][i].after \in seen[s]
    BY <1>1 DEF Seen
  <2> QED  BY <2>1, <2>2, BackKeeps
<1>4. line \in Steps(seen[s])
  <2> HIDE DEF start
  <2> QED  BY <1>1, <1>2, <1>3, WalkKeeps
<1>5. line.origin \in Paths /\ line.latest \in seen[s] \cup {Missing}
  <2> HIDE DEF line
  <2> QED  BY <1>4 DEF Steps
<1>6. /\ Lineage(s, p).latest = line.latest
      /\ Lineage(s, p).baseline \in {baseline[s][p], Missing, baseline[s][line.origin]}
  BY DEF Lineage
<1>7. \A q \in Paths : /\ baseline[s][q] \in Contents \cup {Missing}
                       /\ baseline[s][q] # Missing => baseline[s][q] \in seen[s]
  BY <1>1 DEF Seen, Files
<1> HIDE DEF line
<1> QED  BY <1>1, <1>5, <1>6, <1>7

-----------------------------------------------------------------------------
(* One lemma per step.                                                     *)

\* A call that begins: what it replaces of a captured file was seen.
LEMMA TakesKeeps ==
    ASSUME IInv, NEW s \in Sessions, s \in turn,
           NEW tool \in {"write", "create", "delete", "move"}, NEW p \in Paths, NEW to \in Paths,
           NEW asked \in Contents \cup {Missing}, NEW named \in SUBSET (Lines \X Versions),
           NEW content \in Contents \cup {Missing},
           Takes(s, tool, p, to, asked, named, content),
           tool = "write" => content \in Contents,
           tool # "create" /\ Lineage(s, p).baseline # Missing =>
               \A l \in Lines : content = Missing \/ content[l] # live[p][l] =>
                   \E text \in seen[s] : text[l] = live[p][l]
    PROVE  IInv'
<1>1. call' = [session |-> s, tool |-> tool, path |-> p, to |-> to,
               asked |-> asked, named |-> named, old |-> live[p], new |-> content]
      /\ live' = live /\ turn' = turn /\ baseline' = baseline /\ journal' = journal
      /\ seen' = seen /\ events < MaxEvents /\ events' = events + 1
  BY DEF Takes, Event
<1>2. live[p] \in Contents \cup {Missing} /\ TypeOK /\ Seen
  BY DEF IInv, TypeOK, Files
<1>3. call' \in Calls
  BY <1>1, <1>2 DEF Calls
<1>4. events' \in 0..MaxEvents
  BY <1>1, <1>2, BoundAssumption DEF TypeOK
<1>5. TypeOK'
  BY <1>1, <1>2, <1>3, <1>4 DEF TypeOK
<1>6. Seen' /\ Writes'
  BY <1>1, <1>2 DEF Seen, Writes
<1>7. StaleTargetsAreRefused'
  <2>1. Lineage(s, p)' = Lineage(s, p)
    BY <1>1, LineageSame
  <2>2. ASSUME (call # NoCall)', (call.tool # "create")',
               (Lineage(call.session, call.path).baseline # Missing)'
        PROVE  OnlySeenText'
    <3>1. tool # "create" /\ Lineage(s, p).baseline # Missing
      BY <2>2, <2>1, <1>1
    <3>2. \A l \in Replaced' : l \in Lines /\ (content = Missing \/ content[l] # live[p][l])
      BY <1>1 DEF Replaced
    <3>3. \A l \in Replaced' : \E text \in seen[s] : text[l] = live[p][l]
      BY <3>1, <3>2
    <3> QED  BY <3>3, <1>1 DEF OnlySeenText
  <2> QED  BY <2>2 DEF StaleTargetsAreRefused
<1> QED  BY <1>5, <1>6, <1>7 DEF IInv

\* What a merge does not take from the live file was in its base.
LEMMA MergeOnlySeen ==
    ASSUME NEW base \in Contents, NEW ours \in Contents, NEW current \in Contents,
           CanMerge(base, ours, current), NEW known, base \in known
    PROVE  /\ Merge(base, ours, current) \in Contents
           /\ \A l \in Lines : Merge(base, ours, current)[l] # current[l] =>
                  \E text \in known : text[l] = current[l]
BY MergeType, MergeKeepsConcurrentLines

LEMMA WriteKeeps ==
    ASSUME IInv, NEW s \in Sessions, NEW p \in Paths, NEW code \in Contents, FileWrite(s, p, code)
    PROVE  IInv'
<1> DEFINE line == Lineage(s, p)
<1>1. s \in turn /\ live[p] # Missing
  BY DEF FileWrite, Free
<1>2. /\ line.baseline \in Contents \cup {Missing}
      /\ line.baseline # Missing => line.baseline \in seen[s]
  BY <1>1, LineageSeen DEF IInv
<1>3. live[p] \in Contents
  BY <1>1 DEF IInv, TypeOK, Files
<1>4. {} \in SUBSET (Lines \X Versions) /\ Missing \notin Contents
  BY MissingAssumption
<1>5. CASE /\ line.baseline # Missing
           /\ CanMerge(line.baseline, code, live[p])
           /\ Takes(s, "write", p, p, code, {}, Merge(line.baseline, code, live[p]))
  <2> DEFINE merged == Merge(line.baseline, code, live[p])
  <2>1. /\ merged \in Contents
        /\ \A l \in Lines : merged[l] # live[p][l] => \E text \in seen[s] : text[l] = live[p][l]
    BY <1>2, <1>3, <1>5, MergeOnlySeen
  <2>2. Takes(s, "write", p, p, code, {}, merged)
    BY <1>5
  <2> HIDE DEF merged
  <2> QED  BY <1>1, <1>4, <2>1, <2>2, TakesKeeps
<1>6. CASE line.baseline = Missing /\ Takes(s, "write", p, p, code, {}, code)
  BY <1>1, <1>4, <1>6, TakesKeeps
<1> QED  BY <1>5, <1>6 DEF FileWrite

LEMMA EditKeeps ==
    ASSUME IInv, NEW s \in Sessions, NEW p \in Paths, NEW l \in Lines,
           NEW from \in Versions, NEW to \in Versions, FileEdit(s, p, l, from, to)
    PROVE  IInv'
<1> DEFINE line == Lineage(s, p)
           base == IF line.latest # Missing THEN line.latest ELSE line.baseline
           Ours(content) == [content EXCEPT ![l] = to]
           named == {<<l, from>>}
<1>1. s \in turn /\ live[p] # Missing
  BY DEF FileEdit, Free
<1>2. line.baseline # Missing => base \in Contents /\ base \in seen[s]
  BY <1>1, LineageSeen DEF IInv
<1>3. live[p] \in Contents
  BY <1>1 DEF IInv, TypeOK, Files
<1>4. named \in SUBSET (Lines \X Versions) /\ Missing \notin Contents
  BY MissingAssumption
<1>5. \A content \in Contents : Ours(content) \in Contents
  BY DEF Contents
<1>6. CASE /\ line.baseline # Missing
           /\ CanMerge(base, Ours(base), live[p])
           /\ Takes(s, "write", p, p, Ours(base), named, Merge(base, Ours(base), live[p]))
  <2> DEFINE ours == Ours(base)
             merged == Merge(base, ours, live[p])
  <2>0. base \in Contents /\ base \in seen[s] /\ ours \in Contents /\ CanMerge(base, ours, live[p])
    BY <1>2, <1>5, <1>6
  <2>1. /\ merged \in Contents
        /\ \A k \in Lines : merged[k] # live[p][k] => \E text \in seen[s] : text[k] = live[p][k]
    <3> HIDE DEF base, ours
    <3> QED  BY <2>0, <1>3, MergeOnlySeen
  <2>2. Takes(s, "write", p, p, ours, named, merged)
    BY <1>6
  <2> HIDE DEF merged, ours, named, base
  <2> QED  BY <1>1, <1>4, <2>0, <2>1, <2>2, TakesKeeps
<1>7. CASE line.baseline = Missing /\ Takes(s, "write", p, p, Ours(live[p]), named, Ours(live[p]))
  <2> DEFINE ours == Ours(live[p])
  <2>1. ours \in Contents /\ Takes(s, "write", p, p, ours, named, ours)
    BY <1>3, <1>5, <1>7
  <2> HIDE DEF ours, named
  <2> QED  BY <1>1, <1>4, <1>7, <2>1, TakesKeeps
<1> QED  BY <1>6, <1>7 DEF FileEdit

LEMMA CreateKeeps ==
    ASSUME IInv, NEW s \in Sessions, NEW p \in Paths, NEW code \in Contents, FileCreate(s, p, code)
    PROVE  IInv'
<1>1. s \in turn /\ Takes(s, "create", p, p, code, {}, code)
  BY DEF FileCreate, Free
<1> QED  BY <1>1, TakesKeeps

\* ensure_source_unchanged: the live file is what the request captured or wrote.
LEMMA UnchangedSeen ==
    ASSUME TypeOK, Seen, NEW s \in turn, NEW p \in Paths, Unchanged(s, p),
           Lineage(s, p).baseline # Missing
    PROVE  live[p] \in seen[s]
BY LineageSeen DEF Unchanged

LEMMA RemoveKeeps ==
    ASSUME IInv, NEW s \in Sessions, NEW p \in Paths, NEW to \in Paths,
           NEW tool \in {"delete", "move"},
           Free(s), Unchanged(s, p), Takes(s, tool, p, to, Missing, {}, Missing)
    PROVE  IInv'
<1>1. s \in turn /\ TypeOK /\ Seen
  BY DEF Free, IInv
<1>2. Lineage(s, p).baseline # Missing =>
          \A l \in Lines : \E text \in seen[s] : text[l] = live[p][l]
  BY <1>1, UnchangedSeen
<1>3. {} \in SUBSET (Lines \X Versions) /\ tool \in {"write", "create", "delete", "move"}
      /\ tool # "write"
  OBVIOUS
<1> QED  BY <1>1, <1>2, <1>3, TakesKeeps

\* A step that leaves alone the call and what its session captured, saw and
\* did, keeps what the call promises.
LEMMA CallStays ==
    ASSUME IInv, call' = call,
           call # NoCall => /\ journal'[call.session] = journal[call.session]
                            /\ baseline'[call.session] = baseline[call.session]
                            /\ seen'[call.session] = seen[call.session]
    PROVE  Writes' /\ StaleTargetsAreRefused'
<1>1. Writes'
  BY DEF IInv, Writes
<1>2. ASSUME (call # NoCall)', (call.tool # "create")',
             (Lineage(call.session, call.path).baseline # Missing)'
      PROVE  OnlySeenText'
  <2>1. call # NoCall /\ call.tool # "create"
    BY <1>2
  <2>2. Lineage(call.session, call.path)' = Lineage(call.session, call.path)
    BY <2>1 DEF Lineage
  <2>3. OnlySeenText
    BY <2>1, <2>2, <1>2 DEF IInv, StaleTargetsAreRefused
  <2> QED  BY <2>1, <2>3 DEF OnlySeenText, Replaced
<1> QED  BY <1>1, <1>2 DEF StaleTargetsAreRefused

LEMMA CommitKeeps ==
    ASSUME IInv, Commit
    PROVE  IInv'
<1>0. /\ call # NoCall /\ Possible /\ live' = Changed
      /\ journal' = [journal EXCEPT ![call.session] = Append(@, Entry)]
      /\ seen' = [seen EXCEPT ![call.session] = @ \cup Captured(call.new)]
      /\ call' = NoCall /\ turn' = turn /\ baseline' = baseline /\ events' = events
  BY DEF Commit
<1>1. /\ TypeOK /\ Seen /\ Writes
      /\ call \in Calls /\ call.session \in Sessions
      /\ call.path \in Paths /\ call.to \in Paths /\ call.new \in Contents \cup {Missing}
      /\ call.tool \in {"write", "create", "delete", "move"}
  BY <1>0 DEF IInv, TypeOK, Calls
<1>2. call.tool = "write" => call.new \in Contents
  BY <1>0, <1>1 DEF Writes
<1>3. Captured(call.new) \in SUBSET Contents
  BY <1>1 DEF Captured
<1>4. Entry \in Entries
  <2>1. CASE call.tool = "move"
    BY <2>1, <1>1 DEF Entry, Entries
  <2>2. CASE call.tool = "write"
    BY <2>2, <1>1, <1>2 DEF Entry, Entries
  <2>3. CASE call.tool \in {"create", "delete"}
    BY <2>3, <1>1 DEF Entry, Entries
  <2> QED  BY <1>1, <2>1, <2>2, <2>3
<1>5. live' \in Files
  <2>1. live \in Files
    BY <1>1 DEF TypeOK
  <2>2. CASE call.tool = "move"
    <3>1. live' = [live EXCEPT ![call.to] = live[call.path], ![call.path] = Missing]
      BY <2>2, <1>0 DEF Changed
    <3> QED  BY <2>1, <3>1, <1>1 DEF Files
  <2>3. CASE call.tool # "move"
    <3>1. live' = [live EXCEPT ![call.path] = call.new]
      BY <2>3, <1>0 DEF Changed
    <3> QED  BY <2>1, <3>1, <1>1 DEF Files
  <2> QED  BY <2>2, <2>3
<1>6. journal' \in [Sessions -> Seq(Entries)]
  <2>1. journal \in [Sessions -> Seq(Entries)]
    BY <1>1 DEF TypeOK
  <2>2. Append(journal[call.session], Entry) \in Seq(Entries)
    BY <2>1, <1>1, <1>4
  <2> QED  BY <2>1, <2>2, <1>0, <1>1
<1>7. TypeOK'
  <2>1. seen' \in [Sessions -> SUBSET Contents]
    <3>1. seen \in [Sessions -> SUBSET Contents]
      BY <1>1 DEF TypeOK
    <3> QED  BY <3>1, <1>0, <1>1, <1>3
  <2> QED  BY <1>0, <1>1, <1>5, <1>6, <2>1 DEF TypeOK
<1>8. \A s \in Sessions : seen[s] \subseteq seen'[s]
  BY <1>0, <1>1 DEF TypeOK
<1>9. Seen'
  <2>1. \A s \in turn', p \in Paths : baseline'[s][p] # Missing => baseline'[s][p] \in seen'[s]
    BY <1>0, <1>1, <1>8 DEF Seen, TypeOK
  <2>2. ASSUME NEW s \in Sessions, NEW i \in 1..Len(journal'[s]), journal'[s][i].tool = "write"
        PROVE  journal'[s][i].after \in seen'[s]
    <3>0. journal \in [Sessions -> Seq(Entries)] /\ journal[s] \in Seq(Entries)
      BY <1>1 DEF TypeOK
    <3>1. \A j \in 1..Len(journal[s]) : journal[s][j].tool = "write" => journal[s][j].after \in seen'[s]
      BY <1>1, <1>8 DEF Seen
    <3>2. CASE s # call.session
      <4>1. journal'[s] = journal[s]
        BY <1>0, <3>0, <3>2
      <4> QED  BY <4>1, <2>2, <3>1
    <3>3. CASE s = call.session
      <4>1. journal'[s] = Append(journal[s], Entry)
        BY <1>0, <3>0, <3>3
      <4>2. CASE i \in 1..Len(journal[s])
        <5>1. journal'[s][i] = journal[s][i]
          BY <4>1, <4>2, <3>0, <1>4
        <5> QED  BY <5>1, <2>2, <3>1, <4>2
      <4>3. CASE i = Len(journal[s]) + 1
        <5>1. journal'[s][i] = Entry
          BY <4>1, <4>3, <3>0, <1>4
        <5>2. call.tool = "write" /\ Entry.after = call.new
          BY <5>1, <2>2, <1>1 DEF Entry
        <5>3. call.new \in seen'[s]
          BY <5>2, <1>0, <1>1, <1>2, <3>3, MissingAssumption DEF Captured, TypeOK
        <5> QED  BY <5>1, <5>2, <5>3
      <4>4. i \in 1..Len(journal[s]) \/ i = Len(journal[s]) + 1
        BY <4>1, <2>2, <3>0, <1>4
      <4> QED  BY <4>2, <4>3, <4>4
    <3> QED  BY <3>2, <3>3
  <2> QED  BY <2>1, <2>2 DEF Seen
<1>10. Writes' /\ StaleTargetsAreRefused'
  BY <1>0 DEF Writes, StaleTargetsAreRefused
<1> QED  BY <1>7, <1>9, <1>10 DEF IInv

LEMMA FailKeeps ==
    ASSUME IInv, Fail
    PROVE  IInv'
BY DEF IInv, Fail, TypeOK, Seen, Writes, StaleTargetsAreRefused

LEMMA BeginTurnKeeps ==
    ASSUME IInv, NEW s \in Sessions, BeginTurn(s)
    PROVE  IInv'
<1>0. /\ call # NoCall => call.session # s
      /\ turn' = turn \cup {s}
      /\ baseline' = [baseline EXCEPT ![s] = live]
      /\ seen' = [seen EXCEPT ![s] = @ \cup ({live[p] : p \in Paths} \ {Missing})]
      /\ live' = live /\ journal' = journal /\ call' = call
      /\ events < MaxEvents /\ events' = events + 1
  BY DEF BeginTurn, Quiet, Event
<1>1. TypeOK /\ Seen /\ live \in Files
  BY DEF IInv, TypeOK
<1>2. {live[p] : p \in Paths} \ {Missing} \in SUBSET Contents
  BY <1>1 DEF Files
<1>3. baseline' \in [Sessions -> Files] /\ seen' \in [Sessions -> SUBSET Contents]
  <2>1. baseline \in [Sessions -> Files] /\ seen \in [Sessions -> SUBSET Contents]
    BY <1>1 DEF TypeOK
  <2> QED  BY <2>1, <1>0, <1>1, <1>2
<1>4. TypeOK'
  BY <1>0, <1>1, <1>3, BoundAssumption DEF TypeOK
<1>5. /\ \A r \in Sessions : seen[r] \subseteq seen'[r]
      /\ \A r \in Sessions : r # s => baseline'[r] = baseline[r] /\ seen'[r] = seen[r]
  BY <1>0, <1>1 DEF TypeOK
<1>6. Seen'
  <2>1. ASSUME NEW r \in turn', NEW p \in Paths, baseline'[r][p] # Missing
        PROVE  baseline'[r][p] \in seen'[r]
    <3>1. CASE r = s
      <4>1. baseline'[r] = live /\ seen'[r] = seen[s] \cup ({live[q] : q \in Paths} \ {Missing})
        BY <3>1, <1>0, <1>1 DEF TypeOK
      <4> QED  BY <4>1, <2>1
    <3>2. CASE r # s
      BY <3>2, <1>0, <1>1, <1>5, <2>1 DEF Seen, TypeOK
    <3> QED  BY <3>1, <3>2
  <2>2. \A r \in Sessions : \A i \in 1..Len(journal'[r]) :
            journal'[r][i].tool = "write" => journal'[r][i].after \in seen'[r]
    BY <1>0, <1>1, <1>5 DEF Seen
  <2> QED  BY <2>1, <2>2 DEF Seen
<1>7. call # NoCall => call.session \in Sessions
  BY <1>1 DEF TypeOK, Calls
<1>8. Writes' /\ StaleTargetsAreRefused'
  BY <1>0, <1>5, <1>7, CallStays
<1> QED  BY <1>4, <1>6, <1>8 DEF IInv

LEMMA EndTurnKeeps ==
    ASSUME IInv, NEW s \in Sessions, EndTurn(s)
    PROVE  IInv'
<1>1. /\ turn' = turn \ {s} /\ live' = live /\ baseline' = baseline /\ journal' = journal
      /\ call' = call /\ seen' = seen /\ events' = events
  BY DEF EndTurn
<1>2. TypeOK'
  BY <1>1 DEF IInv, TypeOK
<1>3. Seen'
  BY <1>1 DEF IInv, Seen
<1>4. Writes' /\ StaleTargetsAreRefused'
  BY <1>1, CallStays
<1> QED  BY <1>2, <1>3, <1>4 DEF IInv

LEMMA NewRequestKeeps ==
    ASSUME IInv, NEW s \in Sessions, NewRequest(s)
    PROVE  IInv'
<1>1. /\ s \notin turn /\ (call # NoCall => call.session # s)
      /\ journal' = [journal EXCEPT ![s] = << >>] /\ seen' = [seen EXCEPT ![s] = {}]
      /\ live' = live /\ turn' = turn /\ baseline' = baseline /\ call' = call /\ events' = events
  BY DEF NewRequest, Quiet
<1>2. TypeOK /\ Seen
  BY DEF IInv
<1>3. journal' \in [Sessions -> Seq(Entries)] /\ seen' \in [Sessions -> SUBSET Contents]
  BY <1>1, <1>2 DEF TypeOK
<1>4. TypeOK'
  BY <1>1, <1>2, <1>3 DEF TypeOK
<1>5. /\ \A r \in Sessions : r # s => journal'[r] = journal[r] /\ seen'[r] = seen[r]
      /\ journal'[s] = << >>
  BY <1>1, <1>2 DEF TypeOK
<1>6. Seen'
  <2>1. \A r \in turn : r \in Sessions /\ r # s
    BY <1>1, <1>2 DEF TypeOK
  <2>2. \A i \in 1..Len(journal'[s]) : FALSE
    BY <1>5
  <2> QED  BY <1>1, <1>2, <1>5, <2>1, <2>2 DEF Seen
<1>7. call # NoCall => call.session \in Sessions /\ call.session # s
  BY <1>1, <1>2 DEF TypeOK, Calls
<1>8. Writes' /\ StaleTargetsAreRefused'
  BY <1>1, <1>5, <1>7, CallStays
<1> QED  BY <1>4, <1>6, <1>8 DEF IInv

LEMMA UserSavesKeeps ==
    ASSUME IInv, NEW p \in Paths, NEW file \in Contents \cup {Missing}, UserSaves(p, file)
    PROVE  IInv'
<1>1. /\ live' = [live EXCEPT ![p] = file] /\ turn' = turn /\ baseline' = baseline
      /\ journal' = journal /\ call' = call /\ seen' = seen
      /\ events < MaxEvents /\ events' = events + 1
  BY DEF UserSaves, Event
<1>2. live' \in Files
  <2>1. live \in Files
    BY DEF IInv, TypeOK
  <2> QED  BY <1>1, <2>1 DEF Files
<1>3. TypeOK'
  BY <1>1, <1>2, BoundAssumption DEF IInv, TypeOK
<1>4. Seen'
  BY <1>1 DEF IInv, Seen
<1>5. Writes' /\ StaleTargetsAreRefused'
  BY <1>1, CallStays
<1> QED  BY <1>3, <1>4, <1>5 DEF IInv

-----------------------------------------------------------------------------
(* The theorems.                                                           *)

\* Every reachable state satisfies the inductive invariant.
THEOREM SourcesInvariant == Spec => []IInv
<1>1. ASSUME Init PROVE IInv
  <2>1. TypeOK
    BY <1>1, BoundAssumption DEF Init, TypeOK, Files
  <2>2. Seen
    BY <1>1 DEF Init, Seen
  <2>3. Writes /\ StaleTargetsAreRefused
    BY <1>1 DEF Init, Writes, StaleTargetsAreRefused
  <2> QED  BY <2>1, <2>2, <2>3 DEF IInv
<1>2. ASSUME IInv, Next PROVE IInv'
  <2>1. ASSUME NEW s \in Sessions, NEW p \in Paths, NEW code \in Contents,
               FileWrite(s, p, code) \/ FileCreate(s, p, code)
        PROVE  IInv'
    BY <1>2, <2>1, WriteKeeps, CreateKeeps
  <2>2. ASSUME NEW s \in Sessions, NEW p \in Paths, NEW l \in Lines, NEW from \in Versions,
               NEW to \in Versions, FileEdit(s, p, l, from, to)
        PROVE  IInv'
    BY <1>2, <2>2, EditKeeps
  <2>3. ASSUME NEW s \in Sessions, NEW p \in Paths, FileDelete(s, p)
        PROVE  IInv'
    BY <1>2, <2>3, RemoveKeeps DEF FileDelete
  <2>4. ASSUME NEW s \in Sessions, NEW p \in Paths, NEW to \in Paths, FileMove(s, p, to)
        PROVE  IInv'
    BY <1>2, <2>4, RemoveKeeps DEF FileMove
  <2>5. ASSUME NEW s \in Sessions, BeginTurn(s) \/ EndTurn(s) \/ NewRequest(s)
        PROVE  IInv'
    BY <1>2, <2>5, BeginTurnKeeps, EndTurnKeeps, NewRequestKeeps
  <2>6. CASE Commit \/ Fail
    BY <1>2, <2>6, CommitKeeps, FailKeeps
  <2>7. ASSUME NEW p \in Paths, NEW file \in Contents \cup {Missing}, UserSaves(p, file)
        PROVE  IInv'
    BY <1>2, <2>7, UserSavesKeeps
  <2> QED  BY <1>2, <2>1, <2>2, <2>3, <2>4, <2>5, <2>6, <2>7 DEF Next
<1>3. ASSUME IInv, UNCHANGED vars PROVE IInv'
  <2>1. /\ live' = live /\ turn' = turn /\ baseline' = baseline /\ journal' = journal
        /\ call' = call /\ seen' = seen /\ events' = events
    BY <1>3 DEF vars
  <2>2. TypeOK' /\ Seen'
    BY <1>3, <2>1 DEF IInv, TypeOK, Seen
  <2>3. Writes' /\ StaleTargetsAreRefused'
    BY <1>3, <2>1, CallStays
  <2> QED  BY <2>2, <2>3 DEF IInv
<1> QED  BY <1>1, <1>2, <1>3, PTL DEF Spec

\* Every variable of the source tools keeps its type, and no call outlives its
\* session's turn, for every set of sessions, paths, texts and lines.
THEOREM SourcesTypeCorrect == Spec => []TypeOK
<1>1. IInv => TypeOK
  BY DEF IInv
<1> QED  BY <1>1, SourcesInvariant, PTL

\* Whatever sessions and the user do, a call that replaces, removes or moves a
\* file its turn captured takes no line that someone changed since the session
\* saw it.
THEOREM StaleRefused == Spec => []StaleTargetsAreRefused
<1>1. IInv => StaleTargetsAreRefused
  BY DEF IInv
<1> QED  BY <1>1, SourcesInvariant, PTL
================================================================================
