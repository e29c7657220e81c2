----------------------------- MODULE NativeEdits -----------------------------
(***************************************************************************)
(* The native calls that change an existing map: the four managed-sound    *)
(* calls and the edit batch.  Each one loads the input, checks it, applies *)
(* the request in memory one item at a time, checks the result, saves a    *)
(* temporary, and promotes it to the output path.  A save first deletes    *)
(* every string no reference names, those of the input as well.  The sound *)
(* calls reopen and check the temporary before they promote it, so on a    *)
(* map with such a string they fail; the edit batch checks the archive     *)
(* first and reopens the map only after it has promoted it.                *)
(* A save may report success and still leave a damaged file, any step that *)
(* touches a file may fail, and the process may die between two steps.     *)
(***************************************************************************)
EXTENDS GameStrings, FiniteSets

CONSTANTS
    NameTexts,      \* the names an edit may set
    Pinned,         \* locations a trigger refers to
    InitialMaps,    \* the maps a caller may start from
    Ops,            \* the calls a caller makes
    Absent,         \* no file
    Damaged         \* an archive with the right assets whose map does not load

ASSUME NamesAssumption == NameTexts \subseteq (Texts \cup {Empty}) \ Paths
ASSUME SlotsAssumption == IsFiniteSet(Slots)

\* Like every map that is loaded, an initial one stores nothing beyond its table.
ASSUME MapsAssumption ==
    /\ InitialMaps \subseteq Maps
    /\ \A m \in InitialMaps : \A id \in Ids : m.strings[id] # None => id <= m.size
ASSUME FilesAssumption == Absent \notin Maps /\ Damaged \notin Maps /\ Absent # Damaged

VARIABLES
    input,          \* the map on disk
    call,           \* the call that runs, or the last one
    mem,            \* the map in memory
    todo,           \* the items of the call not yet applied
    tmp,            \* the temporary next to the output
    out,            \* the output path
    pc              \* what the call does next

vars == <<input, call, mem, todo, tmp, out, pc>>

Files == Maps \cup {Absent, Damaged}

\* No native call names a trigger, and a location a trigger uses keeps its slot.
Nameable == {"title", "force", "location"} \cap Users
Changes == UNION {[us -> NameTexts \cup {None}] : us \in SUBSET Nameable \ {{}}}
Edits == {[op |-> "edit", names |-> n] : n \in
            {n \in Changes : \A u \in DOMAIN n : n[u] = None => u \in EditorUsers \ Pinned}}
Adds == {[op |-> "add", paths |-> ps] : ps \in SUBSET Paths \ {{}}}
Replaces == {[op |-> "replace", old |-> pq[1], new |-> pq[2]] :
                pq \in {pq \in Paths \X Paths : pq[1] # pq[2]}}
Removes == {[op |-> "remove", slots |-> ss] : ss \in SUBSET Slots \ {{}}}
Requests == {c \in Adds \cup Replaces \cup Removes \cup Edits : c.op \in Ops}
ASSUME RequestsAssumption == Requests # {}

-----------------------------------------------------------------------------
\* What a call refuses before it changes anything.

New(m, c) == {p \in c.paths : ~Registered(m, p)}

AdmitsAdd(m, c) ==
    /\ \A p \in New(m, c) : Vacant(m, p)
    /\ Cardinality(New(m, c)) <= Cardinality(FreeSlots(m))

AdmitsReplace(m, c) ==
    /\ m.assets[c.old] # "absent"
    /\ FindString(m, c.old) # 0
    /\ Cardinality(SlotsOf(m, FindString(m, c.old))) = 1
    /\ Vacant(m, c.new)

AdmitsRemove(m, c) ==
    \A s \in c.slots :
        LET id == m.slots[s]
            path == TextAt(m, id)
        IN /\ id # 0 /\ path \notin {None, Empty}
           /\ SlotsOf(m, id) = {s}
           /\ ~OtherUsed(m, id)
           /\ \A o \in Slots \ c.slots : m.slots[o] # 0 => TextAt(m, m.slots[o]) # path

Admits(m, c) ==
    CASE c.op = "add"     -> AdmitsAdd(m, c)
      [] c.op = "replace" -> AdmitsReplace(m, c)
      [] c.op = "remove"  -> AdmitsRemove(m, c)
      [] c.op = "edit"    -> TRUE

Items(m, c) ==
    CASE c.op = "add"     -> New(m, c)
      [] c.op = "replace" -> {c.new}
      [] c.op = "remove"  -> c.slots
      [] c.op = "edit"    -> DOMAIN c.names

-----------------------------------------------------------------------------
\* One item applied in memory, and when that is possible.

OldSlot(m, c) == CHOOSE s \in SlotsOf(m, FindString(m, c.old)) : TRUE
WithoutOld(m, c) == RemoveSound(m, OldSlot(m, c))

CanApply(m, c, item) ==
    CASE c.op = "add"     -> CanAddSound(m, item)
      [] c.op = "replace" -> CanAddSound(WithoutOld(m, c), item)
      [] c.op = "remove"  -> TRUE
      [] c.op = "edit"    -> c.names[item] = None \/ CanAddString(m, c.names[item])

Apply(m, c, item) ==
    CASE c.op = "add"     -> AddSound(m, item)
      [] c.op = "replace" -> AddSound(WithoutOld(m, c), item)
      [] c.op = "remove"  -> RemoveSound(m, item)
      [] c.op = "edit"    -> IF c.names[item] = None THEN ClearName(m, item)
                             ELSE SetName(m, item, c.names[item])

\* The checks on a changed map, in memory and again on the reopened one.
StringsKept(before, after, ids) ==
    /\ before.size <= after.size
    /\ \A id \in 1..before.size \ ids : after.strings[id] = before.strings[id]

SameReferences(before, after) == after.refs = before.refs

AddChecks(before, after, c) ==
    LET ids == {FindString(after, p) : p \in New(before, c)} IN
    /\ \A s \in Slots : after.slots[s] = before.slots[s] \/ before.slots[s] = 0
    /\ \A p \in c.paths :
        /\ FindString(after, p) # 0
        /\ \E s \in Slots : SlotsOf(after, FindString(after, p)) = {s}
    /\ StringsKept(before, after, ids)
    /\ SameReferences(before, after)

ReplaceChecks(before, after, c) ==
    LET id == FindString(before, c.old) IN
    /\ FindString(after, c.new) = id
    /\ FindString(after, c.old) = 0
    /\ after.slots = before.slots
    /\ StringsKept(before, after, {id})
    /\ SameReferences(before, after)

RemoveChecks(before, after, c) ==
    LET ids == {before.slots[s] : s \in c.slots} IN
    /\ after.slots = [s \in Slots |-> IF s \in c.slots THEN 0 ELSE before.slots[s]]
    /\ \A id \in ids : TextAt(after, id) \in {None, Empty}
    /\ StringsKept(before, after, ids)
    /\ SameReferences(before, after)

Checks(before, after, c) ==
    CASE c.op = "add"     -> AddChecks(before, after, c)
      [] c.op = "replace" -> ReplaceChecks(before, after, c)
      [] c.op = "remove"  -> RemoveChecks(before, after, c)
      [] c.op = "edit"    -> TRUE

\* The assets the saved archive must hold.
ExpectedAssets(before, c) ==
    CASE c.op = "add"     -> [p \in Paths |-> IF p \in c.paths THEN "ogg" ELSE before.assets[p]]
      [] c.op = "replace" -> [before.assets EXCEPT ![c.old] = "absent", ![c.new] = "ogg"]
      [] c.op = "remove"  ->
            LET gone == {TextAt(before, before.slots[s]) : s \in c.slots} IN
            [p \in Paths |-> IF p \in gone THEN "absent" ELSE before.assets[p]]
      [] c.op = "edit"    -> before.assets

-----------------------------------------------------------------------------
Init ==
    /\ input \in InitialMaps
    /\ call = CHOOSE c \in Requests : TRUE
    /\ mem = input /\ todo = {}
    /\ tmp = Absent /\ out = Absent
    /\ pc = "idle"

\* The call is over and its map in memory is gone.
Over(map) == pc' = "idle" /\ mem' = map /\ todo' = {}

\* The call ends, or the process dies, and the files stay as they are.
LeaveFiles == Over(input) /\ UNCHANGED <<input, call, tmp, out>>

\* A call that fails removes its temporary and its output.
Fail == Over(input) /\ tmp' = Absent /\ out' = Absent /\ UNCHANGED <<input, call>>

\* The call is made with an output path that holds nothing.
Start ==
    /\ pc = "idle"
    /\ call' \in {c \in Requests : Admits(input, c)}
    /\ mem' = input
    /\ todo' = Items(input, call')
    /\ tmp' = Absent /\ out' = Absent
    /\ pc' = "mutate"
    /\ UNCHANGED input

Mutate ==
    /\ pc = "mutate"
    /\ \E item \in todo :
        \/ /\ CanApply(mem, call, item)
           /\ mem' = Apply(mem, call, item)
           /\ todo' = todo \ {item}
           /\ UNCHANGED <<input, call, tmp, out, pc>>
        \/ /\ ~CanApply(mem, call, item)
           /\ Fail

\* A batch whose sounds are all registered copies the input as it is.  Every
\* other call saves the map in memory, without the strings nobody refers to.
Copies == call.op = "add" /\ New(input, call) = {}
Swept == IF Copies THEN mem ELSE DeleteUnusedStrings(mem)
Saved == IF Copies THEN input ELSE Reloaded(Swept)

Save ==
    /\ pc = "mutate" /\ todo = {}
    /\ \/ /\ Checks(input, mem, call)
          /\ mem' = Swept
          /\ tmp' \in {Saved, [Saved EXCEPT !.assets = input.assets], Damaged}
          /\ pc' = "verify"
          /\ UNCHANGED <<input, call, todo, out>>
       \/ Fail

\* Faulty: the archive of a sound call is not compared.
VerifiedByStrings ==
    IF call.op = "edit"
    THEN tmp # Damaged => tmp.assets = input.assets
    ELSE tmp # Damaged /\ Checks(input, tmp, call)

\* An edit compares the archives only: a damaged map passes.
Verified ==
    IF call.op = "edit"
    THEN tmp # Damaged => tmp.assets = input.assets
    ELSE /\ tmp # Damaged
         /\ tmp.assets = ExpectedAssets(input, call)
         /\ Checks(input, tmp, call)

\* An edit that cannot read the archives leaves the temporary.
Verify ==
    /\ pc = "verify"
    /\ \/ /\ Verified
          /\ pc' = "promote"
          /\ UNCHANGED <<input, call, mem, todo, tmp, out>>
       \/ ~Verified /\ Fail
       \/ call.op = "edit" /\ LeaveFiles

Promote ==
    /\ pc = "promote"
    /\ \/ /\ out' = tmp /\ tmp' = Absent
          /\ pc' = "finish"
          /\ UNCHANGED <<input, call, mem, todo>>
       \/ Fail

\* Faulty: an edit that cannot open its output returns it.
FinishUnopened ==
    /\ pc = "finish"
    /\ pc' = "returned"
    /\ UNCHANGED <<input, call, mem, todo, tmp, out>>

\* The sound calls hash the output again; the edit opens it for the first
\* time, and leaves it where it cannot hash it.
Finish ==
    /\ pc = "finish"
    /\ \/ /\ call.op = "edit" => out # Damaged
          /\ pc' = "returned"
          /\ UNCHANGED <<input, call, mem, todo, tmp, out>>
       \/ /\ call.op = "edit" => out = Damaged
          /\ Fail
       \/ /\ call.op = "edit" /\ out # Damaged
          /\ LeaveFiles

\* The caller makes the output its map, or drops it.
Adopt ==
    /\ pc = "returned"
    /\ input' = out
    /\ out' = Absent
    /\ Over(out) /\ UNCHANGED <<call, tmp>>

Discard ==
    /\ pc = "returned"
    /\ out' = Absent
    /\ Over(input) /\ UNCHANGED <<input, call, tmp>>

Crash == pc \notin {"idle", "returned"} /\ LeaveFiles

Next ==
    \/ Start \/ Mutate \/ Save \/ Verify \/ Promote \/ Finish
    \/ Adopt \/ Discard \/ Crash

Spec == Init /\ [][Next]_vars

-----------------------------------------------------------------------------
\* Every map a call reads or writes is a map, and a call has items left only
\* while it changes the map in memory.
TypeOK ==
    /\ input \in Maps /\ mem \in Maps
    /\ call \in Requests
    /\ tmp \in Files /\ out \in Files
    /\ pc \in {"idle", "mutate", "verify", "promote", "finish", "returned"}
    /\ todo # {} => pc = "mutate"

\* What the caller has been handed: the output, once the call reports success.
delivered == IF pc = "returned" THEN out ELSE Absent

Candidate == INSTANCE CandidateFile WITH
    Requests <- Requests, input <- input, call <- call, delivered <- delivered

\* Every call, whatever fails on the way, hands over nothing or the input
\* with exactly the requested change: names an edit does not set keep their
\* text although ids and equal strings are shared, freed ids are used again
\* and the save deletes what nobody refers to, and sounds the call does not
\* name keep their asset, string and slot.
HandsOverTheEdit == Candidate!Spec

\* A sound call checks the temporary before it promotes it, so whatever lies
\* at its output path, even after a crash between promotion and the final
\* hash, is the input with exactly the requested change.
PromotedSoundMapIsExact ==
    call.op # "edit" /\ out # Absent =>
        out \in Maps /\ Candidate!Fulfils(call, input, out)

\* No sequence of adopted calls takes away a sound that a trigger or a name
\* still refers to, neither by what it removes nor by the strings its save
\* deletes: the sounds of the map on disk that were complete when somebody
\* outside the WAV table reads their path stay complete.
UsedSoundsSurvive ==
    [][input' # input =>
        \A p \in Paths :
            Registered(input, p) /\ OtherUsed(input, FindString(input, p))
                => Registered(input', p)]_vars
==============================================================================
