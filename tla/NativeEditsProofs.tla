-------------------------- MODULE NativeEditsProofs --------------------------
(***************************************************************************)
(* Proofs about NativeEdits, for any table size, users, slots, paths, names *)
(* and initial maps: whatever fails or crashes on the way, a native call   *)
(* hands over its input with exactly the requested change or nothing, and  *)
(* no sequence of adopted calls takes away a sound that is referred to.    *)
(***************************************************************************)
EXTENDS NativeEdits, GameStringsProofs, FiniteSetTheorems

USE TextsAssumption, PathsAssumption, NumbersAssumption

-----------------------------------------------------------------------------
(* The inductive invariant.                                                *)

\* What a map t changed by call c still shares with the map b it was loaded
\* from, before it is saved and after, whether the change is checked or not:
\* the texts and slots that no check compares.
AddTouch(b, t, c) ==
    /\ t.refs = b.refs
    /\ \A i \in Ids : b.strings[i] # None => t.strings[i] \in {b.strings[i], Empty, None}
    /\ \A i \in Ids : t.strings[i] \in Paths => t.strings[i] \in {b.strings[i]} \cup New(b, c)
    /\ \A s \in Slots : t.slots[s] = b.slots[s] \/ TextAt(t, t.slots[s]) \in New(b, c)

\* Until it is saved, a map to which sounds are added loses no text.
AddsOnly(b, t) == \A i \in Ids : b.strings[i] # None => t.strings[i] = b.strings[i]

\* A replaced string that is named elsewhere either stays or takes those
\* names with it, which the checks refuse.
ReplaceTouch(b, t, c) ==
    /\ \A i \in Ids : t.strings[i] \in Paths => t.strings[i] \in {b.strings[i], c.new}
    /\ LET id == FindString(b, c.old) IN
       id # 0 /\ OtherUsed(b, id) => t.strings[id] = c.old \/ t.refs # b.refs

RemoveTouch(b, t) ==
    \A i \in Ids : t.strings[i] \in Paths => t.strings[i] = b.strings[i]

\* The names that were set are read, and nobody else's text has changed.
EditTouch(b, t, c, left) ==
    /\ t.slots = b.slots /\ t.assets = b.assets
    /\ \A i \in Ids : t.strings[i] \in Paths => t.strings[i] = b.strings[i]
    /\ \A s \in Slots : Shown(TextAt(t, t.slots[s])) = Shown(TextAt(b, b.slots[s]))
    /\ \A u \in Users \ DOMAIN c.names : Shown(Reads(t, u)) = Shown(Reads(b, u))
    /\ \A u \in DOMAIN c.names \ left : Shown(Reads(t, u)) = Shown(c.names[u])

Touch(b, t, c, left) ==
    /\ t \in Maps /\ WithinTable(t)
    /\ c.op = "add"     => AddTouch(b, t, c)
    /\ c.op = "replace" => ReplaceTouch(b, t, c)
    /\ c.op = "remove"  => RemoveTouch(b, t)
    /\ c.op = "edit"    => EditTouch(b, t, c, left)

\* A sound that somebody outside the WAV table refers to is still complete.
UsedKept(b, t) ==
    \A p \in Paths : Registered(b, p) /\ OtherUsed(b, FindString(b, p)) => Registered(t, p)

\* A map fit to be handed over.
Exact(b, t, c) ==
    t \in Maps /\ WithinTable(t) /\ Candidate!Fulfils(c, b, t) /\ UsedKept(b, t)

Mutating ==
    pc = "mutate" =>
        /\ Admits(input, call)
        /\ Touch(input, mem, call, todo)
        /\ call.op = "add" => AddsOnly(input, mem)
        /\ todo \subseteq Items(input, call)
        /\ call.op = "replace" /\ todo # {} => mem = input

Verifying ==
    pc = "verify" =>
        /\ Admits(input, call)
        /\ tmp = Damaged \/ Touch(input, tmp, call, {})

Ready(file) == Exact(input, file, call) \/ (call.op = "edit" /\ file = Damaged)

Promoting == pc = "promote" => Ready(tmp)
Finishing == pc = "finish" => Ready(out)
Returned == pc = "returned" => Exact(input, out, call)

\* What a crash leaves at the output of a sound call.
LeftBehind == call.op # "edit" /\ out # Absent => Exact(input, out, call)

IInv ==
    /\ TypeOK /\ WithinTable(input)
    /\ Mutating /\ Verifying /\ Promoting /\ Finishing /\ Returned
    /\ LeftBehind

-----------------------------------------------------------------------------
(* Requests, texts and reloads.                                            *)

LEMMA RequestShape ==
    ASSUME NEW c \in Requests
    PROVE  /\ c.op \in {"add", "replace", "remove", "edit"}
           /\ c.op = "add" => c.paths \subseteq Paths
           /\ c.op = "replace" => c.old \in Paths /\ c.new \in Paths /\ c.old # c.new
           /\ c.op = "remove" => c.slots \subseteq Slots
           /\ c.op = "edit" => /\ DOMAIN c.names \subseteq Users
                               /\ \A u \in DOMAIN c.names : c.names[u] \in NameTexts \cup {None}
<1>1. CASE c \in Adds
  <2>1. PICK ps \in SUBSET Paths : c = [op |-> "add", paths |-> ps]
    BY <1>1 DEF Adds
  <2> QED  BY <2>1
<1>2. CASE c \in Replaces
  <2>1. PICK pq \in Paths \X Paths : pq[1] # pq[2] /\ c = [op |-> "replace", old |-> pq[1], new |-> pq[2]]
    BY <1>2 DEF Replaces
  <2> QED  BY <2>1
<1>3. CASE c \in Removes
  <2>1. PICK ss \in SUBSET Slots : c = [op |-> "remove", slots |-> ss]
    BY <1>3 DEF Removes
  <2> QED  BY <2>1
<1>4. CASE c \in Edits
  <2>1. PICK n \in Changes : c = [op |-> "edit", names |-> n]
    BY <1>4 DEF Edits
  <2>2. PICK us \in SUBSET Nameable : n \in [us -> NameTexts \cup {None}]
    BY <2>1 DEF Changes
  <2> QED  BY <2>1, <2>2 DEF Nameable
<1> QED  BY <1>1, <1>2, <1>3, <1>4 DEF Requests

\* What is shown for a path is the path itself, and nothing else shows as it.
LEMMA ShownPath ==
    ASSUME NEW text, NEW p \in Paths
    PROVE  Shown(text) = p <=> text = p
BY DEF Shown

\* A read text is stored within the table, at the id that is read.
LEMMA ReadWithin ==
    ASSUME NEW m \in Maps, WithinTable(m), NEW id, TextAt(m, id) # None
    PROVE  id \in 1..m.size /\ id \in Ids /\ TextAt(m, id) = m.strings[id]
<1>1. id \in Ids /\ m.strings[id] # None
  BY DEF TextAt
<1>2. id <= m.size
  BY <1>1 DEF WithinTable
<1> QED  BY <1>1, <1>2, MapParts DEF TextAt, Ids

\* A reload changes what is shown at no id.
LEMMA ReloadShows ==
    ASSUME NEW m \in Maps, WithinTable(m), NEW id
    PROVE  Shown(TextAt(Reloaded(m), id)) = Shown(TextAt(m, id))
<1>1. CASE id \in Ids /\ id <= m.size
  BY <1>1, ReloadedFacts DEF TextAt, Shown
<1>2. CASE id \in Ids /\ ~(id <= m.size)
  BY <1>2, ReloadedFacts DEF TextAt, Shown, WithinTable
<1>3. CASE id \notin Ids
  BY <1>3 DEF TextAt
<1> QED  BY <1>1, <1>2, <1>3

\* A reload keeps every text within the table, and adds no path.
LEMMA ReloadTexts ==
    ASSUME NEW m \in Maps, WithinTable(m), NEW i \in Ids
    PROVE  /\ m.strings[i] # None => Reloaded(m).strings[i] = m.strings[i]
           /\ Reloaded(m).strings[i] \in Paths => Reloaded(m).strings[i] = m.strings[i]
<1>1. CASE i <= m.size
  BY <1>1, ReloadedFacts DEF Shown
<1>2. CASE ~(i <= m.size)
  <2>1. m.strings[i] = None /\ Reloaded(m).strings[i] = None
    BY <1>2, ReloadedFacts DEF WithinTable
  <2> QED  BY <2>1
<1> QED  BY <1>1, <1>2

\* What a save deletes is nothing that a changed map shares with its input.
LEMMA SweepTouch ==
    ASSUME NEW b \in Maps, NEW m, NEW c \in Requests, Touch(b, m, c, {}),
           c.op = "add" => AddsOnly(b, m)
    PROVE  Touch(b, DeleteUnusedStrings(m), c, {})
<1> DEFINE t == DeleteUnusedStrings(m)
<1>1. m \in Maps /\ WithinTable(m)
  BY DEF Touch
<1>2. t \in Maps /\ WithinTable(t) /\ t.refs = m.refs /\ t.slots = m.slots /\ t.assets = m.assets
  BY <1>1, DeleteUnusedFacts
<1>3. /\ \A i \in Ids : t.strings[i] \in {m.strings[i], None}
      /\ \A i \in Ids : OtherUsed(m, i) => t.strings[i] = m.strings[i]
      /\ \A u \in Users : Reads(t, u) = Reads(m, u)
      /\ \A s \in Slots : TextAt(t, t.slots[s]) = TextAt(m, m.slots[s])
  BY <1>1, DeleteUnusedFacts
<1> HIDE DEF t
<1>4. ASSUME c.op = "add" PROVE AddTouch(b, t, c)
  <2>1. AddTouch(b, m, c) /\ AddsOnly(b, m)
    BY <1>4 DEF Touch
  <2>2. \A i \in Ids : b.strings[i] # None => t.strings[i] \in {b.strings[i], Empty, None}
    BY <2>1, <1>3 DEF AddsOnly
  <2> QED  BY <2>1, <2>2, <1>2, <1>3 DEF AddTouch
<1>5. ASSUME c.op = "replace" PROVE ReplaceTouch(b, t, c)
  <2> DEFINE id == FindString(b, c.old)
  <2>1. ReplaceTouch(b, m, c)
    BY <1>5 DEF Touch
  <2>2. ASSUME id # 0, OtherUsed(b, id), t.refs = b.refs PROVE t.strings[id] = c.old
    <3>1. OtherUsed(m, id) /\ id \in Ids
      BY <2>2, <1>2, FindStringFacts DEF OtherUsed
    <3> QED  BY <2>1, <2>2, <3>1, <1>2, <1>3 DEF ReplaceTouch
  <2>3. \A i \in Ids : t.strings[i] \in Paths => t.strings[i] \in {b.strings[i], c.new}
    BY <2>1, <1>3 DEF ReplaceTouch
  <2> QED  BY <2>2, <2>3 DEF ReplaceTouch
<1>6. ASSUME c.op = "remove" PROVE RemoveTouch(b, t)
  BY <1>6, <1>3 DEF Touch, RemoveTouch
<1>7. ASSUME c.op = "edit" PROVE EditTouch(b, t, c, {})
  <2>1. EditTouch(b, m, c, {}) /\ DOMAIN c.names \subseteq Users
    BY <1>7, RequestShape DEF Touch
  <2> QED  BY <2>1, <1>2, <1>3 DEF EditTouch
<1> QED  BY <1>2, <1>4, <1>5, <1>6, <1>7 DEF Touch, t

\* A reload keeps what a changed map shares with its input.
LEMMA ReloadTouch ==
    ASSUME NEW b \in Maps, NEW m, NEW c \in Requests, Touch(b, m, c, {})
    PROVE  Touch(b, Reloaded(m), c, {})
<1> DEFINE t == Reloaded(m)
<1>1. m \in Maps /\ WithinTable(m)
  BY DEF Touch
<1>2. t \in Maps /\ WithinTable(t) /\ t.refs = m.refs /\ t.slots = m.slots /\ t.assets = m.assets
  BY <1>1, ReloadedFacts
<1>3. \A i \in Ids : /\ m.strings[i] # None => t.strings[i] = m.strings[i]
                     /\ t.strings[i] \in Paths => t.strings[i] = m.strings[i]
  BY <1>1, ReloadTexts
<1>4. \A id : Shown(TextAt(t, id)) = Shown(TextAt(m, id))
  BY <1>1, ReloadShows
<1>5. ASSUME c.op = "add" PROVE AddTouch(b, t, c)
  <2>1. AddTouch(b, m, c)
    BY <1>5 DEF Touch
  <2>2. New(b, c) \subseteq Paths
    BY <1>5, RequestShape DEF New
  <2>3. \A i \in Ids : b.strings[i] # None => t.strings[i] \in {b.strings[i], Empty, None}
    <3>1. \A i \in Ids : t.strings[i] \in {m.strings[i], Empty, None}
      BY <1>1, ReloadedFacts DEF Shown
    <3> QED  BY <2>1, <3>1 DEF AddTouch
  <2>4. \A i \in Ids : t.strings[i] \in Paths => t.strings[i] \in {b.strings[i]} \cup New(b, c)
    BY <2>1, <1>3 DEF AddTouch
  <2>5. \A s \in Slots : t.slots[s] = b.slots[s] \/ TextAt(t, t.slots[s]) \in New(b, c)
    BY <2>1, <2>2, <1>2, <1>3 DEF AddTouch, TextAt
  <2> QED  BY <2>1, <2>3, <2>4, <2>5, <1>2 DEF AddTouch
<1>6. ASSUME c.op = "replace" PROVE ReplaceTouch(b, t, c)
  <2>1. ReplaceTouch(b, m, c) /\ c.old \in Paths
    BY <1>6, RequestShape DEF Touch
  <2>2. FindString(b, c.old) # 0 /\ OtherUsed(b, FindString(b, c.old)) =>
            t.strings[FindString(b, c.old)] = c.old \/ t.refs # b.refs
    <3>1. ASSUME m.strings[FindString(b, c.old)] = c.old, OtherUsed(b, FindString(b, c.old)),
                 FindString(b, c.old) \in Ids
          PROVE  t.strings[FindString(b, c.old)] = c.old
      BY <3>1, <2>1, <1>3
    <3> QED  BY <2>1, <3>1, <1>2, FindStringFacts DEF ReplaceTouch
  <2> QED  BY <2>1, <2>2, <1>3 DEF ReplaceTouch
<1>7. ASSUME c.op = "remove" PROVE RemoveTouch(b, t)
  BY <1>7, <1>3 DEF Touch, RemoveTouch
<1>8. ASSUME c.op = "edit" PROVE EditTouch(b, t, c, {})
  <2>1. EditTouch(b, m, c, {})
    BY <1>8 DEF Touch
  <2>2. \A u \in Users : Shown(Reads(t, u)) = Shown(Reads(m, u))
    BY <1>2, <1>4 DEF Reads
  <2>3. DOMAIN c.names \subseteq Users
    BY <1>8, RequestShape
  <2> QED  BY <2>1, <2>2, <2>3, <1>2, <1>3, <1>4 DEF EditTouch
<1> QED  BY <1>2, <1>5, <1>6, <1>7, <1>8 DEF Touch

-----------------------------------------------------------------------------
(* The words of CandidateFile are those of GameStrings.                    *)

LEMMA SameSets == Candidate!Maps = Maps /\ Candidate!Users = Users
BY DEF Candidate!Maps, Candidate!Users, Candidate!Ids, Maps, Users, Ids

LEMMA SameFinds ==
    ASSUME NEW m, NEW text
    PROVE  Candidate!FindString(m, text) = FindString(m, text)
<1>1. Candidate!Storing(m, text) = Storing(m, text)
  BY DEF Candidate!Storing, Candidate!Ids, Storing, Ids
<1> QED
  BY <1>1 DEF Candidate!FindString, Candidate!Least, FindString, Least

LEMMA SameReads ==
    ASSUME NEW m, NEW u, NEW id
    PROVE  /\ Candidate!Reads(m, u) = Reads(m, u) /\ Candidate!TextAt(m, id) = TextAt(m, id)
           /\ Candidate!Shown(id) = Shown(id) /\ Candidate!SlotsOf(m, id) = SlotsOf(m, id)
BY DEF Candidate!Reads, Candidate!TextAt, Candidate!Ids, Candidate!Shown, Candidate!SlotsOf,
       Reads, TextAt, Ids, Shown, SlotsOf

LEMMA SameSounds ==
    ASSUME NEW m, NEW p
    PROVE  /\ Candidate!Registered(m, p) <=> Registered(m, p)
           /\ Candidate!Vacant(m, p) <=> Vacant(m, p)
BY SameFinds, SameReads DEF Candidate!Registered, Candidate!Vacant, Registered, Vacant

\* Each request as the words of this module state it.
LEMMA FulfilsIs ==
    ASSUME NEW c \in Requests, NEW b, NEW t
    PROVE  /\ Candidate!OthersKeepText(b, t, {}) <=>
                \A u \in Users : Reads(b, u) # None => Shown(Reads(t, u)) = Shown(Reads(b, u))
           /\ \A us : Candidate!OthersKeepText(b, t, us) <=>
                \A u \in Users \ us : Reads(b, u) # None => Shown(Reads(t, u)) = Shown(Reads(b, u))
           /\ \A ss : Candidate!OthersKeepSound(b, t, ss) <=>
                \A s \in Slots \ ss :
                    TextAt(b, b.slots[s]) # None =>
                        /\ t.slots[s] = b.slots[s]
                        /\ Shown(TextAt(t, t.slots[s])) = Shown(TextAt(b, b.slots[s]))
           /\ c.op = "add"     => Candidate!Fulfils(c, b, t) = Candidate!Added(b, t, c.paths)
           /\ c.op = "replace" => Candidate!Fulfils(c, b, t) = Candidate!Replaced(b, t, c.old, c.new)
           /\ c.op = "remove"  => Candidate!Fulfils(c, b, t) = Candidate!Removed(b, t, c.slots)
           /\ c.op = "edit"    => Candidate!Fulfils(c, b, t) = Candidate!Renamed(b, t, c.names)
<1>1. \A us : Candidate!OthersKeepText(b, t, us) <=>
        \A u \in Users \ us : Reads(b, u) # None => Shown(Reads(t, u)) = Shown(Reads(b, u))
  BY SameSets, SameReads DEF Candidate!OthersKeepText
<1>2. \A ss : Candidate!OthersKeepSound(b, t, ss) <=>
        \A s \in Slots \ ss :
            TextAt(b, b.slots[s]) # None =>
                /\ t.slots[s] = b.slots[s]
                /\ Shown(TextAt(t, t.slots[s])) = Shown(TextAt(b, b.slots[s]))
  BY SameReads DEF Candidate!OthersKeepSound
<1>3. Candidate!OthersKeepText(b, t, {}) <=>
        \A u \in Users : Reads(b, u) # None => Shown(Reads(t, u)) = Shown(Reads(b, u))
  BY <1>1
<1>4. c.op = "add" => Candidate!Fulfils(c, b, t) = Candidate!Added(b, t, c.paths)
  BY DEF Candidate!Fulfils
<1>5. c.op = "replace" => Candidate!Fulfils(c, b, t) = Candidate!Replaced(b, t, c.old, c.new)
  BY DEF Candidate!Fulfils
<1>6. c.op = "remove" => Candidate!Fulfils(c, b, t) = Candidate!Removed(b, t, c.slots)
  BY DEF Candidate!Fulfils
<1>7. c.op = "edit" => Candidate!Fulfils(c, b, t) = Candidate!Renamed(b, t, c.names)
  BY DEF Candidate!Fulfils
<1> QED  BY <1>1, <1>2, <1>3, <1>4, <1>5, <1>6, <1>7

-----------------------------------------------------------------------------
(* A reopened map that passes its checks is fit to be handed over.         *)

LEMMA AddIsExact ==
    ASSUME NEW b \in Maps, NEW t \in Maps, WithinTable(b), NEW c \in Requests, c.op = "add",
           AddTouch(b, t, c), AddChecks(b, t, c), t.assets = ExpectedAssets(b, c)
    PROVE  Candidate!Fulfils(c, b, t) /\ UsedKept(b, t)
<1>1. c.paths \subseteq Paths /\ New(b, c) \subseteq c.paths
  BY RequestShape DEF New
<1>2. \A p \in Paths : t.assets[p] = IF p \in c.paths THEN "ogg" ELSE b.assets[p]
  BY DEF ExpectedAssets
<1>3. \A p \in c.paths : Registered(t, p)
  BY <1>1, <1>2 DEF AddChecks, Registered
<1>4. \A id : TextAt(b, id) # None => TextAt(t, id) = TextAt(b, id)
  <2> SUFFICES ASSUME NEW id, TextAt(b, id) # None PROVE TextAt(t, id) = TextAt(b, id)
    OBVIOUS
  <2>1. id \in 1..b.size /\ id \in Ids /\ TextAt(b, id) = b.strings[id] /\ TextAt(t, id) = t.strings[id]
    BY ReadWithin DEF TextAt
  <2>2. CASE id \in {FindString(t, p) : p \in New(b, c)}
    <3>1. t.strings[id] \in Paths
      BY <1>1, <2>1, <2>2, FindStringFacts DEF Ids
    <3> QED  BY <2>1, <3>1 DEF AddTouch
  <2>3. CASE id \notin {FindString(t, p) : p \in New(b, c)}
    BY <2>1, <2>3 DEF AddChecks, StringsKept
  <2> QED  BY <2>2, <2>3
<1>5. \A u \in Users : Reads(b, u) # None => Shown(Reads(t, u)) = Shown(Reads(b, u))
  BY <1>4 DEF AddTouch, Reads
<1>6. \A s \in Slots \ {} : TextAt(b, b.slots[s]) # None =>
        t.slots[s] = b.slots[s] /\ Shown(TextAt(t, t.slots[s])) = Shown(TextAt(b, b.slots[s]))
  <2> SUFFICES ASSUME NEW s \in Slots, TextAt(b, b.slots[s]) # None
               PROVE  t.slots[s] = b.slots[s] /\ TextAt(t, b.slots[s]) = TextAt(b, b.slots[s])
    BY Zenon
  <2>1. b.slots[s] # 0
    BY DEF TextAt, Ids
  <2> QED  BY <1>4, <2>1 DEF AddChecks
<1>7. Candidate!OthersKeepAsset(b, t, c.paths)
  BY <1>2 DEF Candidate!OthersKeepAsset
<1>8. Candidate!Added(b, t, c.paths)
  BY <1>3, <1>5, <1>6, <1>7, FulfilsIs, SameSounds DEF Candidate!Added
<1>9. UsedKept(b, t)
  <2> SUFFICES ASSUME NEW p \in Paths, Registered(b, p), p \notin c.paths
               PROVE  Registered(t, p)
    BY <1>3 DEF UsedKept
  <2> DEFINE f == FindString(b, p)
  <2>1. f # 0 /\ f \in Ids /\ b.strings[f] = p /\ b.assets[p] = "ogg" /\ p # None
    BY FindStringFacts DEF Registered
  <2>2. t.strings[f] = p
    BY <1>4, <2>1 DEF TextAt
  <2>3. \A i \in Ids : t.strings[i] = p => b.strings[i] = p
    BY <1>1 DEF AddTouch
  <2>4. FindString(t, p) = f
    BY <2>1, <2>2, <2>3, StillFound
  <2>5. PICK s \in Slots : SlotsOf(b, f) = {s}
    BY DEF Registered
  <2> HIDE DEF f
  <2>6. t.slots[s] = f
    BY <2>1, <2>5 DEF AddChecks, SlotsOf
  <2>7. ASSUME NEW o \in Slots, t.slots[o] = f PROVE o = s
    <3>1. TextAt(t, t.slots[o]) = p
      BY <2>1, <2>2, <2>7 DEF TextAt
    <3>2. b.slots[o] = f
      BY <1>1, <2>7, <3>1 DEF AddTouch
    <3> QED  BY <2>5, <3>2 DEF SlotsOf
  <2>8. SlotsOf(t, f) = {s}
    BY <2>6, <2>7 DEF SlotsOf
  <2>9. t.assets[p] = "ogg"
    BY <1>2, <2>1
  <2> QED  BY <2>1, <2>4, <2>8, <2>9 DEF Registered, f
<1> QED  BY <1>8, <1>9, FulfilsIs

\* The slot of a replaced sound is the only one that plays it.
LEMMA ReplacedSlot ==
    ASSUME NEW b, NEW c, AdmitsReplace(b, c)
    PROVE  \E s \in Slots : SlotsOf(b, FindString(b, c.old)) = {s}
<1>1. IsFiniteSet(SlotsOf(b, FindString(b, c.old)))
  BY SlotsAssumption, FS_Subset DEF SlotsOf
<1>2. PICK s : SlotsOf(b, FindString(b, c.old)) = {s}
  BY <1>1, FS_Singleton DEF AdmitsReplace
<1> QED  BY <1>2 DEF SlotsOf

LEMMA ReplaceIsExact ==
    ASSUME NEW b \in Maps, NEW t \in Maps, WithinTable(b), NEW c \in Requests,
           c.op = "replace", AdmitsReplace(b, c),
           ReplaceTouch(b, t, c), ReplaceChecks(b, t, c), t.assets = ExpectedAssets(b, c)
    PROVE  Candidate!Fulfils(c, b, t) /\ UsedKept(b, t)
<1> DEFINE id == FindString(b, c.old)
<1>1. c.old \in Paths /\ c.new \in Paths /\ c.old # c.new
  BY RequestShape
<1>2. /\ FindString(t, c.new) = id /\ FindString(t, c.old) = 0 /\ t.slots = b.slots
      /\ StringsKept(b, t, {id}) /\ t.refs = b.refs
  BY DEF ReplaceChecks, SameReferences
<1>3. t.assets[c.old] = "absent" /\ t.assets[c.new] = "ogg" /\
      \A p \in Paths \ {c.old, c.new} : t.assets[p] = b.assets[p]
  BY <1>1, MapParts DEF ExpectedAssets
<1>4. id \in Ids /\ id # 0 /\ b.strings[id] = c.old /\ t.strings[id] = c.new
  BY <1>2, FindStringFacts DEF AdmitsReplace
<1>5. PICK s0 \in Slots : SlotsOf(b, id) = {s0}
  BY ReplacedSlot
<1>6. ~OtherUsed(b, id)
  BY <1>1, <1>2, <1>4 DEF ReplaceTouch
<1> HIDE DEF id
<1>7. \A i : TextAt(b, i) # None /\ i # id => TextAt(t, i) = TextAt(b, i)
  <2> SUFFICES ASSUME NEW i, TextAt(b, i) # None, i # id PROVE TextAt(t, i) = TextAt(b, i)
    OBVIOUS
  <2>1. i \in 1..b.size /\ i \in Ids
    BY ReadWithin
  <2> QED  BY <1>2, <2>1 DEF StringsKept, TextAt
<1>8. \A u \in Users : Reads(b, u) # None => Shown(Reads(t, u)) = Shown(Reads(b, u))
  BY <1>2, <1>6, <1>7 DEF Reads, OtherUsed
<1>9. \A s \in Slots \ SlotsOf(b, id) : TextAt(b, b.slots[s]) # None =>
        t.slots[s] = b.slots[s] /\ Shown(TextAt(t, t.slots[s])) = Shown(TextAt(b, b.slots[s]))
  BY <1>2, <1>7 DEF SlotsOf
<1>10. Vacant(t, c.old) /\ Registered(t, c.new)
  BY <1>2, <1>3, <1>4, <1>5 DEF Vacant, Registered, SlotsOf
<1>11. Candidate!OthersKeepAsset(b, t, {c.old, c.new})
  BY <1>3 DEF Candidate!OthersKeepAsset
<1>12. Candidate!Replaced(b, t, c.old, c.new)
  <2>1. Candidate!Vacant(t, c.old) /\ Candidate!Registered(t, c.new)
    BY <1>10, SameSounds
  <2>2. Candidate!FindString(t, c.new) = id /\ Candidate!FindString(b, c.old) = id
    BY <1>2, SameFinds DEF id
  <2>3. Candidate!SlotsOf(b, id) = SlotsOf(b, id)
    BY SameReads
  <2>4. Candidate!OthersKeepText(b, t, {}) /\ Candidate!OthersKeepSound(b, t, SlotsOf(b, id))
    BY <1>8, <1>9, FulfilsIs
  <2> QED  BY <1>2, <1>11, <2>1, <2>2, <2>3, <2>4 DEF Candidate!Replaced
<1>13. UsedKept(b, t)
  <2> SUFFICES ASSUME NEW p \in Paths, Registered(b, p), OtherUsed(b, FindString(b, p))
               PROVE  Registered(t, p)
    BY DEF UsedKept
  <2> DEFINE f == FindString(b, p)
  <2>1. f # 0 /\ f \in Ids /\ b.strings[f] = p /\ b.assets[p] = "ogg" /\ p # None
    BY FindStringFacts DEF Registered
  <2>2. p # c.old /\ f # id
    BY <1>6 DEF id
  <2>3. p # c.new
    BY <2>1 DEF AdmitsReplace, Vacant
  <2>4. t.strings[f] = p
    <3>1. TextAt(b, f) = p
      BY <2>1 DEF TextAt
    <3>2. TextAt(t, f) = p
      BY <1>7, <2>1, <2>2, <3>1
    <3> QED  BY <2>1, <3>2 DEF TextAt
  <2>5. \A i \in Ids : t.strings[i] = p => b.strings[i] = p
    BY <2>3 DEF ReplaceTouch
  <2>6. FindString(t, p) = f
    BY <2>1, <2>4, <2>5, StillFound
  <2>7. PICK s \in Slots : SlotsOf(b, f) = {s}
    BY DEF Registered
  <2> HIDE DEF f
  <2>8. SlotsOf(t, f) = {s}
    BY <1>2, <2>7 DEF SlotsOf
  <2>9. t.assets[p] = "ogg"
    BY <1>3, <2>1, <2>2, <2>3
  <2> QED  BY <2>1, <2>6, <2>8, <2>9 DEF Registered, f
<1> QED  BY <1>12, <1>13, FulfilsIs

LEMMA RemoveIsExact ==
    ASSUME NEW b \in Maps, NEW t \in Maps, WithinTable(b), NEW c \in Requests,
           c.op = "remove", AdmitsRemove(b, c),
           RemoveTouch(b, t), RemoveChecks(b, t, c), t.assets = ExpectedAssets(b, c)
    PROVE  Candidate!Fulfils(c, b, t) /\ UsedKept(b, t)
<1> DEFINE ids == {b.slots[s] : s \in c.slots}
           gone == {TextAt(b, b.slots[s]) : s \in c.slots}
<1>1. c.slots \subseteq Slots
  BY RequestShape
<1>2. /\ \A s \in Slots : t.slots[s] = IF s \in c.slots THEN 0 ELSE b.slots[s]
      /\ \A id \in ids : TextAt(t, id) \in {None, Empty}
      /\ StringsKept(b, t, ids) /\ t.refs = b.refs
  BY DEF RemoveChecks, SameReferences
<1>3. \A s \in c.slots :
        /\ b.slots[s] # 0 /\ SlotsOf(b, b.slots[s]) = {s} /\ ~OtherUsed(b, b.slots[s])
        /\ \A o \in Slots \ c.slots :
                b.slots[o] # 0 => TextAt(b, b.slots[o]) # TextAt(b, b.slots[s])
  BY DEF AdmitsRemove
<1>4. \A p \in Paths : t.assets[p] = IF p \in gone THEN "absent" ELSE b.assets[p]
  BY DEF ExpectedAssets
<1>5. \A i : TextAt(b, i) # None /\ i \notin ids => TextAt(t, i) = TextAt(b, i)
  <2> SUFFICES ASSUME NEW i, TextAt(b, i) # None, i \notin ids PROVE TextAt(t, i) = TextAt(b, i)
    OBVIOUS
  <2>1. i \in 1..b.size /\ i \in Ids
    BY ReadWithin
  <2> QED  BY <1>2, <2>1 DEF StringsKept, TextAt
<1>6. \A u \in Users : b.refs[u] \notin ids
  BY <1>3 DEF OtherUsed
<1>7. \A s \in Slots \ c.slots : b.slots[s] \notin ids
  BY <1>1, <1>3 DEF SlotsOf
<1> HIDE DEF ids, gone
<1>8. \A u \in Users : Reads(b, u) # None => Shown(Reads(t, u)) = Shown(Reads(b, u))
  BY <1>2, <1>5, <1>6 DEF Reads
<1>9. \A s \in Slots \ c.slots : TextAt(b, b.slots[s]) # None =>
        t.slots[s] = b.slots[s] /\ Shown(TextAt(t, t.slots[s])) = Shown(TextAt(b, b.slots[s]))
  BY <1>2, <1>5, <1>7
<1>10. Candidate!Removed(b, t, c.slots)
  <2>1. \A s \in c.slots : t.slots[s] = 0
    BY <1>1, <1>2
  <2>2. {Candidate!TextAt(b, b.slots[s]) : s \in c.slots} = gone
    BY SameReads DEF gone
  <2>3. /\ \A p \in gone \cap Paths : t.assets[p] = "absent"
        /\ Candidate!OthersKeepAsset(b, t, gone)
    BY <1>4 DEF Candidate!OthersKeepAsset
  <2>4. Candidate!OthersKeepText(b, t, {}) /\ Candidate!OthersKeepSound(b, t, c.slots)
    BY <1>8, <1>9, FulfilsIs
  <2> QED  BY <2>1, <2>2, <2>3, <2>4 DEF Candidate!Removed
<1>11. UsedKept(b, t)
  <2> SUFFICES ASSUME NEW p \in Paths, Registered(b, p), OtherUsed(b, FindString(b, p))
               PROVE  Registered(t, p)
    BY DEF UsedKept
  <2> DEFINE f == FindString(b, p)
  <2>1. f # 0 /\ f \in Ids /\ b.strings[f] = p /\ b.assets[p] = "ogg" /\ p # None /\ p # Empty
    BY FindStringFacts DEF Registered
  <2>2. PICK s \in Slots : SlotsOf(b, f) = {s}
    BY DEF Registered
  <2>3. f \notin ids
    BY <1>6 DEF OtherUsed
  <2> HIDE DEF f
  <2>4. b.slots[s] = f /\ s \notin c.slots /\ TextAt(b, f) = p
    BY <2>1, <2>2, <2>3 DEF SlotsOf, ids, TextAt
  <2>5. p \notin gone
    BY <1>3, <2>1, <2>4 DEF gone
  <2>6. t.strings[f] = p
    BY <1>5, <2>1, <2>3, <2>4 DEF TextAt
  <2>7. \A i \in Ids : t.strings[i] = p => b.strings[i] = p
    BY DEF RemoveTouch
  <2>8. FindString(t, p) = f
    BY <2>1, <2>6, <2>7, StillFound DEF f
  <2>9. SlotsOf(t, f) = {s}
    BY <1>2, <2>1, <2>2, <2>4 DEF SlotsOf
  <2>10. t.assets[p] = "ogg"
    BY <1>4, <2>1, <2>5
  <2> QED  BY <2>1, <2>8, <2>9, <2>10 DEF Registered
<1> QED  BY <1>10, <1>11, FulfilsIs

LEMMA EditIsExact ==
    ASSUME NEW b \in Maps, NEW t \in Maps, NEW c \in Requests, c.op = "edit",
           EditTouch(b, t, c, {})
    PROVE  Candidate!Fulfils(c, b, t) /\ UsedKept(b, t)
<1>1. t.slots = b.slots /\ t.assets = b.assets
  BY DEF EditTouch
<1>2. Candidate!Renamed(b, t, c.names)
  <2>1. \A u \in DOMAIN c.names :
            Candidate!Shown(Candidate!Reads(t, u)) = Candidate!Shown(c.names[u])
    BY SameReads DEF EditTouch
  <2>2. Candidate!OthersKeepText(b, t, DOMAIN c.names) /\ Candidate!OthersKeepSound(b, t, {})
    BY <1>1, FulfilsIs DEF EditTouch
  <2>3. Candidate!OthersKeepAsset(b, t, {})
    BY <1>1 DEF Candidate!OthersKeepAsset
  <2> QED  BY <2>1, <2>2, <2>3 DEF Candidate!Renamed
<1>3. UsedKept(b, t)
  <2> SUFFICES ASSUME NEW p \in Paths, Registered(b, p) PROVE Registered(t, p)
    BY DEF UsedKept
  <2> DEFINE f == FindString(b, p)
  <2>1. f # 0 /\ f \in Ids /\ b.strings[f] = p /\ b.assets[p] = "ogg"
    BY FindStringFacts DEF Registered
  <2>2. PICK s \in Slots : SlotsOf(b, f) = {s}
    BY DEF Registered
  <2> HIDE DEF f
  <2>3. TextAt(b, b.slots[s]) = p /\ b.slots[s] = f
    BY <2>1, <2>2 DEF SlotsOf, TextAt
  <2>4. Shown(TextAt(t, f)) = Shown(p)
    BY <1>1, <2>3 DEF EditTouch
  <2>5. t.strings[f] = p
    <3>1. Shown(p) = p
      BY ShownPath
    <3>2. TextAt(t, f) = p
      BY <2>4, <3>1, ShownPath
    <3> QED  BY <2>1, <3>2 DEF TextAt
  <2>6. \A i \in Ids : t.strings[i] = p => b.strings[i] = p
    BY DEF EditTouch
  <2>7. FindString(t, p) = f
    BY <2>1, <2>5, <2>6, StillFound DEF f
  <2> QED  BY <1>1, <2>1, <2>2, <2>7 DEF Registered, SlotsOf
<1> QED  BY <1>2, <1>3, FulfilsIs

\* The checks made on the reopened map of a sound call, and those made on the
\* archive of an edit, leave nothing that is not asked for.
LEMMA VerifiedIsReady ==
    ASSUME IInv, pc = "verify", Verified
    PROVE  Ready(tmp)
<1>1. /\ input \in Maps /\ WithinTable(input) /\ call \in Requests /\ Admits(input, call)
      /\ tmp = Damaged \/ Touch(input, tmp, call, {})
  BY DEF IInv, TypeOK, Verifying
<1>2. CASE call.op # "edit"
  <2>1. /\ tmp # Damaged /\ tmp.assets = ExpectedAssets(input, call)
        /\ Checks(input, tmp, call)
    BY <1>2 DEF Verified
  <2>2. Touch(input, tmp, call, {}) /\ tmp \in Maps /\ WithinTable(tmp)
    BY <1>1, <2>1 DEF Touch
  <2>3. CASE call.op = "add"
    <3>1. AddTouch(input, tmp, call) /\ AddChecks(input, tmp, call)
      BY <2>1, <2>2, <2>3 DEF Touch, Checks
    <3> QED  BY <1>1, <2>1, <2>2, <2>3, <3>1, AddIsExact DEF Ready, Exact
  <2>4. CASE call.op = "replace"
    <3>1. /\ ReplaceTouch(input, tmp, call) /\ ReplaceChecks(input, tmp, call)
          /\ AdmitsReplace(input, call)
      BY <1>1, <2>1, <2>2, <2>4 DEF Touch, Checks, Admits
    <3> QED  BY <1>1, <2>1, <2>2, <2>4, <3>1, ReplaceIsExact DEF Ready, Exact
  <2>5. CASE call.op = "remove"
    <3>1. /\ RemoveTouch(input, tmp) /\ RemoveChecks(input, tmp, call)
          /\ AdmitsRemove(input, call)
      BY <1>1, <2>1, <2>2, <2>5 DEF Touch, Checks, Admits
    <3> QED  BY <1>1, <2>1, <2>2, <2>5, <3>1, RemoveIsExact DEF Ready, Exact
  <2> QED  BY <1>1, <1>2, <2>3, <2>4, <2>5, RequestShape
<1>3. CASE call.op = "edit" /\ tmp # Damaged
  <2>1. EditTouch(input, tmp, call, {}) /\ tmp \in Maps /\ WithinTable(tmp)
    BY <1>1, <1>3 DEF Touch
  <2> QED  BY <1>1, <1>3, <2>1, EditIsExact DEF Ready, Exact
<1>4. CASE call.op = "edit" /\ tmp = Damaged
  BY <1>4 DEF Ready
<1> QED  BY <1>2, <1>3, <1>4

-----------------------------------------------------------------------------
(* One item of a call.                                                     *)

\* A call starts with the input, which it shares with itself.
LEMMA StartTouches ==
    ASSUME NEW b \in Maps, WithinTable(b), NEW c \in Requests, Admits(b, c)
    PROVE  Touch(b, b, c, Items(b, c)) /\ (c.op = "add" => AddsOnly(b, b))
<1>1. c.op = "add" => AddTouch(b, b, c) /\ AddsOnly(b, b)
  BY DEF AddTouch, AddsOnly
<1>2. c.op = "replace" => ReplaceTouch(b, b, c)
  <2> SUFFICES ASSUME c.op = "replace", FindString(b, c.old) # 0
               PROVE  b.strings[FindString(b, c.old)] = c.old
    BY DEF ReplaceTouch
  <2> QED  BY FindStringFacts
<1>3. c.op = "remove" => RemoveTouch(b, b)
  BY DEF RemoveTouch
<1>4. c.op = "edit" => EditTouch(b, b, c, Items(b, c))
  BY DEF EditTouch, Items
<1> QED  BY <1>1, <1>2, <1>3, <1>4 DEF Touch

LEMMA AddTouches ==
    ASSUME NEW b \in Maps, NEW m \in Maps, WithinTable(m), NEW c \in Requests, c.op = "add",
           AddTouch(b, m, c), AddsOnly(b, m), NEW item \in New(b, c), CanAddSound(m, item)
    PROVE  /\ AddSound(m, item) \in Maps /\ WithinTable(AddSound(m, item))
           /\ AddTouch(b, AddSound(m, item), c) /\ AddsOnly(b, AddSound(m, item))
<1> DEFINE n == AddSound(m, item)  slot == Least(FreeSlots(m))
<1>1. item \in Paths /\ New(b, c) \subseteq Paths
  BY RequestShape DEF New
<1>2. /\ n \in Maps /\ WithinTable(n) /\ n.refs = m.refs
      /\ slot \in Slots /\ m.slots[slot] = 0
      /\ n.slots[slot] \in Ids /\ n.strings[n.slots[slot]] = item
      /\ \A s \in Slots \ {slot} : n.slots[s] = m.slots[s]
      /\ \A i \in Ids : n.strings[i] \in {m.strings[i], item}
      /\ \A i \in Ids : m.strings[i] # None => n.strings[i] = m.strings[i]
  BY <1>1, AddSoundFacts
<1> HIDE DEF n, slot
<1>3. AddsOnly(b, n)
  BY <1>2 DEF AddsOnly
<1>4. \A i \in Ids : n.strings[i] \in Paths => n.strings[i] \in {b.strings[i]} \cup New(b, c)
  BY <1>2 DEF AddTouch
<1>5. ASSUME NEW s \in Slots PROVE n.slots[s] = b.slots[s] \/ TextAt(n, n.slots[s]) \in New(b, c)
  <2>1. CASE s = slot
    BY <1>2, <2>1 DEF TextAt
  <2>2. CASE s # slot
    <3>1. n.slots[s] = m.slots[s]
      BY <1>2, <2>2
    <3>2. CASE TextAt(m, m.slots[s]) \in New(b, c)
      <4>1. m.slots[s] \in Ids /\ m.strings[m.slots[s]] \in New(b, c)
        BY <1>1, <3>2 DEF TextAt
      <4>2. n.strings[m.slots[s]] = m.strings[m.slots[s]]
        BY <1>1, <1>2, <4>1
      <4> QED  BY <3>1, <4>1, <4>2 DEF TextAt
    <3> QED  BY <3>1, <3>2 DEF AddTouch
  <2> QED  BY <2>1, <2>2
<1> QED  BY <1>2, <1>3, <1>4, <1>5 DEF AddTouch, AddsOnly, n

LEMMA ReplaceTouches ==
    ASSUME NEW b \in Maps, WithinTable(b), NEW c \in Requests, c.op = "replace",
           AdmitsReplace(b, c), CanAddSound(WithoutOld(b, c), c.new)
    PROVE  LET n == AddSound(WithoutOld(b, c), c.new)
           IN  n \in Maps /\ WithinTable(n) /\ ReplaceTouch(b, n, c)
<1> DEFINE id == FindString(b, c.old)  s == OldSlot(b, c)  w == WithoutOld(b, c)
           n == AddSound(w, c.new)
<1>1. c.old \in Paths /\ c.new \in Paths
  BY RequestShape
<1>2. s \in Slots /\ b.slots[s] = id
  <2>1. PICK s0 \in Slots : SlotsOf(b, id) = {s0}
    BY ReplacedSlot
  <2> QED  BY <2>1 DEF OldSlot, SlotsOf
<1>3. id \in Ids /\ id # 0 /\ b.strings[id] = c.old /\ c.old # None
  BY <1>1, FindStringFacts DEF AdmitsReplace
<1> HIDE DEF id, s
<1>4. /\ w \in Maps /\ w.size = b.size
      /\ \A i \in Ids : w.strings[i] \in {b.strings[i], None}
      /\ OtherUsed(b, id) => w.strings = b.strings \/ w.refs # b.refs
  BY <1>2, <1>3, RemoveSoundFacts DEF WithoutOld, s
<1>5. WithinTable(w)
  BY <1>4 DEF WithinTable
<1>6. CanAddSound(w, c.new)
  OBVIOUS
<1> HIDE DEF w
<1>7. /\ n \in Maps /\ WithinTable(n) /\ n.refs = w.refs
      /\ \A i \in Ids : n.strings[i] \in {w.strings[i], c.new}
      /\ \A i \in Ids : w.strings[i] # None => n.strings[i] = w.strings[i]
  BY <1>1, <1>4, <1>5, <1>6, AddSoundFacts
<1> HIDE DEF n
<1>8. \A i \in Ids : n.strings[i] \in Paths => n.strings[i] \in {b.strings[i], c.new}
  BY <1>4, <1>7
<1>9. OtherUsed(b, id) => n.strings[id] = c.old \/ n.refs # b.refs
  BY <1>3, <1>4, <1>7
<1> QED  BY <1>7, <1>8, <1>9 DEF ReplaceTouch, id, n, w

LEMMA RemoveTouches ==
    ASSUME NEW b \in Maps, NEW m \in Maps, WithinTable(m), RemoveTouch(b, m), NEW s \in Slots
    PROVE  /\ RemoveSound(m, s) \in Maps /\ WithinTable(RemoveSound(m, s))
           /\ RemoveTouch(b, RemoveSound(m, s))
<1> DEFINE n == RemoveSound(m, s)
<1>1. /\ n \in Maps /\ n.size = m.size
      /\ \A i \in Ids : n.strings[i] \in {m.strings[i], None}
  BY RemoveSoundFacts
<1> HIDE DEF n
<1>2. WithinTable(n)
  BY <1>1 DEF WithinTable
<1>3. RemoveTouch(b, n)
  BY <1>1 DEF RemoveTouch
<1> QED  BY <1>1, <1>2, <1>3 DEF n

LEMMA EditTouches ==
    ASSUME NEW b \in Maps, NEW m \in Maps, WithinTable(m), NEW c \in Requests, c.op = "edit",
           NEW left, EditTouch(b, m, c, left), NEW u \in DOMAIN c.names,
           CanApply(m, c, u)
    PROVE  /\ Apply(m, c, u) \in Maps /\ WithinTable(Apply(m, c, u))
           /\ EditTouch(b, Apply(m, c, u), c, left \ {u})
<1> DEFINE n == Apply(m, c, u)
<1>1. /\ u \in Users /\ DOMAIN c.names \subseteq Users
      /\ c.names[u] \in NameTexts \cup {None}
  BY RequestShape
<1>2. /\ n \in Maps /\ WithinTable(n) /\ n.slots = m.slots /\ n.assets = m.assets
      /\ Reads(n, u) = c.names[u]
      /\ \A v \in Users \ {u} : Reads(n, v) = Reads(m, v)
      /\ \A s \in Slots : TextAt(n, n.slots[s]) = TextAt(m, m.slots[s])
      /\ \A i \in Ids : n.strings[i] \in Paths => n.strings[i] = m.strings[i]
  <2>1. CASE c.names[u] = None
    <3>1. n = ClearName(m, u)
      BY <2>1 DEF Apply
    <3>2. /\ n \in Maps /\ n.slots = m.slots /\ n.assets = m.assets
          /\ n.strings = m.strings /\ n.size = m.size
          /\ Reads(n, u) = None
          /\ \A v \in Users \ {u} : n.refs[v] = m.refs[v]
      BY <1>1, <3>1, ClearNameFacts
    <3> HIDE DEF n
    <3> QED  BY <2>1, <3>2 DEF Reads, TextAt, WithinTable
  <2>2. CASE c.names[u] # None
    <3>1. n = SetName(m, u, c.names[u]) /\ CanAddString(m, c.names[u])
      BY <2>2 DEF Apply, CanApply
    <3>2. c.names[u] \in Texts \cup {Empty} /\ c.names[u] \notin Paths
      BY <1>1, <2>2, NamesAssumption
    <3>3. /\ n \in Maps /\ n.slots = m.slots /\ n.assets = m.assets
          /\ Reads(n, u) = c.names[u]
          /\ \A v \in Users \ {u} : Reads(n, v) = Reads(m, v)
          /\ \A s \in Slots : TextAt(n, n.slots[s]) = TextAt(m, m.slots[s])
          /\ \A i \in Ids : n.strings[i] \in {m.strings[i], c.names[u]}
          /\ WithinTable(n)
      BY <1>1, <3>1, <3>2, SetNameFacts
    <3> HIDE DEF n
    <3> QED  BY <3>2, <3>3
  <2> QED  BY <2>1, <2>2
<1> HIDE DEF n
<1>3. n.slots = b.slots /\ n.assets = b.assets
  BY <1>2 DEF EditTouch
<1>4. \A i \in Ids : n.strings[i] \in Paths => n.strings[i] = b.strings[i]
  BY <1>2 DEF EditTouch
<1>5. \A s \in Slots : Shown(TextAt(n, n.slots[s])) = Shown(TextAt(b, b.slots[s]))
  BY <1>2 DEF EditTouch
<1>6. \A v \in Users \ DOMAIN c.names : Shown(Reads(n, v)) = Shown(Reads(b, v))
  BY <1>2 DEF EditTouch
<1>7. \A v \in DOMAIN c.names \ (left \ {u}) : Shown(Reads(n, v)) = Shown(c.names[v])
  BY <1>1, <1>2 DEF EditTouch
<1> QED  BY <1>2, <1>3, <1>4, <1>5, <1>6, <1>7 DEF EditTouch, n

-----------------------------------------------------------------------------
(* The invariant is inductive.                                             *)

LEMMA InitIInv == Init => IInv
<1> SUFFICES ASSUME Init PROVE IInv
  OBVIOUS
<1>1. input \in Maps /\ WithinTable(input)
  BY MapsAssumption DEF Init, WithinTable
<1>2. call \in Requests
  BY RequestsAssumption DEF Init
<1>3. TypeOK
  BY <1>1, <1>2 DEF Init, TypeOK, Files
<1> QED
  BY <1>1, <1>3
  DEF Init, IInv, Mutating, Verifying, Promoting, Finishing, Returned, LeftBehind

\* A call that failed left nothing behind.
LEMMA FailKeeps ==
    ASSUME IInv, Fail
    PROVE  IInv'
<1>1. TypeOK'
  BY DEF IInv, TypeOK, Fail, Over, Files
<1>2. WithinTable(input)'
  BY DEF IInv, Fail
<1> QED
  BY <1>1, <1>2
  DEF Fail, Over, IInv, Mutating, Verifying, Promoting, Finishing, Returned, LeftBehind

LEMMA StartKeeps ==
    ASSUME IInv, Start
    PROVE  IInv'
<1>1. input \in Maps /\ WithinTable(input) /\ WithinTable(input)'
  BY DEF IInv, TypeOK, Start
<1>2. call' \in Requests /\ Admits(input, call')
  BY DEF Start
<1>3. TypeOK'
  BY <1>1, <1>2 DEF TypeOK, Start, Files
<1>4. /\ Touch(input, input, call', Items(input, call'))
      /\ call'.op = "add" => AddsOnly(input, input)
  BY <1>1, <1>2, StartTouches
<1>5. input' = input /\ mem' = input /\ todo' = Items(input, call') /\ pc' = "mutate"
  BY DEF Start
<1>6. Mutating'
  BY <1>2, <1>4, <1>5 DEF Mutating, AddsOnly
<1> QED
  BY <1>1, <1>3, <1>6
  DEF Start, IInv, Verifying, Promoting, Finishing, Returned, LeftBehind

\* An item that is applied.
LEMMA ApplyKeeps ==
    ASSUME IInv, pc = "mutate", NEW item \in todo, CanApply(mem, call, item),
           mem' = Apply(mem, call, item), todo' = todo \ {item},
           UNCHANGED <<input, call, tmp, out, pc>>
    PROVE  IInv'
<1>1. /\ input \in Maps /\ WithinTable(input) /\ call \in Requests
      /\ Admits(input, call) /\ Touch(input, mem, call, todo)
      /\ todo \subseteq Items(input, call)
      /\ call.op = "replace" /\ todo # {} => mem = input
      /\ call.op = "add" => AddsOnly(input, mem)
  BY DEF IInv, TypeOK, Mutating
<1>2. mem \in Maps /\ WithinTable(mem)
  BY <1>1 DEF Touch
<1>3. ASSUME call.op = "add"
      PROVE  Touch(input, mem', call, todo') /\ AddsOnly(input, mem')
  <2>1. AddTouch(input, mem, call) /\ item \in New(input, call)
    BY <1>1, <1>3 DEF Touch, Items
  <2>2. mem' = AddSound(mem, item) /\ CanAddSound(mem, item)
    BY <1>3 DEF Apply, CanApply
  <2>3. /\ mem' \in Maps /\ WithinTable(mem')
        /\ AddTouch(input, mem', call) /\ AddsOnly(input, mem')
    BY <1>1, <1>2, <1>3, <2>1, <2>2, AddTouches
  <2> QED  BY <1>3, <2>3 DEF Touch
<1>4. ASSUME call.op = "replace" PROVE Touch(input, mem', call, todo') /\ todo' = {}
  <2>1. mem = input /\ item = call.new /\ todo = {call.new} /\ AdmitsReplace(input, call)
    BY <1>1, <1>4 DEF Items, Admits
  <2>2. /\ mem' = AddSound(WithoutOld(input, call), call.new)
        /\ CanAddSound(WithoutOld(input, call), call.new)
    BY <1>4, <2>1 DEF Apply, CanApply
  <2>3. mem' \in Maps /\ WithinTable(mem') /\ ReplaceTouch(input, mem', call)
    BY <1>1, <1>4, <2>1, <2>2, ReplaceTouches
  <2> QED  BY <1>4, <2>1, <2>3 DEF Touch
<1>5. ASSUME call.op = "remove" PROVE Touch(input, mem', call, todo')
  <2>1. RemoveTouch(input, mem) /\ item \in Slots
    BY <1>1, <1>5, RequestShape DEF Touch, Items
  <2>2. mem' = RemoveSound(mem, item)
    BY <1>5 DEF Apply
  <2>3. mem' \in Maps /\ WithinTable(mem') /\ RemoveTouch(input, mem')
    BY <1>1, <1>2, <2>1, <2>2, RemoveTouches
  <2> QED  BY <1>5, <2>3 DEF Touch
<1>6. ASSUME call.op = "edit" PROVE Touch(input, mem', call, todo')
  <2>1. EditTouch(input, mem, call, todo) /\ item \in DOMAIN call.names
    BY <1>1, <1>6 DEF Touch, Items
  <2>2. mem' \in Maps /\ WithinTable(mem') /\ EditTouch(input, mem', call, todo \ {item})
    BY <1>1, <1>2, <1>6, <2>1, EditTouches
  <2> QED  BY <1>6, <2>2 DEF Touch
<1>7. Touch(input, mem', call, todo')
  BY <1>1, <1>3, <1>4, <1>5, <1>6, RequestShape
<1>8. Mutating'
  BY <1>1, <1>3, <1>4, <1>7 DEF Mutating, AddsOnly
<1>9. TypeOK' /\ WithinTable(input)'
  BY <1>1, <1>7 DEF IInv, TypeOK, Touch
<1> QED
  BY <1>8, <1>9 DEF IInv, Verifying, Promoting, Finishing, Returned, LeftBehind

LEMMA MutateKeeps ==
    ASSUME IInv, Mutate
    PROVE  IInv'
BY ApplyKeeps, FailKeeps DEF Mutate

\* What a save leaves in the temporary, when it is not damaged.
LEMMA SavedTouches ==
    ASSUME IInv, pc = "mutate", todo = {},
           NEW file \in {Saved, [Saved EXCEPT !.assets = input.assets]}
    PROVE  Touch(input, file, call, {})
<1>1. /\ input \in Maps /\ WithinTable(input) /\ call \in Requests
      /\ Touch(input, mem, call, {})
      /\ call.op = "add" => AddsOnly(input, mem)
  BY DEF IInv, TypeOK, Mutating
<1>2. Touch(input, Saved, call, {})
  <2>1. CASE Copies
    BY <1>1, <2>1 DEF Copies, Saved, Touch, AddTouch
  <2>2. CASE ~Copies
    BY <1>1, <2>2, SweepTouch, ReloadTouch DEF Saved, Swept
  <2> QED  BY <2>1, <2>2
<1> DEFINE s == Saved  n == [s EXCEPT !.assets = input.assets]
<1>3. s \in Maps /\ WithinTable(s) /\ Touch(input, s, call, {})
  BY <1>2 DEF Touch
<1> HIDE DEF s
<1>4. n = [strings |-> s.strings, size |-> s.size, refs |-> s.refs, slots |-> s.slots,
           assets |-> input.assets]
  BY <1>3, MapParts
<1>5. n \in Maps
  BY <1>1, <1>3, <1>4, MapParts DEF Maps
<1>6. /\ n.strings = s.strings /\ n.size = s.size /\ n.refs = s.refs /\ n.slots = s.slots
      /\ n.assets = input.assets
  BY <1>4
<1> HIDE DEF n
<1>7. /\ WithinTable(n)
      /\ call.op = "add" => AddTouch(input, n, call)
      /\ call.op = "replace" => ReplaceTouch(input, n, call)
      /\ call.op = "remove" => RemoveTouch(input, n)
  BY <1>3, <1>6 DEF WithinTable, Touch, AddTouch, ReplaceTouch, RemoveTouch, TextAt
<1>8. call.op = "edit" => EditTouch(input, n, call, {})
  BY <1>3, <1>6 DEF Touch, EditTouch, TextAt, Reads
<1>9. Touch(input, n, call, {})
  BY <1>5, <1>7, <1>8 DEF Touch
<1> QED  BY <1>2, <1>9 DEF n, s

LEMMA SaveKeeps ==
    ASSUME IInv, Save
    PROVE  IInv'
<1>1. CASE Fail
  BY <1>1, FailKeeps
<1>2. CASE /\ mem' = Swept
           /\ tmp' \in {Saved, [Saved EXCEPT !.assets = input.assets], Damaged}
           /\ pc' = "verify"
           /\ UNCHANGED <<input, call, todo, out>>
  <2>1. pc = "mutate" /\ todo = {} /\ Admits(input, call)
    BY DEF Save, IInv, Mutating
  <2>2. tmp' = Damaged \/ Touch(input, tmp', call, {})
    BY <1>2, <2>1, SavedTouches
  <2>3. Verifying'
    BY <1>2, <2>1, <2>2 DEF Verifying
  <2>4. Swept \in Maps
    BY DeleteUnusedFacts DEF IInv, TypeOK, Swept
  <2>5. TypeOK' /\ WithinTable(input)'
    BY <1>2, <2>1, <2>2, <2>4 DEF IInv, TypeOK, Files, Touch
  <2> QED
    BY <1>2, <2>3, <2>5 DEF IInv, Mutating, Promoting, Finishing, Returned, LeftBehind
<1> QED  BY <1>1, <1>2 DEF Save

\* The caller is left with the output or with what it had, and a call that
\* ends without cleaning up with what lay at the output before.
LEMMA EndKeeps ==
    ASSUME IInv, Adopt \/ Discard \/ LeaveFiles
    PROVE  IInv'
<1>1. input \in Maps /\ WithinTable(input)
  BY DEF IInv, TypeOK
<1>2. Adopt => out \in Maps /\ WithinTable(out)
  BY DEF IInv, Adopt, Returned, Exact
<1>3. pc' = "idle" /\ todo' = {} /\ mem' = input'
  BY DEF Adopt, Discard, LeaveFiles, Over
<1>4. input' \in Maps /\ WithinTable(input')
  BY <1>1, <1>2 DEF Adopt, Discard, LeaveFiles
<1>5. call' = call /\ tmp' = tmp /\ (out' = Absent \/ (out' = out /\ input' = input))
  BY DEF Adopt, Discard, LeaveFiles
<1>6. TypeOK'
  BY <1>3, <1>4, <1>5 DEF IInv, TypeOK, Files
<1>7. LeftBehind'
  BY <1>5 DEF IInv, LeftBehind
<1> QED
  BY <1>3, <1>4, <1>6, <1>7 DEF IInv, Mutating, Verifying, Promoting, Finishing, Returned

LEMMA VerifyKeeps ==
    ASSUME IInv, Verify
    PROVE  IInv'
<1>1. CASE Fail
  BY <1>1, FailKeeps
<1>2. CASE Verified /\ pc' = "promote" /\ UNCHANGED <<input, call, mem, todo, tmp, out>>
  <2>1. Ready(tmp)
    BY <1>2, VerifiedIsReady DEF Verify
  <2>2. Promoting'
    BY <1>2, <2>1 DEF Promoting, Ready
  <2>3. TypeOK' /\ WithinTable(input)'
    BY <1>2 DEF IInv, TypeOK, Verify
  <2> QED
    BY <1>2, <2>2, <2>3 DEF IInv, Mutating, Verifying, Finishing, Returned, LeftBehind
<1> QED  BY <1>1, <1>2, EndKeeps DEF Verify

LEMMA PromoteKeeps ==
    ASSUME IInv, Promote
    PROVE  IInv'
<1>1. CASE Fail
  BY <1>1, FailKeeps
<1>2. CASE out' = tmp /\ tmp' = Absent /\ pc' = "finish" /\ UNCHANGED <<input, call, mem, todo>>
  <2>1. Ready(tmp)
    BY DEF Promote, IInv, Promoting
  <2>2. Finishing' /\ LeftBehind'
    BY <1>2, <2>1 DEF Finishing, LeftBehind, Ready
  <2>3. TypeOK' /\ WithinTable(input)'
    BY <1>2 DEF IInv, TypeOK, Files, Promote
  <2> QED
    BY <1>2, <2>2, <2>3 DEF IInv, Mutating, Verifying, Promoting, Returned
<1> QED  BY <1>1, <1>2 DEF Promote

LEMMA FinishKeeps ==
    ASSUME IInv, Finish
    PROVE  IInv'
<1>1. CASE Fail
  BY <1>1, FailKeeps
<1>2. CASE /\ call.op = "edit" => out # Damaged
           /\ pc' = "returned"
           /\ UNCHANGED <<input, call, mem, todo, tmp, out>>
  <2>1. Ready(out)
    BY DEF Finish, IInv, Finishing
  <2>2. Returned'
    BY <1>2, <2>1 DEF Returned, Ready
  <2>3. TypeOK' /\ WithinTable(input)'
    BY <1>2 DEF IInv, TypeOK, Finish
  <2> QED
    BY <1>2, <2>2, <2>3 DEF IInv, Mutating, Verifying, Promoting, Finishing, LeftBehind
<1> QED  BY <1>1, <1>2, EndKeeps DEF Finish

LEMMA StutterKeeps ==
    ASSUME IInv, UNCHANGED vars
    PROVE  IInv'
BY DEF vars, IInv, TypeOK, WithinTable, Mutating, Verifying, Promoting, Finishing, Returned,
       LeftBehind, Ready

LEMMA Invariance == Spec => []IInv
<1>1. IInv /\ [Next]_vars => IInv'
  BY StartKeeps, MutateKeeps, SaveKeeps, VerifyKeeps, PromoteKeeps, FinishKeeps, EndKeeps,
     StutterKeeps DEF Next, Crash
<1> QED  BY InitIInv, <1>1, PTL DEF Spec

-----------------------------------------------------------------------------
(* What the native calls promise.                                          *)

\* Every map a call reads or writes is a map.
THEOREM TypeCorrect == Spec => []TypeOK
<1>1. IInv => TypeOK
  BY DEF IInv
<1> QED  BY <1>1, Invariance, PTL

\* Whatever lies at the output path of a sound call, even after a crash, is
\* the input with exactly the requested change.
THEOREM PromotedIsExact == Spec => []PromotedSoundMapIsExact
<1>1. IInv => PromotedSoundMapIsExact
  BY DEF IInv, LeftBehind, Exact, PromotedSoundMapIsExact
<1> QED  BY <1>1, Invariance, PTL

\* The calls implement CandidateFile: a call hands over nothing, or its input
\* with exactly the requested change.
THEOREM ImplementsCandidateFile == Spec => HandsOverTheEdit
<1>1. Init => Candidate!Init
  <2> SUFFICES ASSUME Init PROVE Candidate!Init
    OBVIOUS
  <2>1. TypeOK
    BY InitIInv DEF IInv
  <2> QED  BY <2>1, SameSets DEF Init, TypeOK, Candidate!Init, delivered
<1>2. IInv /\ [Next]_vars => [Candidate!Next]_(Candidate!vars)
  <2> SUFFICES ASSUME IInv, [Next]_vars PROVE [Candidate!Next]_(Candidate!vars)
    OBVIOUS
  <2>1. CASE Start
    BY <2>1 DEF Start, Candidate!Next, Candidate!Request, delivered
  <2>2. ASSUME pc # "returned", pc' # "returned", UNCHANGED <<input, call>>
        PROVE  UNCHANGED Candidate!vars
    BY <2>2 DEF Candidate!vars, delivered
  <2>3. CASE (Fail \/ LeaveFiles) /\ pc # "returned"
    BY <2>2, <2>3 DEF Fail, LeaveFiles, Over
  <2>4. CASE Mutate
    BY <2>2, <2>3, <2>4 DEF Mutate
  <2>5. CASE Save
    BY <2>2, <2>3, <2>5 DEF Save
  <2>6. CASE Verify
    BY <2>2, <2>3, <2>6 DEF Verify
  <2>7. CASE Promote
    BY <2>2, <2>3, <2>7 DEF Promote
  <2>8. CASE Finish
    <3>1. CASE pc' = "returned" /\ UNCHANGED <<input, call, out>>
      <4>1. Exact(input', out', call')
        BY <2>8, <3>1, FinishKeeps DEF IInv, Returned
      <4> QED
        BY <2>8, <3>1, <4>1, SameSets
        DEF Finish, Candidate!Next, Candidate!Deliver, delivered, Exact
    <3> QED  BY <2>3, <2>8, <3>1 DEF Finish
  <2>9. CASE Adopt
    <3>1. out \in Maps /\ out # Absent
      BY <2>9, FilesAssumption DEF IInv, Adopt, Returned, Exact
    <3> QED
      BY <2>9, <3>1 DEF Adopt, Over, Candidate!Next, Candidate!Adopt, delivered
  <2>10. CASE Discard
    BY <2>10 DEF Discard, Over, Candidate!Next, Candidate!Drop, delivered
  <2>11. CASE Crash
    BY <2>3, <2>11 DEF Crash
  <2>12. CASE UNCHANGED vars
    BY <2>12 DEF vars, Candidate!vars, delivered
  <2> QED
    BY <2>1, <2>4, <2>5, <2>6, <2>7, <2>8, <2>9, <2>10, <2>11, <2>12 DEF Next
<1> QED  BY <1>1, <1>2, Invariance, PTL DEF Spec, HandsOverTheEdit, Candidate!Spec

\* No sequence of adopted calls takes away a sound that is referred to.
THEOREM UsedSoundsAreKept == Spec => UsedSoundsSurvive
<1>1. IInv /\ [Next]_vars =>
        [input' # input =>
            \A p \in Paths :
                Registered(input, p) /\ OtherUsed(input, FindString(input, p))
                    => Registered(input', p)]_vars
  <2> SUFFICES ASSUME IInv, Next, input' # input
               PROVE  UsedKept(input, input')
    BY DEF UsedKept
  <2>1. Adopt
    BY DEF Next, Start, Mutate, Save, Verify, Promote, Finish, Discard, Crash, Fail, LeaveFiles
  <2> QED  BY <2>1 DEF IInv, Adopt, Returned, Exact
<1> QED  BY <1>1, Invariance, PTL DEF Spec, UsedSoundsSurvive
==============================================================================
