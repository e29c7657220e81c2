----------------------------- MODULE GameStrings -----------------------------
(***************************************************************************)
(* The string table of a map in memory, the data that refers to it, and    *)
(* the sounds registered in it, with the operations of MappingCore that    *)
(* the native map calls are built from.  A managed sound is three records  *)
(* that must agree: an archive asset, a string with its path, and a WAV    *)
(* slot with the id of that string.                                        *)
(*                                                                         *)
(* Game users are the references Scenario::stringUsed counts for the game  *)
(* (scenario name and description, forces, units, trigger texts and        *)
(* trigger or briefing sounds); editor users are the others but the WAV    *)
(* slots (locations, switches, comments).                                  *)
(***************************************************************************)
EXTENDS Naturals

CONSTANTS
    Texts,          \* the non-empty strings a map may store
    Paths,          \* those that are managed sound paths
    Empty,          \* the empty string
    None,           \* an id that stores no string (std::nullopt)
    GameUsers,
    EditorUsers,
    Slots,          \* WAV slots, numbered from 1
    MaxStrings      \* the highest id a table may store (Chk::MaxStrings - 1)

ASSUME TextsAssumption == Empty \notin Texts /\ None \notin Texts /\ Empty # None
ASSUME PathsAssumption == Paths \subseteq Texts
ASSUME UsersAssumption == GameUsers \cap EditorUsers = {}
ASSUME NumbersAssumption == MaxStrings \in Nat /\ Slots \subseteq Nat

Users == GameUsers \cup EditorUsers
Ids == 1..MaxStrings

\* A map.  A reference is an id, 0 for none, and may lie beyond the table;
\* ids beyond the table store nothing.  An asset is absent, the OGG its path
\* names by hash, or some other content.
Maps == [strings : [Ids -> Texts \cup {Empty, None}],
         size    : 0..MaxStrings,
         refs    : [Users -> 0..MaxStrings],
         slots   : [Slots -> 0..MaxStrings],
         assets  : [Paths -> {"absent", "ogg", "other"}]]

TextAt(m, id) == IF id \in Ids THEN m.strings[id] ELSE None

\* A saved table stores a missing string as an offset to an empty one, so
\* nobody can tell the two apart after a reload.
Shown(text) == IF text = None THEN Empty ELSE text

Reads(m, user) == TextAt(m, m.refs[user])

Least(ids) == CHOOSE id \in ids : \A other \in ids : id <= other

Storing(m, text) == {id \in Ids : m.strings[id] = text}

FindString(m, text) == IF Storing(m, text) = {} THEN 0 ELSE Least(Storing(m, text))

SlotsOf(m, id) == {s \in Slots : m.slots[s] = id}
FreeSlots(m) == SlotsOf(m, 0)

GameUsed(m, id) == \E u \in GameUsers : m.refs[u] = id
OtherUsed(m, id) == \E u \in Users : m.refs[u] = id

\* Faulty: names of locations and switches do not count.
UnusedByGame(m) == {id \in Ids : ~GameUsed(m, id) /\ SlotsOf(m, id) = {}}

\* Ids no reference names; a reference beyond the table counts as well.
UnusedIds(m) == {id \in Ids : ~OtherUsed(m, id) /\ SlotsOf(m, id) = {}}

Enlarge(m, size) == [m EXCEPT !.size = IF @ < size THEN size ELSE @]

\* Scenario::addString: an equal string is shared, otherwise the first id
\* nobody uses takes the text, even when it still stores one.
CanAddString(m, text) == FindString(m, text) # 0 \/ UnusedIds(m) # {}
AddedId(m, text) ==
    IF FindString(m, text) # 0 THEN FindString(m, text) ELSE Least(UnusedIds(m))
AddString(m, text) ==
    IF FindString(m, text) # 0 THEN m
    ELSE [Enlarge(m, AddedId(m, text)) EXCEPT !.strings[AddedId(m, text)] = text]

SetName(m, user, text) ==
    [AddString(m, text) EXCEPT !.refs[user] = AddedId(m, text)]

ClearName(m, user) == [m EXCEPT !.refs[user] = 0]

\* MapFile::addSound with preserveExistingStrings: never an id that stores a
\* string, so nothing the table holds is overwritten.
VacantIds(m) == {id \in 1..m.size : m.strings[id] = None}
SoundId(m, path) ==
    IF FindString(m, path) # 0 THEN FindString(m, path)
    ELSE IF VacantIds(m) # {} THEN Least(VacantIds(m)) ELSE m.size + 1
CanAddSound(m, path) == FreeSlots(m) # {} /\ SoundId(m, path) <= MaxStrings
AddSound(m, path) ==
    LET id == SoundId(m, path) IN
    [Enlarge(m, id) EXCEPT !.strings[id] = path,
                           !.slots[Least(FreeSlots(m))] = id,
                           !.assets[path] = "ogg"]

\* Scenario::deleteString: only the game's users protect a string; every
\* other reference to a deleted string is cleared.
DeleteString(m, id) ==
    IF GameUsed(m, id) THEN m
    ELSE [m EXCEPT !.strings = [i \in Ids |-> IF i = id THEN None ELSE @[i]],
                   !.refs = [u \in Users |-> IF @[u] = id THEN 0 ELSE @[u]],
                   !.slots = [s \in Slots |-> IF @[s] = id THEN 0 ELSE @[s]]]

\* MapFile::removeMpqAsset, as the next save carries it out.
RemoveAsset(m, path) ==
    [m EXCEPT !.assets = [p \in Paths |-> IF p = path THEN "absent" ELSE @[p]]]

\* MapFile::removeSoundBySoundIndex of a slot whose string is a managed path.
RemoveSound(m, slot) ==
    LET id == m.slots[slot] IN
    RemoveAsset(DeleteString([m EXCEPT !.slots[slot] = 0], id), TextAt(m, id))

\* Faulty: only the references of the game itself count.
DeleteUnusedByGame(m) ==
    [m EXCEPT !.strings = [id \in Ids |-> IF GameUsed(m, id) THEN @[id] ELSE None]]

\* Scenario::deleteUnusedStrings, which every save starts with: a string no
\* reference names is deleted, whoever put it there.  The table keeps its size.
DeleteUnusedStrings(m) ==
    [m EXCEPT !.strings = [id \in Ids |-> IF id \in UnusedIds(m) THEN None ELSE @[id]]]

\* What is read back from a table that was written.
Reloaded(m) ==
    [m EXCEPT !.strings = [id \in Ids |-> IF id <= m.size THEN Shown(@[id]) ELSE None]]

\* A sound whose asset, string and slot all exist, exactly once.
Registered(m, path) ==
    /\ m.assets[path] = "ogg"
    /\ FindString(m, path) # 0
    /\ \E s \in Slots : SlotsOf(m, FindString(m, path)) = {s}

\* A path that has left no trace in the map.
Vacant(m, path) == m.assets[path] = "absent" /\ FindString(m, path) = 0
==============================================================================
