-------------------------- MODULE GameStringsProofs --------------------------
(***************************************************************************)
(* What the operations on a map's string table and sounds return, and what *)
(* they leave alone, for any table size, users, slots and texts.           *)
(***************************************************************************)
EXTENDS GameStrings, WellFoundedInduction, TLAPS

USE TextsAssumption, PathsAssumption, NumbersAssumption

\* A map whose ids beyond the table store nothing, as in every loaded map.
WithinTable(m) == \A id \in Ids : m.strings[id] # None => id <= m.size

-----------------------------------------------------------------------------
(* Looking up.                                                             *)

\* The least of a nonempty set of numbers is in it, and below the others.
LEMMA LeastIsLeast ==
    ASSUME NEW ids \in SUBSET Nat, ids # {}
    PROVE  Least(ids) \in ids /\ \A other \in ids : Least(ids) <= other
<1> DEFINE R == OpToRel(<, Nat)
<1>1. IsWellFoundedOn(R, Nat)
  BY NatLessThanWellFounded
<1>2. \A x, y \in Nat : <<x, y>> \in R <=> x < y
  BY DEF OpToRel
<1> HIDE DEF R
<1>3. PICK x \in ids : \A y \in ids : ~(<<y, x>> \in R)
  BY <1>1, WFMin
<1>4. \A y \in ids : x <= y
  <2> SUFFICES ASSUME NEW y \in ids PROVE x <= y
    OBVIOUS
  <2>1. x \in Nat /\ y \in Nat /\ ~(<<y, x>> \in R)
    BY <1>3
  <2>2. ~(y < x)
    BY <1>2, <2>1
  <2> QED  BY <2>1, <2>2
<1>5. \E id \in ids : \A other \in ids : id <= other
  BY <1>4
<1>6. /\ (CHOOSE id \in ids : \A other \in ids : id <= other) \in ids
      /\ \A other \in ids : (CHOOSE id \in ids : \A o \in ids : id <= o) <= other
  <2> DEFINE P(id) == \A other \in ids : id <= other
  <2>1. \E id \in ids : P(id)
    BY <1>5
  <2> HIDE DEF P
  <2>2. (CHOOSE id \in ids : P(id)) \in ids /\ P(CHOOSE id \in ids : P(id))
    BY <2>1, Zenon
  <2> QED  BY <2>2 DEF P
<1> QED  BY <1>6 DEF Least

\* The parts of a map and their types.
LEMMA MapParts ==
    ASSUME NEW m \in Maps
    PROVE  /\ m.strings \in [Ids -> Texts \cup {Empty, None}]
           /\ m.size \in 0..MaxStrings
           /\ m.refs \in [Users -> 0..MaxStrings]
           /\ m.slots \in [Slots -> 0..MaxStrings]
           /\ m.assets \in [Paths -> {"absent", "ogg", "other"}]
           /\ m = [strings |-> m.strings, size |-> m.size, refs |-> m.refs, slots |-> m.slots,
                   assets |-> m.assets]
BY DEF Maps

\* A text is found at the least id that stores it, or nowhere.
LEMMA FindStringFacts ==
    ASSUME NEW m \in Maps, NEW text
    PROVE  /\ FindString(m, text) \in 0..MaxStrings
           /\ FindString(m, text) # 0 =>
                /\ FindString(m, text) \in Ids
                /\ m.strings[FindString(m, text)] = text
                /\ \A id \in Ids : m.strings[id] = text => FindString(m, text) <= id
           /\ FindString(m, text) = 0 => \A id \in Ids : m.strings[id] # text
<1>1. Storing(m, text) \in SUBSET Nat /\ Storing(m, text) \subseteq Ids
  BY DEF Storing, Ids
<1>2. CASE Storing(m, text) = {}
  BY <1>2 DEF FindString, Storing, Ids
<1>3. CASE Storing(m, text) # {}
  <2>1. /\ Least(Storing(m, text)) \in Storing(m, text)
        /\ \A other \in Storing(m, text) : Least(Storing(m, text)) <= other
    BY <1>1, <1>3, LeastIsLeast
  <2>2. FindString(m, text) = Least(Storing(m, text))
    BY <1>3 DEF FindString
  <2> QED  BY <1>1, <2>1, <2>2 DEF Storing, Ids
<1> QED  BY <1>2, <1>3

\* Two maps that store a text at the same ids find it at the same one.
LEMMA SameFind ==
    ASSUME NEW m \in Maps, NEW n \in Maps, NEW text,
           \A id \in Ids : m.strings[id] = text <=> n.strings[id] = text
    PROVE  FindString(m, text) = FindString(n, text)
<1> Storing(m, text) = Storing(n, text)
  BY DEF Storing
<1> QED  BY DEF FindString

\* A copy of a text that comes first is still found when others are gone.
LEMMA StillFound ==
    ASSUME NEW m \in Maps, NEW n \in Maps, NEW text,
           FindString(m, text) # 0,
           n.strings[FindString(m, text)] = text,
           \A id \in Ids : n.strings[id] = text => m.strings[id] = text
    PROVE  FindString(n, text) = FindString(m, text)
<1> DEFINE f == FindString(m, text)  g == FindString(n, text)
<1>1. f \in Ids /\ \A id \in Ids : m.strings[id] = text => f <= id
  BY FindStringFacts
<1>2. g \in 0..MaxStrings /\ (g # 0 => g \in Ids /\ n.strings[g] = text /\ \A id \in Ids : n.strings[id] = text => g <= id)
  BY FindStringFacts
<1>3. g # 0
  BY <1>1, FindStringFacts
<1> HIDE DEF f, g
<1>4. f <= g /\ g <= f
  BY <1>1, <1>2, <1>3 DEF f
<1>5. f = g
  BY <1>1, <1>2, <1>4 DEF Ids
<1> QED  BY <1>5 DEF f, g

-----------------------------------------------------------------------------
(* Strings and names.                                                      *)

LEMMA EnlargeFacts ==
    ASSUME NEW m \in Maps, NEW id \in Ids
    PROVE  /\ Enlarge(m, id) \in Maps
           /\ Enlarge(m, id).strings = m.strings /\ Enlarge(m, id).refs = m.refs
           /\ Enlarge(m, id).slots = m.slots /\ Enlarge(m, id).assets = m.assets
           /\ id <= Enlarge(m, id).size /\ m.size <= Enlarge(m, id).size
<1> DEFINE e == Enlarge(m, id)  size == IF m.size < id THEN id ELSE m.size
<1>1. m.size \in 0..MaxStrings /\ size \in 0..MaxStrings /\ id <= size /\ m.size <= size
  BY MapParts DEF Ids
<1>2. e = [strings |-> m.strings, size |-> size, refs |-> m.refs, slots |-> m.slots,
           assets |-> m.assets]
  BY MapParts DEF Enlarge
<1> HIDE DEF e, size
<1>3. e \in Maps
  BY <1>1, <1>2, MapParts DEF Maps
<1> QED  BY <1>1, <1>2, <1>3 DEF e

\* A text is stored at an id of its own or at the one it already has, and an
\* id it takes was nobody's; nothing else changes.
LEMMA AddStringFacts ==
    ASSUME NEW m \in Maps, NEW text \in Texts \cup {Empty}, CanAddString(m, text)
    PROVE  LET n == AddString(m, text)
               id == AddedId(m, text)
           IN  /\ n \in Maps /\ id \in Ids
               /\ n.refs = m.refs /\ n.slots = m.slots /\ n.assets = m.assets
               /\ n.strings[id] = text
               /\ \A i \in Ids : n.strings[i] = m.strings[i] \/ (i = id /\ id \in UnusedIds(m))
               /\ WithinTable(m) => WithinTable(n)
<1> DEFINE n == AddString(m, text)  id == AddedId(m, text)
<1>1. CASE FindString(m, text) # 0
  BY <1>1, FindStringFacts DEF AddString, AddedId
<1>2. CASE FindString(m, text) = 0
  <2>1. UnusedIds(m) # {} /\ UnusedIds(m) \subseteq Ids /\ UnusedIds(m) \in SUBSET Nat
    BY <1>2 DEF CanAddString, UnusedIds, Ids
  <2>2. id = Least(UnusedIds(m))
    BY <1>2 DEF AddedId
  <2>3. id \in UnusedIds(m) /\ id \in Ids
    BY <2>1, <2>2, LeastIsLeast
  <2> HIDE DEF id
  <2>4. n = [Enlarge(m, id) EXCEPT !.strings[id] = text]
    BY <1>2 DEF AddString, id
  <2> DEFINE e == Enlarge(m, id)
  <2>5. /\ e \in Maps /\ e.strings = m.strings /\ e.refs = m.refs /\ e.slots = m.slots
        /\ e.assets = m.assets /\ id <= e.size /\ m.size <= e.size
    BY <2>3, EnlargeFacts
  <2> HIDE DEF e
  <2>6. n = [strings |-> [e.strings EXCEPT ![id] = text], size |-> e.size, refs |-> e.refs,
             slots |-> e.slots, assets |-> e.assets]
    BY <2>4, <2>5 DEF e, Maps
  <2> HIDE DEF n
  <2>7. e.strings \in [Ids -> Texts \cup {Empty, None}]
    BY <2>5, MapParts
  <2>8. [e.strings EXCEPT ![id] = text] \in [Ids -> Texts \cup {Empty, None}]
    BY <2>7, <2>3
  <2>9. n \in Maps
    BY <2>5, <2>6, <2>8 DEF Maps
  <2>10. n.strings[id] = text /\ \A i \in Ids \ {id} : n.strings[i] = m.strings[i]
    BY <2>3, <2>5, <2>6, <2>7
  <2>11. WithinTable(m) => WithinTable(n)
    <3> SUFFICES ASSUME WithinTable(m), NEW i \in Ids, n.strings[i] # None PROVE i <= n.size
      BY DEF WithinTable
    <3>1. n.size = e.size /\ e.size \in Nat /\ m.size \in Nat /\ i \in Nat
      BY <2>5, <2>6, MapParts DEF Ids
    <3> QED  BY <2>5, <2>10, <3>1 DEF WithinTable
  <2> QED  BY <2>3, <2>5, <2>6, <2>9, <2>10, <2>11 DEF n, id
<1> QED  BY <1>1, <1>2

\* A user whose name is set reads it, nobody else's text changes, and only
\* the id the name took stores something new.
LEMMA SetNameFacts ==
    ASSUME NEW m \in Maps, NEW user \in Users, NEW text \in Texts \cup {Empty},
           CanAddString(m, text)
    PROVE  LET n == SetName(m, user, text)
           IN  /\ n \in Maps /\ n.slots = m.slots /\ n.assets = m.assets
               /\ Reads(n, user) = text
               /\ \A u \in Users \ {user} : Reads(n, u) = Reads(m, u)
               /\ \A s \in Slots : TextAt(n, n.slots[s]) = TextAt(m, m.slots[s])
               /\ \A i \in Ids : n.strings[i] \in {m.strings[i], text}
               /\ WithinTable(m) => WithinTable(n)
<1> DEFINE a == AddString(m, text)  id == AddedId(m, text)  n == SetName(m, user, text)
<1>1. /\ a \in Maps /\ id \in Ids
      /\ a.refs = m.refs /\ a.slots = m.slots /\ a.assets = m.assets
      /\ a.strings[id] = text
      /\ \A i \in Ids : a.strings[i] = m.strings[i] \/ (i = id /\ id \in UnusedIds(m))
      /\ WithinTable(m) => WithinTable(a)
  BY AddStringFacts
<1>2. n = [a EXCEPT !.refs[user] = id]
  BY DEF SetName
<1> HIDE DEF a, id, n
<1>3. n = [strings |-> a.strings, size |-> a.size, refs |-> [a.refs EXCEPT ![user] = id],
           slots |-> a.slots, assets |-> a.assets]
  BY <1>1, <1>2, MapParts
<1>4. [a.refs EXCEPT ![user] = id] \in [Users -> 0..MaxStrings]
  <2>1. a.refs \in [Users -> 0..MaxStrings] /\ id \in 0..MaxStrings
    BY <1>1, MapParts DEF Ids
  <2> QED  BY <2>1
<1>5. n \in Maps /\ n.slots = m.slots /\ n.assets = m.assets /\ n.strings = a.strings
  BY <1>1, <1>3, <1>4, MapParts DEF Maps
<1>6. n.refs[user] = id /\ \A u \in Users \ {user} : n.refs[u] = m.refs[u]
  BY <1>1, <1>3, MapParts
<1>7. Reads(n, user) = text
  BY <1>1, <1>5, <1>6 DEF Reads, TextAt
<1>8. \A i \in Ids : ~(i \in UnusedIds(m)) => n.strings[i] = m.strings[i]
  BY <1>1, <1>5
<1>9. \A u \in Users \ {user} : Reads(n, u) = Reads(m, u)
  BY <1>6, <1>8 DEF Reads, TextAt, UnusedIds, OtherUsed
<1>10. \A s \in Slots : TextAt(n, n.slots[s]) = TextAt(m, m.slots[s])
  BY <1>5, <1>8 DEF TextAt, UnusedIds, SlotsOf
<1>11. \A i \in Ids : n.strings[i] \in {m.strings[i], text}
  BY <1>1, <1>5
<1>12. WithinTable(m) => WithinTable(n)
  BY <1>1, <1>3 DEF WithinTable
<1> QED  BY <1>5, <1>7, <1>9, <1>10, <1>11, <1>12 DEF n

\* A user whose name is cleared reads nothing, and nothing else changes.
LEMMA ClearNameFacts ==
    ASSUME NEW m \in Maps, NEW user \in Users
    PROVE  LET n == ClearName(m, user)
           IN  /\ n \in Maps /\ n.slots = m.slots /\ n.assets = m.assets
               /\ n.strings = m.strings /\ n.size = m.size
               /\ Reads(n, user) = None
               /\ \A u \in Users \ {user} : n.refs[u] = m.refs[u]
<1> DEFINE n == ClearName(m, user)
<1>1. n = [strings |-> m.strings, size |-> m.size, refs |-> [m.refs EXCEPT ![user] = 0],
           slots |-> m.slots, assets |-> m.assets]
  BY MapParts DEF ClearName
<1> HIDE DEF n
<1>2. [m.refs EXCEPT ![user] = 0] \in [Users -> 0..MaxStrings]
  <2>1. m.refs \in [Users -> 0..MaxStrings] /\ 0 \in 0..MaxStrings
    BY MapParts
  <2> QED  BY <2>1
<1>3. n \in Maps
  BY <1>1, <1>2, MapParts DEF Maps
<1>4. n.refs[user] = 0 /\ \A u \in Users \ {user} : n.refs[u] = m.refs[u]
  BY <1>1, MapParts
<1>5. Reads(n, user) = None
  BY <1>4 DEF Reads, TextAt, Ids
<1> QED  BY <1>1, <1>3, <1>4, <1>5 DEF n

-----------------------------------------------------------------------------
(* Sounds.                                                                 *)

\* A sound takes the id that stores its path or one that stored nothing, and
\* a free slot; no other string, slot or asset changes, nor any reference.
LEMMA AddSoundFacts ==
    ASSUME NEW m \in Maps, NEW path \in Paths, CanAddSound(m, path)
    PROVE  LET n == AddSound(m, path)
               slot == Least(FreeSlots(m))
           IN  /\ n \in Maps /\ n.refs = m.refs /\ m.size <= n.size
               /\ slot \in Slots /\ m.slots[slot] = 0
               /\ n.slots[slot] \in Ids /\ n.strings[n.slots[slot]] = path
               /\ \A s \in Slots \ {slot} : n.slots[s] = m.slots[s]
               /\ \A i \in Ids : n.strings[i] \in {m.strings[i], path}
               /\ WithinTable(m) =>
                    \A i \in Ids : m.strings[i] # None => n.strings[i] = m.strings[i]
               /\ WithinTable(m) => WithinTable(n)
<1> DEFINE id == SoundId(m, path)  slot == Least(FreeSlots(m))  n == AddSound(m, path)
<1>1. slot \in Slots /\ m.slots[slot] = 0
  <2>1. FreeSlots(m) # {} /\ FreeSlots(m) \in SUBSET Nat
    BY DEF CanAddSound, FreeSlots, SlotsOf
  <2>2. slot \in FreeSlots(m)
    BY <2>1, LeastIsLeast
  <2> QED  BY <2>2 DEF FreeSlots, SlotsOf
<1>2. /\ id \in Ids
      /\ m.strings[id] = path \/ m.strings[id] = None \/ m.size < id
  <2>1. CASE FindString(m, path) # 0
    BY <2>1, FindStringFacts DEF SoundId
  <2>2. CASE FindString(m, path) = 0 /\ VacantIds(m) # {}
    <3>1. VacantIds(m) \in SUBSET Nat
      BY DEF VacantIds
    <3>2. id = Least(VacantIds(m))
      BY <2>2 DEF SoundId
    <3>3. id \in VacantIds(m)
      BY <2>2, <3>1, <3>2, LeastIsLeast
    <3> HIDE DEF id
    <3>4. m.size \in 0..MaxStrings
      BY MapParts
    <3> QED  BY <3>3, <3>4 DEF VacantIds, Ids
  <2>3. CASE FindString(m, path) = 0 /\ VacantIds(m) = {}
    <3>1. id = m.size + 1 /\ id <= MaxStrings /\ m.size \in 0..MaxStrings
      BY <2>3, MapParts DEF SoundId, CanAddSound
    <3> HIDE DEF id
    <3> QED  BY <3>1 DEF Ids
  <2> QED  BY <2>1, <2>2, <2>3
<1> HIDE DEF id, slot
<1> DEFINE e == Enlarge(m, id)
<1>3. /\ e \in Maps /\ e.strings = m.strings /\ e.refs = m.refs /\ e.slots = m.slots
      /\ e.assets = m.assets /\ id <= e.size /\ m.size <= e.size
  BY <1>2, EnlargeFacts
<1>4. n = [e EXCEPT !.strings[id] = path, !.slots[slot] = id, !.assets[path] = "ogg"]
  BY DEF AddSound, id, slot
<1> HIDE DEF e, n
<1>5. n = [strings |-> [e.strings EXCEPT ![id] = path], size |-> e.size, refs |-> e.refs,
           slots |-> [e.slots EXCEPT ![slot] = id], assets |-> [e.assets EXCEPT ![path] = "ogg"]]
  <2> DEFINE e1 == [e EXCEPT !.strings[id] = path]
             e2 == [e1 EXCEPT !.slots[slot] = id]
  <2>1. e = [strings |-> e.strings, size |-> e.size, refs |-> e.refs, slots |-> e.slots,
             assets |-> e.assets]
    BY <1>3, MapParts
  <2>2. e1 = [strings |-> [e.strings EXCEPT ![id] = path], size |-> e.size, refs |-> e.refs,
              slots |-> e.slots, assets |-> e.assets]
    BY <2>1
  <2>3. n = [e2 EXCEPT !.assets[path] = "ogg"]
    BY <1>4, Zenon
  <2> HIDE DEF e1
  <2>4. e2 = [strings |-> [e.strings EXCEPT ![id] = path], size |-> e.size, refs |-> e.refs,
              slots |-> [e.slots EXCEPT ![slot] = id], assets |-> e.assets]
    BY <2>2
  <2> HIDE DEF e2
  <2> QED  BY <2>3, <2>4
<1>6. [e.strings EXCEPT ![id] = path] \in [Ids -> Texts \cup {Empty, None}]
  <2>1. e.strings \in [Ids -> Texts \cup {Empty, None}] /\ path \in Texts
    BY <1>3, MapParts
  <2> QED  BY <2>1
<1>7. [e.slots EXCEPT ![slot] = id] \in [Slots -> 0..MaxStrings]
  <2>1. e.slots \in [Slots -> 0..MaxStrings] /\ id \in 0..MaxStrings
    BY <1>2, <1>3, MapParts DEF Ids
  <2> QED  BY <2>1
<1>8. [e.assets EXCEPT ![path] = "ogg"] \in [Paths -> {"absent", "ogg", "other"}]
  <2>1. e.assets \in [Paths -> {"absent", "ogg", "other"}]
    BY <1>3, MapParts
  <2> QED  BY <2>1
<1>9. n \in Maps
  BY <1>3, <1>5, <1>6, <1>7, <1>8, MapParts DEF Maps
<1>10. n.refs = m.refs /\ m.size <= n.size
  BY <1>3, <1>5
<1>11. n.strings[id] = path /\ \A i \in Ids \ {id} : n.strings[i] = m.strings[i]
  BY <1>2, <1>3, <1>5, MapParts
<1>12. n.slots[slot] = id /\ \A s \in Slots \ {slot} : n.slots[s] = m.slots[s]
  BY <1>1, <1>3, <1>5, MapParts
<1>13. ASSUME WithinTable(m), NEW i \in Ids, m.strings[i] # None
       PROVE  n.strings[i] = m.strings[i]
  <2>1. i <= m.size /\ m.size \in Nat /\ i \in Nat /\ id \in Nat
    BY <1>2, <1>13, MapParts DEF WithinTable, Ids
  <2>2. i = id => m.strings[id] = path
    BY <1>2, <1>13, <2>1
  <2> QED  BY <1>11, <2>2
<1>14. ASSUME WithinTable(m), NEW i \in Ids, n.strings[i] # None
       PROVE  i <= n.size
  <2>1. m.size \in Nat /\ n.size \in Nat /\ i \in Nat /\ id <= n.size
    BY <1>3, <1>5, <1>9, MapParts DEF Ids
  <2>2. i # id => i <= m.size
    BY <1>11, <1>14 DEF WithinTable
  <2> QED  BY <1>10, <2>1, <2>2
<1> QED  BY <1>1, <1>2, <1>9, <1>10, <1>11, <1>12, <1>13, <1>14 DEF n, slot, WithinTable

\* A deleted string and every reference to it are gone, unless the game uses
\* it and nothing happens.
LEMMA DeleteStringFacts ==
    ASSUME NEW m \in Maps, NEW id
    PROVE  LET n == DeleteString(m, id)
           IN  /\ n \in Maps /\ n.size = m.size /\ n.assets = m.assets
               /\ \A i \in Ids : n.strings[i] \in {m.strings[i], None}
               /\ GameUsed(m, id) => n = m
               /\ ~GameUsed(m, id) =>
                    \A u \in Users : n.refs[u] = IF m.refs[u] = id THEN 0 ELSE m.refs[u]
<1> DEFINE n == DeleteString(m, id)
<1>1. CASE GameUsed(m, id)
  BY <1>1 DEF DeleteString
<1>2. CASE ~GameUsed(m, id)
  <2> DEFINE strings == [i \in Ids |-> IF i = id THEN None ELSE m.strings[i]]
             refs == [u \in Users |-> IF m.refs[u] = id THEN 0 ELSE m.refs[u]]
             slots == [s \in Slots |-> IF m.slots[s] = id THEN 0 ELSE m.slots[s]]
  <2>1. n = [m EXCEPT !.strings = strings, !.refs = refs, !.slots = slots]
    BY <1>2 DEF DeleteString
  <2>2. /\ strings \in [Ids -> Texts \cup {Empty, None}]
        /\ refs \in [Users -> 0..MaxStrings]
        /\ slots \in [Slots -> 0..MaxStrings]
    BY MapParts
  <2>3. /\ \A i \in Ids : strings[i] \in {m.strings[i], None}
        /\ \A u \in Users : refs[u] = IF m.refs[u] = id THEN 0 ELSE m.refs[u]
    OBVIOUS
  <2> HIDE DEF strings, refs, slots, n
  <2>4. n = [strings |-> strings, size |-> m.size, refs |-> refs, slots |-> slots,
             assets |-> m.assets]
    <3> DEFINE m1 == [m EXCEPT !.strings = strings]  m2 == [m1 EXCEPT !.refs = refs]
    <3>1. m = [strings |-> m.strings, size |-> m.size, refs |-> m.refs, slots |-> m.slots,
               assets |-> m.assets]
      BY MapParts
    <3>2. m1 = [strings |-> strings, size |-> m.size, refs |-> m.refs, slots |-> m.slots,
                assets |-> m.assets]
      BY <3>1
    <3>3. n = [m2 EXCEPT !.slots = slots]
      BY <2>1, Zenon
    <3> HIDE DEF m1
    <3>4. m2 = [strings |-> strings, size |-> m.size, refs |-> refs, slots |-> m.slots,
                assets |-> m.assets]
      BY <3>2
    <3> HIDE DEF m2
    <3> QED  BY <3>3, <3>4
  <2>5. n \in Maps
    BY <2>2, <2>4, MapParts DEF Maps
  <2> QED  BY <1>2, <2>3, <2>4, <2>5 DEF n
<1> QED  BY <1>1, <1>2

\* Removing the sound of a slot takes away strings and references only, and
\* a reference to its string survives only together with the string.
LEMMA RemoveSoundFacts ==
    ASSUME NEW m \in Maps, NEW slot \in Slots
    PROVE  LET n == RemoveSound(m, slot)
           IN  /\ n \in Maps /\ n.size = m.size
               /\ \A i \in Ids : n.strings[i] \in {m.strings[i], None}
               /\ OtherUsed(m, m.slots[slot]) /\ m.slots[slot] # 0 =>
                    n.strings = m.strings \/ n.refs # m.refs
<1> DEFINE id == m.slots[slot]
           f == [m EXCEPT !.slots[slot] = 0]
           d == DeleteString(f, id)
           n == RemoveSound(m, slot)
<1>1. f = [strings |-> m.strings, size |-> m.size, refs |-> m.refs,
           slots |-> [m.slots EXCEPT ![slot] = 0], assets |-> m.assets]
  BY MapParts
<1>2. [m.slots EXCEPT ![slot] = 0] \in [Slots -> 0..MaxStrings]
  <2>1. m.slots \in [Slots -> 0..MaxStrings] /\ 0 \in 0..MaxStrings
    BY MapParts
  <2> QED  BY <2>1
<1> HIDE DEF f
<1>3. f \in Maps /\ f.strings = m.strings /\ f.size = m.size /\ f.refs = m.refs
  BY <1>1, <1>2, MapParts DEF Maps
<1> HIDE DEF id
<1>4. /\ d \in Maps /\ d.size = f.size
      /\ \A i \in Ids : d.strings[i] \in {f.strings[i], None}
      /\ GameUsed(f, id) => d = f
      /\ ~GameUsed(f, id) => \A u \in Users : d.refs[u] = IF f.refs[u] = id THEN 0 ELSE f.refs[u]
  BY <1>3, DeleteStringFacts
<1>5. n = RemoveAsset(d, TextAt(m, id))
  BY DEF RemoveSound, f, id
<1> HIDE DEF d, n
<1> DEFINE assets == [p \in Paths |-> IF p = TextAt(m, id) THEN "absent" ELSE d.assets[p]]
<1>6. assets \in [Paths -> {"absent", "ogg", "other"}]
  BY <1>4, MapParts
<1>7. n = [d EXCEPT !.assets = assets]
  BY <1>5 DEF RemoveAsset
<1> HIDE DEF assets
<1>8. n = [strings |-> d.strings, size |-> d.size, refs |-> d.refs, slots |-> d.slots,
           assets |-> assets]
  BY <1>4, <1>7, MapParts
<1>9. n \in Maps
  BY <1>4, <1>6, <1>8, MapParts DEF Maps
<1>10. ASSUME OtherUsed(m, id), id # 0
       PROVE  n.strings = m.strings \/ n.refs # m.refs
  <2>1. CASE GameUsed(f, id)
    BY <1>3, <1>4, <1>8, <2>1
  <2>2. CASE ~GameUsed(f, id)
    <3>1. PICK u \in Users : m.refs[u] = id
      BY <1>10 DEF OtherUsed
    <3>2. n.refs[u] = 0
      BY <1>3, <1>4, <1>8, <2>2, <3>1
    <3> QED  BY <1>10, <3>1, <3>2
  <2> QED  BY <2>1, <2>2
<1> QED  BY <1>3, <1>4, <1>8, <1>9, <1>10 DEF n, id

-----------------------------------------------------------------------------
(* Saving.                                                                 *)

\* Deleting what nobody refers to changes no text that a user or a slot reads.
LEMMA DeleteUnusedFacts ==
    ASSUME NEW m \in Maps
    PROVE  LET n == DeleteUnusedStrings(m)
           IN  /\ n \in Maps /\ (WithinTable(m) => WithinTable(n))
               /\ n.size = m.size /\ n.refs = m.refs /\ n.slots = m.slots
               /\ n.assets = m.assets
               /\ \A i \in Ids : n.strings[i] \in {m.strings[i], None}
               /\ \A i \in Ids : OtherUsed(m, i) => n.strings[i] = m.strings[i]
               /\ \A u \in Users : Reads(n, u) = Reads(m, u)
               /\ \A s \in Slots : TextAt(n, n.slots[s]) = TextAt(m, m.slots[s])
<1> DEFINE strings == [id \in Ids |-> IF id \in UnusedIds(m) THEN None ELSE m.strings[id]]
           n == DeleteUnusedStrings(m)
<1>1. strings \in [Ids -> Texts \cup {Empty, None}]
  BY MapParts
<1>2. n = [m EXCEPT !.strings = strings]
  BY DEF DeleteUnusedStrings
<1>3. /\ \A i \in Ids : strings[i] \in {m.strings[i], None}
      /\ \A i \in Ids : OtherUsed(m, i) \/ SlotsOf(m, i) # {} => strings[i] = m.strings[i]
  BY DEF UnusedIds
<1> HIDE DEF strings, n
<1>4. n = [strings |-> strings, size |-> m.size, refs |-> m.refs, slots |-> m.slots,
           assets |-> m.assets]
  BY <1>2, MapParts
<1>5. n \in Maps
  BY <1>1, <1>4, MapParts DEF Maps
<1>6. \A u \in Users : Reads(n, u) = Reads(m, u)
  BY <1>3, <1>4 DEF Reads, TextAt, OtherUsed
<1>7. \A s \in Slots : TextAt(n, n.slots[s]) = TextAt(m, m.slots[s])
  BY <1>3, <1>4 DEF TextAt, SlotsOf
<1>8. WithinTable(m) => WithinTable(n)
  BY <1>3, <1>4 DEF WithinTable
<1> QED  BY <1>3, <1>4, <1>5, <1>6, <1>7, <1>8 DEF n

\* A map read back is a map whose ids beyond its table store nothing, with
\* the size, references, slots and assets it was saved with; its texts are
\* the ones within the table, a missing one as an empty one.
LEMMA ReloadedFacts ==
    ASSUME NEW m \in Maps
    PROVE  LET n == Reloaded(m)
           IN  /\ n \in Maps /\ WithinTable(n)
               /\ n.size = m.size /\ n.refs = m.refs /\ n.slots = m.slots
               /\ n.assets = m.assets
               /\ \A i \in Ids : i <= m.size => n.strings[i] = Shown(m.strings[i])
               /\ \A i \in Ids : ~(i <= m.size) => n.strings[i] = None
<1> DEFINE strings == [id \in Ids |-> IF id <= m.size THEN Shown(m.strings[id]) ELSE None]
           n == Reloaded(m)
<1>1. strings \in [Ids -> Texts \cup {Empty, None}]
  BY MapParts DEF Shown
<1>2. n = [m EXCEPT !.strings = strings]
  BY DEF Reloaded
<1>3. /\ \A i \in Ids : i <= m.size => strings[i] = Shown(m.strings[i])
      /\ \A i \in Ids : ~(i <= m.size) => strings[i] = None
  OBVIOUS
<1> HIDE DEF strings, n
<1>4. n = [strings |-> strings, size |-> m.size, refs |-> m.refs, slots |-> m.slots,
           assets |-> m.assets]
  BY <1>2, MapParts
<1>5. n \in Maps
  BY <1>1, <1>4, MapParts DEF Maps
<1> QED  BY <1>3, <1>4, <1>5 DEF n, WithinTable
==============================================================================
