---------------------------- MODULE CandidateFile ----------------------------
(***************************************************************************)
(* What a native map call promises its caller: it either refuses and hands *)
(* over nothing, or hands over a map that is the input with exactly the    *)
(* requested change.  The caller adopts the map it was handed or drops it. *)
(* Nothing else ever becomes the input of a later call.                    *)
(***************************************************************************)
EXTENDS GameStrings

CONSTANTS
    Absent,         \* no map was handed over
    Requests        \* the requests a caller may make

VARIABLES input,    \* the map the caller works on
          call,     \* the last request
          delivered \* the map handed over for it

vars == <<input, call, delivered>>

\* Everyone outside the set who read a text reads the same one.
OthersKeepText(before, after, users) ==
    \A u \in Users \ users :
        Reads(before, u) # None => Shown(Reads(after, u)) = Shown(Reads(before, u))

\* Every slot outside the set still plays what it played.
OthersKeepSound(before, after, slots) ==
    \A s \in Slots \ slots :
        TextAt(before, before.slots[s]) # None =>
            /\ after.slots[s] = before.slots[s]
            /\ Shown(TextAt(after, after.slots[s])) = Shown(TextAt(before, before.slots[s]))

OthersKeepAsset(before, after, paths) ==
    \A p \in Paths \ paths : after.assets[p] = before.assets[p]

\* Each request, as a relation of the map given and the map handed over.
Added(before, after, paths) ==
    /\ \A p \in paths : Registered(after, p)
    /\ OthersKeepText(before, after, {})
    /\ OthersKeepSound(before, after, {})
    /\ OthersKeepAsset(before, after, paths)

Replaced(before, after, old, new) ==
    /\ Vacant(after, old)
    /\ Registered(after, new)
    /\ FindString(after, new) = FindString(before, old)
    /\ after.slots = before.slots
    /\ OthersKeepText(before, after, {})
    /\ OthersKeepSound(before, after, SlotsOf(before, FindString(before, old)))
    /\ OthersKeepAsset(before, after, {old, new})

Removed(before, after, slots) ==
    /\ \A s \in slots : after.slots[s] = 0
    /\ LET paths == {TextAt(before, before.slots[s]) : s \in slots} IN
       /\ \A p \in paths \cap Paths : after.assets[p] = "absent"
       /\ OthersKeepAsset(before, after, paths)
    /\ OthersKeepText(before, after, {})
    /\ OthersKeepSound(before, after, slots)

Renamed(before, after, names) ==
    /\ \A u \in DOMAIN names : Shown(Reads(after, u)) = Shown(names[u])
    /\ OthersKeepText(before, after, DOMAIN names)
    /\ OthersKeepSound(before, after, {})
    /\ OthersKeepAsset(before, after, {})

Fulfils(request, before, after) ==
    CASE request.op = "add"     -> Added(before, after, request.paths)
      [] request.op = "replace" -> Replaced(before, after, request.old, request.new)
      [] request.op = "remove"  -> Removed(before, after, request.slots)
      [] request.op = "edit"    -> Renamed(before, after, request.names)

Init == input \in Maps /\ call \in Requests /\ delivered = Absent

Request ==
    /\ delivered = Absent
    /\ call' \in Requests
    /\ UNCHANGED <<input, delivered>>

Deliver ==
    /\ delivered = Absent
    /\ delivered' \in Maps
    /\ Fulfils(call, input, delivered')
    /\ UNCHANGED <<input, call>>

Adopt ==
    /\ delivered # Absent
    /\ input' = delivered
    /\ delivered' = Absent
    /\ UNCHANGED call

Drop == delivered' = Absent /\ UNCHANGED <<input, call>>

Next == Request \/ Deliver \/ Adopt \/ Drop

Spec == Init /\ [][Next]_vars
==============================================================================
