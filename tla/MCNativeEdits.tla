---------------------------- MODULE MCNativeEdits ----------------------------
(***************************************************************************)
(* NativeEdits on small maps: a table of four ids, two WAV slots, two      *)
(* sound paths and one other text, a trigger, the scenario title and a     *)
(* location.                                                               *)
(***************************************************************************)
EXTENDS NativeEdits

CONSTANTS p1, p2, name

MCPaths == {p1, p2}
MCTexts == {p1, p2, name}
MCNameTexts == {name, Empty}
MCSlots == 1..2

\* The maps the runs start from: a table of two strings, of which the first
\* may be a sound's path, a name or missing, with every choice of references
\* (3 lies beyond the table) and with or without the sound's slot and asset.
MCInitialMaps ==
    {m \in [strings : {[id \in Ids |-> IF id = 1 THEN s ELSE IF id = 2 THEN t ELSE None] :
                            s \in {p1, name, None}, t \in {name, Empty}},
            size    : {2},
            refs    : [Users -> 0..3],
            slots   : {[s \in MCSlots |-> IF s = 1 THEN i ELSE j] : i \in 0..1, j \in {0, 2}},
            assets  : {[p \in MCPaths |-> IF p \in ps THEN "ogg" ELSE "absent"] :
                            ps \in SUBSET {p1}}] :
        \A u \in GameUsers : m.refs[u] # 3}
==============================================================================
