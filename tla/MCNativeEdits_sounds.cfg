CONSTANTS
    p1 = p1
    p2 = p2
    name = name
    Texts <- MCTexts
    Paths <- MCPaths
    Empty = Empty
    None = None
    GameUsers = {"trigger", "title"}
    EditorUsers = {"location"}
    Slots <- MCSlots
    MaxStrings = 4
    NameTexts <- MCNameTexts
    Pinned = {}
    InitialMaps <- MCInitialMaps
    Ops = {"add", "replace", "remove", "edit"}
    Absent = Absent
    Damaged = Damaged
SPECIFICATION Spec
INVARIANT TypeOK
INVARIANT PromotedSoundMapIsExact
PROPERTY HandsOverTheEdit
PROPERTY UsedSoundsSurvive
