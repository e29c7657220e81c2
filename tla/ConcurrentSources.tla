-------------------------- MODULE ConcurrentSources --------------------------
(***************************************************************************)
(* The source tools of sessions that edit one project: file_write,         *)
(* file_edit, file_create, file_delete and file_move of                    *)
(* src-tauri/src/tool_exec.rs with the three-way merge of workspace.rs.    *)
(* A turn captures a baseline of the sources; a call merges what its       *)
(* session asks with what the live file has become, or refuses.  A call    *)
(* reads the live file first and changes it later: the project transaction *)
(* keeps other sessions out meanwhile, but not the user's own editor.      *)
(*                                                                         *)
(* A file is a fixed number of lines; a line's texts are its versions, and *)
(* no two lines share a text.  Lines are replaced, not inserted.           *)
(***************************************************************************)
EXTENDS Naturals, Sequences

CONSTANTS
    Sessions,
    Paths,
    LineCount,      \* the lines of every file
    Versions,       \* the texts a line may have
    Missing,        \* no file
    NoCall,         \* no call holds the project transaction
    MaxEvents       \* bound: turns, calls and saves of the user that happen

ASSUME LinesAssumption == LineCount \in Nat
ASSUME BoundAssumption == MaxEvents \in Nat

VARIABLES
    live,           \* the source files
    turn,           \* the sessions in a write turn
    baseline,       \* the sources each session's turn captured
    journal,        \* what each session's request has done
    call,           \* the call inside the project transaction
    seen,           \* ghost: the contents each session's request captured or wrote
    events          \* bound: the turns, calls and saves so far

vars == <<live, turn, baseline, journal, call, seen, events>>

Lines == 1..LineCount
Contents == [Lines -> Versions]
ASSUME MissingAssumption == Missing \notin Contents
Files == [Paths -> Contents \cup {Missing}]
Captured(file) == IF file = Missing THEN {} ELSE {file}

Init ==
    /\ live \in Files
    /\ turn = {}
    /\ baseline = [s \in Sessions |-> [p \in Paths |-> Missing]]
    /\ journal = [s \in Sessions |-> << >>]
    /\ call = NoCall
    /\ seen = [s \in Sessions |-> {}]
    /\ events = 0

\* Something a session or the user does.
Event == events < MaxEvents /\ events' = events + 1

-----------------------------------------------------------------------------
(* The merge.                                                              *)

\* text_edits: the longest runs of lines that were changed.
Edits(base, changed) ==
    {run \in Lines \X Lines :
        /\ run[1] <= run[2]
        /\ \A l \in run[1]..run[2] : changed[l] # base[l]
        /\ \A l \in {run[1] - 1, run[2] + 1} \cap Lines : changed[l] = base[l]}

\* Faulty: off by one at both ends.
OverlapInside(a, b) == a[1] < b[2] /\ b[1] < a[2]

Overlap(a, b) == a[1] <= b[2] /\ b[1] <= a[2]

SameEdit(a, b, ours, current) == a = b /\ \A l \in a[1]..a[2] : ours[l] = current[l]

\* merge_concurrent_text
CanMerge(base, ours, current) ==
    \/ current = base \/ ours = base \/ ours = current
    \/ \A a \in Edits(base, ours), b \in Edits(base, current) :
          Overlap(a, b) => SameEdit(a, b, ours, current)

Merge(base, ours, current) ==
    [l \in Lines |-> IF ours[l] # base[l] THEN ours[l] ELSE current[l]]

\* source_lineage: the request's own entries, latest first, lead from a path
\* back to where its turn captured it, to the last content it wrote there, or
\* to its creation.
Back(entry, line) ==
    IF line.created THEN line
    ELSE CASE entry.tool = "write" /\ entry.path = line.origin /\ line.latest = Missing ->
                [line EXCEPT !.latest = entry.after]
           [] entry.tool = "move" /\ entry.to = line.origin -> [line EXCEPT !.origin = entry.path]
           [] entry.tool = "create" /\ entry.path = line.origin -> [line EXCEPT !.created = TRUE]
           [] OTHER -> line

Walk(entries, line) ==
    LET back[n \in 0..Len(entries)] ==
            IF n = 0 THEN line ELSE Back(entries[Len(entries) + 1 - n], back[n - 1])
    IN  back[Len(entries)]

Lineage(s, p) ==
    LET line == Walk(journal[s], [origin |-> p, latest |-> Missing, created |-> FALSE])
    IN  [latest   |-> line.latest,
         created  |-> line.created,
         baseline |-> IF baseline[s][p] # Missing THEN baseline[s][p]
                      ELSE IF line.created THEN Missing ELSE baseline[s][line.origin]]

\* ensure_source_unchanged
Unchanged(s, p) ==
    LET line == Lineage(s, p)
        expected == IF line.latest # Missing THEN line.latest ELSE line.baseline
    IN  expected = Missing \/ live[p] = expected

-----------------------------------------------------------------------------
(* Calls, up to their first change.                                        *)

Free(s) == s \in turn /\ call = NoCall

\* Outside its turn a session finds no baseline, and its call is refused.  The
\* execution lock keeps a session's calls apart.  "asked" is what the session wants the file to be, "named" the text of a
\* line that it quotes.
Takes(s, tool, p, to, asked, named, content) ==
    /\ call' = [session |-> s, tool |-> tool, path |-> p, to |-> to,
                asked |-> asked, named |-> named, old |-> live[p], new |-> content]
    /\ Event
    /\ UNCHANGED <<live, turn, baseline, journal, seen>>

FileWrite(s, p, code) ==
    LET line == Lineage(s, p) IN
    /\ Free(s) /\ live[p] # Missing
    /\ \/ /\ line.baseline # Missing
          /\ CanMerge(line.baseline, code, live[p])
          /\ Takes(s, "write", p, p, code, {}, Merge(line.baseline, code, live[p]))
       \/ /\ line.baseline = Missing
          /\ line.created \/ live[p] = code
          /\ Takes(s, "write", p, p, code, {}, code)

\* One exact replacement of a line, made on what the request wrote last.
FileEdit(s, p, l, from, to) ==
    LET line == Lineage(s, p)
        base == IF line.latest # Missing THEN line.latest ELSE line.baseline
        Ours(content) == [content EXCEPT ![l] = to]
    IN
    /\ Free(s) /\ live[p] # Missing /\ from # to
    /\ \/ /\ line.baseline # Missing
          /\ base[l] = from
          /\ CanMerge(base, Ours(base), live[p])
          /\ Takes(s, "write", p, p, Ours(base), {<<l, from>>}, Merge(base, Ours(base), live[p]))
       \/ /\ line.baseline = Missing /\ line.created
          /\ live[p][l] = from
          /\ Takes(s, "write", p, p, Ours(live[p]), {<<l, from>>}, Ours(live[p]))

FileCreate(s, p, code) ==
    /\ Free(s) /\ live[p] = Missing
    /\ Takes(s, "create", p, p, code, {}, code)

FileDelete(s, p) ==
    /\ Free(s) /\ live[p] # Missing
    /\ Unchanged(s, p)
    /\ Takes(s, "delete", p, p, Missing, {}, Missing)

\* file_move and file_rename
FileMove(s, p, to) ==
    /\ Free(s) /\ live[p] # Missing /\ p # to
    /\ Unchanged(s, p)
    /\ Takes(s, "move", p, to, Missing, {}, Missing)

-----------------------------------------------------------------------------
(* The change, its journal entry, and the end of the call.                 *)

\* Faulty: every change is journaled as a write.
WriteEntry == [tool |-> "write", path |-> call.path, after |-> call.new]

Entry ==
    IF call.tool = "move" THEN [tool |-> "move", path |-> call.path, to |-> call.to]
    ELSE IF call.tool = "write" THEN [tool |-> "write", path |-> call.path, after |-> call.new]
    ELSE [tool |-> call.tool, path |-> call.path]

\* A write replaces the file whatever it has become; the others need the path
\* as they found it.
Changed ==
    CASE call.tool = "move" -> [live EXCEPT ![call.to] = live[call.path], ![call.path] = Missing]
      [] OTHER -> [live EXCEPT ![call.path] = call.new]

Possible ==
    CASE call.tool = "create" -> live[call.path] = Missing
      [] call.tool = "delete" -> live[call.path] # Missing
      [] call.tool = "move" -> live[call.path] # Missing /\ live[call.to] = Missing
      [] OTHER -> TRUE

Commit ==
    /\ call # NoCall /\ Possible
    /\ live' = Changed
    /\ journal' = [journal EXCEPT ![call.session] = Append(@, Entry)]
    /\ seen' = [seen EXCEPT ![call.session] = @ \cup Captured(call.new)]
    /\ call' = NoCall
    /\ UNCHANGED <<turn, baseline, events>>

Fail ==
    /\ call # NoCall
    /\ call' = NoCall
    /\ UNCHANGED <<live, turn, baseline, journal, seen, events>>

-----------------------------------------------------------------------------
\* A call that outlives its turn holds off the session's next one.
Quiet(s) == call # NoCall => call.session # s

\* A write turn begins: WorkspaceManager::begin_turn captures the sources.  A
\* request may have several turns; its journal and what it saw stay.
BeginTurn(s) ==
    /\ s \notin turn /\ Quiet(s) /\ Event
    /\ turn' = turn \cup {s}
    /\ baseline' = [baseline EXCEPT ![s] = live]
    /\ seen' = [seen EXCEPT ![s] = @ \cup ({live[p] : p \in Paths} \ {Missing})]
    /\ UNCHANGED <<live, journal, call>>

\* The turn's recorder removes the baseline.  A call that has read it may
\* still be running: a cancelled run waits for it for a grace period only.
EndTurn(s) ==
    /\ s \in turn
    /\ turn' = turn \ {s}
    /\ UNCHANGED <<live, baseline, journal, call, seen, events>>

NewRequest(s) ==
    /\ s \notin turn /\ Quiet(s) /\ journal[s] # << >>
    /\ journal' = [journal EXCEPT ![s] = << >>]
    /\ seen' = [seen EXCEPT ![s] = {}]
    /\ UNCHANGED <<live, turn, baseline, call, events>>

\* The user's editor saves, creates or deletes a source.
UserSaves(p, file) ==
    /\ live[p] # file /\ Event
    /\ live' = [live EXCEPT ![p] = file]
    /\ UNCHANGED <<turn, baseline, journal, call, seen>>

Next ==
    \/ \E s \in Sessions :
        \/ \E p \in Paths :
            \/ \E code \in Contents : FileWrite(s, p, code) \/ FileCreate(s, p, code)
            \/ \E l \in Lines, from, to \in Versions : FileEdit(s, p, l, from, to)
            \/ FileDelete(s, p)
            \/ \E to \in Paths : FileMove(s, p, to)
        \/ BeginTurn(s) \/ EndTurn(s) \/ NewRequest(s)
    \/ Commit \/ Fail
    \/ \E p \in Paths, file \in Contents \cup {Missing} : UserSaves(p, file)

Spec == Init /\ [][Next]_vars

-----------------------------------------------------------------------------
\* Every variable keeps its type; in particular what a request writes and what
\* it journals as written are contents, never a missing file.
Entries ==
    [tool : {"write"}, path : Paths, after : Contents]
    \cup [tool : {"move"}, path : Paths, to : Paths]
    \cup [tool : {"create", "delete"}, path : Paths]

Calls ==
    [session : Sessions, tool : {"write", "create", "delete", "move"}, path : Paths, to : Paths,
     asked : Contents \cup {Missing}, named : SUBSET (Lines \X Versions),
     old : Contents \cup {Missing}, new : Contents \cup {Missing}]

TypeOK ==
    /\ live \in Files
    /\ turn \subseteq Sessions
    /\ baseline \in [Sessions -> Files]
    /\ journal \in [Sessions -> Seq(Entries)]
    /\ call \in Calls \cup {NoCall}
    /\ seen \in [Sessions -> SUBSET Contents]
    /\ events \in 0..MaxEvents

\* The text of a line that the call replaces or removes was captured or
\* written by its request, or quoted by the call.
Replaced == {l \in Lines : call.new = Missing \/ call.new[l] # call.old[l]}

OnlySeenText ==
    \A l \in Replaced :
        \/ <<l, call.old[l]>> \in call.named
        \/ \E content \in seen[call.session] : content[l] = call.old[l]

\* Write, edit, delete, move and rename of a file that the session's turn
\* captured, wherever the request has moved it since, never replace, remove or
\* take along a line that someone else changed after the session captured or
\* wrote it, as far as the live file shows it when the call reads it: changes
\* elsewhere merge, and a stale overlapping target is refused.
StaleTargetsAreRefused ==
    call # NoCall /\ call.tool # "create" /\ Lineage(call.session, call.path).baseline # Missing
        => OnlySeenText

\* VIOLATED.  src-tauri/src/tools.rs:1340 describes file_write as "Overwrite a
\* project file."  When the file still is what the request wrote last, a
\* file_write that succeeds makes it what it asked.  The merge takes the
\* request's own earlier write for a concurrent change: text that goes back to
\* the turn's baseline is dropped, and the call reports success.
AcceptedWritesOverwrite ==
    call # NoCall /\ call.tool = "write" /\ call.named = {}
        /\ Lineage(call.session, call.path).latest = call.old
            => call.new = call.asked
==============================================================================
