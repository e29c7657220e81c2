---------------------------- MODULE CandidateApply ----------------------------
(***************************************************************************)
(* Applying a candidate map to the project's source map, undoing it, and   *)
(* what a startup does with an Apply that a crash interrupted.  An Apply   *)
(* writes a backup and a pending journal, replaces the source, verifies    *)
(* it, saves the session state that names the backup (this commits it),    *)
(* and removes the journal.  A startup reads the journals: one whose       *)
(* backup a session state names is committed and only removed, the others  *)
(* put their backup back when the source still holds what they applied.    *)
(* Meanwhile another program may save the source at any time, between a    *)
(* test of the source and the replacement that relies on it as well.       *)
(*                                                                         *)
(* Every new content of a map is a new number: equal bytes have equal      *)
(* hashes, and two different saves never produce the same bytes.           *)
(***************************************************************************)
EXTENDS Naturals

CONSTANTS
    Maps,           \* source maps, one candidate session each
    NoApply,        \* a session state that names no Apply
    FilesFail,      \* a startup may fail to read, replace or remove a file
    MaxContent      \* bound: contents that are ever written

ASSUME BoundAssumption == MaxContent \in Nat \ {0}
ASSUME FaultAssumption == FilesFail \in BOOLEAN
ASSUME NoApplyAssumption ==
    NoApply \notin [map : Maps, before : 0..MaxContent, backup : 0..MaxContent, content : 0..MaxContent]

VARIABLES
    source,         \* the content of each source map on disk
    fresh,          \* the next content
    base,           \* the content each session takes for its source
    last,           \* the Apply each session state names, to undo it
    journals,       \* the pending journals on disk
    tx,             \* the transaction that runs on each map
    app,            \* "up", or "starting" while the journals are inspected
    todo,           \* journals this startup has not settled yet
    unread,         \* session states this startup cannot read
    since,          \* the first content that is new since the startup began
    applied,        \* contents an Apply has put on disk
    committed,      \* those whose session state was saved
    reported        \* those whose Apply returned success

vars == <<source, fresh, base, last, journals, tx, app, todo, unread, since,
          applied, committed, reported>>
startup == <<app, todo, unread, since>>
ghosts == <<applied, committed, reported>>

Contents == 0..MaxContent
Records == [map : Maps, before : Contents, backup : Contents, content : Contents]
Phases == {"idle", "checked", "journaled", "replaced", "verified", "saved", "rollback",
           "failed", "rolling", "restored", "undoing", "takenBack", "undone",
           "recovering", "recovered"}

\* The record a transaction works on, where it has one.
Running == [phase : Phases, record : Records \cup {NoApply}]
Idle == [phase |-> "idle", record |-> NoApply]

Init ==
    /\ source = [m \in Maps |-> 0]
    /\ fresh = 1
    /\ base = source
    /\ last = [m \in Maps |-> NoApply]
    /\ journals = {} /\ todo = {}
    /\ tx = [m \in Maps |-> Idle]
    /\ app = "up" /\ unread = {} /\ since = 0
    /\ applied = {} /\ committed = {} /\ reported = {}

At(m, phase) == app = "up" /\ tx[m].phase = phase
Goto(m, phase, record) == tx' = [tx EXCEPT ![m] = [phase |-> phase, record |-> record]]
End(m) == tx' = [tx EXCEPT ![m] = Idle]
Write(m, content) == source' = [source EXCEPT ![m] = content]

-----------------------------------------------------------------------------
\* CandidateMapSafe::apply.  The guards and both hashes are read first.
Check(m) ==
    /\ At(m, "idle") /\ fresh < MaxContent
    /\ source[m] = base[m]
    /\ Goto(m, "checked",
            [map |-> m, before |-> source[m], backup |-> source[m], content |-> fresh])
    /\ fresh' = fresh + 1
    /\ UNCHANGED <<source, base, last, journals, startup, ghosts>>

\* Faulty: the journal is not on disk before the source is replaced.
JournalLater(m) ==
    /\ At(m, "checked")
    /\ Goto(m, "journaled", [tx[m].record EXCEPT !.backup = source[m]])
    /\ UNCHANGED <<source, fresh, base, last, journals, startup, ghosts>>

\* The source is read again for the backup; then the journal is written.
Journal(m) ==
    LET record == [tx[m].record EXCEPT !.backup = source[m]] IN
    /\ At(m, "checked")
    /\ journals' = journals \cup {record}
    /\ Goto(m, "journaled", record)
    /\ UNCHANGED <<source, fresh, base, last, startup, ghosts>>

Replace(m) ==
    /\ At(m, "journaled")
    /\ Write(m, tx[m].record.content)
    /\ Goto(m, "replaced", tx[m].record)
    /\ applied' = applied \cup {tx[m].record.content}
    /\ UNCHANGED <<fresh, base, last, journals, startup, committed, reported>>

\* The map is in use: the source stays, and the journal goes if it can.
ReplaceFails(m) ==
    /\ At(m, "journaled")
    /\ journals' \in {journals, journals \ {tx[m].record}}
    /\ End(m)
    /\ UNCHANGED <<source, fresh, base, last, startup, ghosts>>

Verify(m) ==
    /\ At(m, "replaced")
    /\ source[m] = tx[m].record.content
    /\ Goto(m, "verified", tx[m].record)
    /\ UNCHANGED <<source, fresh, base, last, journals, startup, ghosts>>

\* Verification fails.
VerifyFails(m) ==
    /\ At(m, "replaced")
    /\ Goto(m, "failed", tx[m].record)
    /\ UNCHANGED <<source, fresh, base, last, journals, startup, ghosts>>

\* CandidateStore::complete_apply: the state that names the backup is saved.
Commit(m) ==
    /\ At(m, "verified")
    /\ last' = [last EXCEPT ![m] = tx[m].record]
    /\ base' = [base EXCEPT ![m] = source[m]]
    /\ committed' = committed \cup {tx[m].record.content}
    /\ \E phase \in {"saved", "rollback"} : Goto(m, phase, tx[m].record)
    /\ UNCHANGED <<source, fresh, journals, startup, applied, reported>>

CommitFails(m) ==
    /\ At(m, "verified")
    /\ Goto(m, "rollback", tx[m].record)
    /\ UNCHANGED <<source, fresh, base, last, journals, startup, ghosts>>

\* What CandidateMapSafe::undo tests before it puts a backup back.
Undoable(m, record) == source[m] = record.content /\ record.backup = record.before

\* The state could not be saved or shown: undo, whose own guards may refuse.
Rollback(m) ==
    /\ At(m, "rollback")
    /\ Undoable(m, tx[m].record)
    /\ Goto(m, "rolling", tx[m].record)
    /\ UNCHANGED <<source, fresh, base, last, journals, startup, ghosts>>

\* Undo of the Apply that the session state names now.
Undo(m) ==
    /\ At(m, "idle") /\ last[m] # NoApply
    /\ Undoable(m, last[m])
    /\ Goto(m, "undoing", last[m])
    /\ UNCHANGED <<source, fresh, base, last, journals, startup, ghosts>>

\* A guard refuses, the backup cannot be read, or the source not be replaced.
GivesUp(m) ==
    /\ \E phase \in {"failed", "rollback", "rolling", "undoing"} : At(m, phase)
    /\ End(m)
    /\ UNCHANGED <<source, fresh, base, last, journals, startup, ghosts>>

\* The backup replaces the source, whatever another program has saved there
\* since the source was tested.
AfterPutBack == [failed |-> "restored", rolling |-> "restored",
                 undoing |-> "takenBack", recovering |-> "recovered"]

PutBack(m) ==
    /\ tx[m].phase \in DOMAIN AfterPutBack
    /\ Write(m, tx[m].record.backup)
    /\ Goto(m, AfterPutBack[tx[m].phase], tx[m].record)
    /\ UNCHANGED <<fresh, base, last, journals, startup, ghosts>>

\* The source is hashed again: exact bytes, or the journal stays.
IsBack(m) == source[m] = tx[m].record.before

\* The failed Apply reports its error, whether its journal could be removed or not.
Restored(m) ==
    /\ At(m, "restored")
    /\ \/ IsBack(m) /\ journals' = journals \ {tx[m].record}
       \/ UNCHANGED journals
    /\ End(m)
    /\ UNCHANGED <<source, fresh, base, last, startup, ghosts>>

\* The user's undo goes on only when the journal is gone.
TakenBack(m) ==
    /\ At(m, "takenBack")
    /\ \/ /\ IsBack(m)
          /\ journals' = journals \ {tx[m].record}
          /\ Goto(m, "undone", tx[m].record)
       \/ End(m) /\ UNCHANGED journals
    /\ UNCHANGED <<source, fresh, base, last, startup, ghosts>>

\* complete_pending; the Apply reports success only when the journal is gone.
Finish(m) ==
    /\ At(m, "saved")
    /\ \/ /\ journals' = journals \ {tx[m].record}
          /\ reported' = reported \cup {tx[m].record.content}
       \/ UNCHANGED <<journals, reported>>
    /\ End(m)
    /\ UNCHANGED <<source, fresh, base, last, startup, applied, committed>>

\* complete_undo: the session state forgets the Apply.
ForgetUndone(m) ==
    /\ At(m, "undone")
    /\ \/ /\ base' = [base EXCEPT ![m] = source[m]]
          /\ last' = [last EXCEPT ![m] = NoApply]
       \/ UNCHANGED <<base, last>>
    /\ End(m)
    /\ UNCHANGED <<source, fresh, journals, startup, ghosts>>

\* CandidateStore::follow_source, which no transaction holds off: the source
\* becomes the base, and an Apply it replaced can no longer be undone.
Follow(m) ==
    /\ app = "up" /\ source[m] # base[m]
    /\ base' = [base EXCEPT ![m] = source[m]]
    /\ last' = [last EXCEPT ![m] = NoApply]
    /\ UNCHANGED <<source, fresh, journals, tx, startup, ghosts>>

\* Another program saves the map.
Edit(m) ==
    /\ fresh < MaxContent
    /\ Write(m, fresh)
    /\ fresh' = fresh + 1
    /\ UNCHANGED <<base, last, journals, tx, startup, ghosts>>

-----------------------------------------------------------------------------
\* The program dies and starts again.  Which session states cannot be read
\* matters only for those that name a pending journal.
Crash ==
    /\ app' = "starting"
    /\ todo' = journals
    /\ tx' = [m \in Maps |-> Idle]
    /\ unread' \in SUBSET {m \in Maps : FilesFail /\ last[m] \in journals}
    /\ since' = fresh
    /\ UNCHANGED <<source, fresh, base, last, journals, ghosts>>

\* Faulty: session states are not asked.
CommittedNever(journal) == FALSE

\* candidate_state_committed: some session state names the journal's backup.
\* One that cannot be read or parsed is passed over.
Committed(journal) == \E m \in Maps \ unread : last[m] = journal

\* recover_pending_candidate_applies takes the journals one after the other.
Inspects(journal) ==
    /\ app = "starting" /\ journal \in todo
    /\ \A m \in Maps : tx[m] = Idle

\* Faulty: a journal that is removed stays to be inspected.
ClearAgain(journal) ==
    /\ Inspects(journal)
    /\ Committed(journal) \/ source[journal.map] = journal.before
    /\ journals' = journals \ {journal}
    /\ UNCHANGED <<source, fresh, base, last, tx, startup, ghosts>>

\* A journal is removed when it is committed or the source never changed.
Clear(journal) ==
    /\ Inspects(journal)
    /\ Committed(journal) \/ source[journal.map] = journal.before
    /\ journals' = journals \ {journal}
    /\ todo' = todo \ {journal}
    /\ UNCHANGED <<source, fresh, base, last, tx, app, unread, since, ghosts>>

\* Any other is taken back, when the source holds what it applied.
Recover(journal) ==
    /\ Inspects(journal) /\ ~Committed(journal)
    /\ Undoable(journal.map, journal)
    /\ Goto(journal.map, "recovering", journal)
    /\ UNCHANGED <<source, fresh, base, last, journals, startup, ghosts>>

Recovered(m) ==
    /\ tx[m].phase = "recovered" /\ IsBack(m)
    /\ journals' = journals \ {tx[m].record}
    /\ todo' = todo \ {tx[m].record}
    /\ End(m)
    /\ UNCHANGED <<source, fresh, base, last, app, unread, since, ghosts>>

\* The source or the backup is not what the journal says.
Stuck(journal) ==
    /\ ~Committed(journal)
    /\ \/ source[journal.map] \notin {journal.before, journal.content}
       \/ source[journal.map] = journal.content /\ journal.backup # journal.before

\* The first journal that cannot be settled, or source that cannot be read
\* back, ends the inspection.
Blocked ==
    /\ app = "starting" /\ todo # {}
    /\ \/ FilesFail
       \/ \E journal \in todo : Inspects(journal) /\ Stuck(journal)
       \/ \E m \in Maps : tx[m].phase = "recovered" /\ ~IsBack(m)
    /\ app' = "up" /\ todo' = {} /\ unread' = {} /\ since' = 0
    /\ tx' = [m \in Maps |-> Idle]
    /\ UNCHANGED <<source, fresh, base, last, journals, ghosts>>

Ready ==
    /\ app = "starting" /\ todo = {}
    /\ app' = "up" /\ unread' = {} /\ since' = 0
    /\ UNCHANGED <<source, fresh, base, last, journals, tx, todo, ghosts>>

Next ==
    \/ \E m \in Maps :
        \/ Check(m) \/ Journal(m) \/ Replace(m) \/ ReplaceFails(m)
        \/ Verify(m) \/ VerifyFails(m) \/ Commit(m) \/ CommitFails(m)
        \/ Rollback(m) \/ Undo(m) \/ GivesUp(m) \/ PutBack(m)
        \/ Restored(m) \/ TakenBack(m) \/ Finish(m) \/ ForgetUndone(m)
        \/ Follow(m) \/ Edit(m) \/ Recovered(m)
    \/ Crash \/ Blocked \/ Ready
    \/ \E journal \in todo : Clear(journal) \/ Recover(journal)

Spec == Init /\ [][Next]_vars

-----------------------------------------------------------------------------
\* Every variable keeps its type.  A journal and a session's last Apply are
\* about the map they are kept for.
TypeOK ==
    /\ source \in [Maps -> Contents]
    /\ fresh \in 0..MaxContent
    /\ base \in [Maps -> Contents]
    /\ last \in [Maps -> Records \cup {NoApply}]
    /\ journals \subseteq Records
    /\ tx \in [Maps -> Running]
    /\ app \in {"up", "starting"}
    /\ todo \subseteq journals
    /\ unread \subseteq Maps /\ since \in 0..MaxContent
    /\ applied \subseteq Contents /\ committed \subseteq Contents /\ reported \subseteq Contents
    /\ \A m \in Maps :
        /\ last[m] # NoApply => last[m].map = m
        /\ tx[m].phase # "idle" => tx[m].record \in Records /\ tx[m].record.map = m

\* While a source map holds bytes of an Apply that no saved session state ever
\* named, a pending journal on disk says so: whatever fails, and wherever the
\* program dies, the next startup can find the Apply and take it back.
InterruptedIsJournaled ==
    \A m \in Maps :
        source[m] \in applied \ committed =>
            \E journal \in journals : journal.map = m /\ journal.content = source[m]

\* A startup changes a source map only to take back, byte for byte, an Apply
\* that never reported success, or leaves the change to another program.  A
\* session state that names the Apply (the doc's "recognizes a candidate state
\* that was committed") is one this startup cannot read.  What is lost is what
\* the Apply put there, or a save another program made while the startup ran.
TakesBack(m) ==
    \E journal \in journals :
        /\ journal.map = m /\ journal.before = source'[m]
        /\ source[m] = journal.content \/ source[m] >= since
        /\ journal.content \notin reported
        /\ \A n \in Maps : last[n] = journal => n \in unread

StartupTakesBackOnlyUnreported ==
    [][app = "starting" =>
        \A m \in Maps : source'[m] # source[m] => source'[m] = fresh \/ TakesBack(m)]_vars

\* VIOLATED.  hivemind/docs/features/13_isom-ffi.md:106 says that a startup
\* restores an interrupted, uncommitted replacement.  A startup that ends has
\* restored every one it could.  The inspection stops at the first journal
\* whose source another program has changed, in a directory that every project
\* shares, and the journals after it are left as they are at every startup.
Restorable(journal) ==
    /\ source[journal.map] = journal.content
    /\ ~Committed(journal) /\ ~Stuck(journal)

EveryInterruptedApplyIsRestored ==
    [][app = "starting" /\ app' = "up" => ~\E journal \in journals : Restorable(journal)]_vars
==============================================================================
