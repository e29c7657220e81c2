------------------------- MODULE CandidateApplyProofs -------------------------
(***************************************************************************)
(* Proofs about CandidateApply: types, that an interrupted Apply always    *)
(* has its journal, and that a startup takes back only what never reported *)
(* success.                                                                *)
(***************************************************************************)
EXTENDS CandidateApply, TLAPS

\* Contents are numbered in the order they are written.
Younger(r) == r.before < r.content /\ r.content < fresh /\ r.backup < fresh

Bounds ==
    /\ \A m \in Maps : source[m] < fresh
    /\ \A v \in applied : v < fresh
    /\ since <= fresh
    /\ committed \subseteq applied /\ reported \subseteq committed
    /\ \A j \in journals : Younger(j)
    /\ \A m \in Maps : last[m] # NoApply => Younger(last[m]) /\ last[m].content \in committed
    /\ \A m \in Maps : tx[m].phase # "idle" => Younger(tx[m].record)

\* Before the replacement, after the journal was written, and after both.
Before(m) == tx[m].phase \in {"checked", "journaled"}
After(m) == tx[m].phase \in {"replaced", "verified", "saved", "rollback", "failed", "rolling", "restored"}
Journaled(m) == After(m) \/ tx[m].phase = "journaled"

\* A startup takes a journal back; a backup is about to be put back.
Startup(m) == tx[m].phase \in {"recovering", "recovered"}
Holding(m) == tx[m].phase \in {"journaled", "replaced", "failed", "rolling", "undoing", "recovering"}

\* A content is applied by one transaction, which has one journal.
Unique ==
    /\ \A i, j \in journals : i.content = j.content => i = j
    /\ \A m \in Maps : tx[m].phase = "checked" => \A j \in journals : j.content # tx[m].record.content
    /\ \A m, n \in Maps :
        m # n /\ Before(m) /\ Before(n) => tx[m].record.content # tx[n].record.content

Steps ==
    /\ app = "starting" => \A m \in Maps : tx[m] = Idle \/ (Startup(m) /\ tx[m].record \in todo)
    /\ app = "up" => todo = {} /\ \A m \in Maps : ~Startup(m)
    /\ \A m \in Maps :
        /\ Journaled(m) => tx[m].record \in journals
        /\ Before(m) => tx[m].record.content \notin applied
        /\ After(m) => tx[m].record.content \in applied
        /\ tx[m].phase = "saved" => tx[m].record.content \in committed
    /\ \A j \in journals : j.content \notin reported

\* What a startup tested before it puts a backup back still holds, but for
\* the source, which another program may have saved since.
Tested ==
    \A m \in Maps : tx[m].phase = "recovering" =>
        /\ tx[m].record.backup = tx[m].record.before
        /\ source[m] = tx[m].record.content \/ source[m] >= since
        /\ \A n \in Maps : last[n] = tx[m].record => n \in unread

\* The contents that the source of a map may come to hold by taking Applies
\* back: L holds the source and is closed under the backups that records lead
\* to; each uncommitted content in it has its journal.
LeadsBack(r, L) == r.content \in L /\ r.backup = r.before => r.backup \in L

Safe(m, L) ==
    /\ source[m] \in L
    /\ \A v \in L : v < fresh
    /\ \A j \in journals : j.map = m => LeadsBack(j, L)
    /\ last[m] # NoApply => LeadsBack(last[m], L)
    /\ \A n \in Maps : Before(n) => tx[n].record.content \notin L
    /\ Holding(m) => tx[m].record.backup \in L
    /\ \A v \in L : v \in applied \ committed => \E j \in journals : j.map = m /\ j.content = v

Covered == \A m \in Maps : \E L \in SUBSET Contents : Safe(m, L)

IInv == TypeOK /\ Bounds /\ Unique /\ Steps /\ Tested /\ Covered

USE BoundAssumption, NoApplyAssumption

\* The steps about one map.
MapStep(m) ==
    \/ Check(m) \/ Journal(m) \/ Replace(m) \/ ReplaceFails(m)
    \/ Verify(m) \/ VerifyFails(m) \/ Commit(m) \/ CommitFails(m)
    \/ Rollback(m) \/ Undo(m) \/ GivesUp(m) \/ PutBack(m)
    \/ Restored(m) \/ TakenBack(m) \/ Finish(m) \/ ForgetUndone(m)
    \/ Follow(m) \/ Edit(m) \/ Recovered(m)

-----------------------------------------------------------------------------
(* Types.                                                                  *)

LEMMA InitTypes == Init => TypeOK
BY DEF Init, TypeOK, Contents, Records, Running, Phases, Idle

LEMMA NextTypes ==
    ASSUME TypeOK, Steps, [Next]_vars
    PROVE  TypeOK'
<1> USE DEF TypeOK, Contents, Records, Running, Phases
<1> app = "up" => todo = {}
  BY DEF Steps
<1>1. CASE UNCHANGED vars
  BY <1>1 DEF vars, At, Goto, End, Write, Idle, ghosts, startup
<1>2. CASE \E m \in Maps : MapStep(m)
  <2> PICK m \in Maps : MapStep(m)
    BY <1>2
  <2>1. CASE Check(m)
    BY <2>1 DEF Check, At, Goto, End, Write, Idle, ghosts, startup
  <2>2. CASE Journal(m)
    BY <2>2 DEF Journal, At, Goto, End, Write, Idle, ghosts, startup
  <2>3. CASE Replace(m)
    BY <2>3, ZenonT(40) DEF Replace, At, Goto, End, Write, Idle, ghosts, startup
  <2>4. CASE ReplaceFails(m)
    BY <2>4 DEF ReplaceFails, At, Goto, End, Write, Idle, ghosts, startup
  <2>5. CASE Verify(m)
    BY <2>5 DEF Verify, At, Goto, End, Write, Idle, ghosts, startup
  <2>6. CASE VerifyFails(m)
    BY <2>6 DEF VerifyFails, At, Goto, End, Write, Idle, ghosts, startup
  <2>7. CASE Commit(m)
    <3>1. tx[m].record \in Records /\ tx[m].record.map = m /\ tx[m].record.content \in Contents
      BY <2>7 DEF Commit, At
    <3>2. PICK phase \in {"saved", "rollback"} : Goto(m, phase, tx[m].record)
      BY <2>7 DEF Commit
    <3>3. tx' \in [Maps -> Running] /\ (\A n \in Maps : tx'[n].phase # "idle" =>
                tx'[n].record \in Records /\ tx'[n].record.map = n)
      BY <3>1, <3>2 DEF Goto
    <3>4. /\ last' \in [Maps -> Records \cup {NoApply}]
          /\ (\A n \in Maps : last'[n] # NoApply => last'[n].map = n)
      BY <3>1, <2>7 DEF Commit
    <3>5. base' \in [Maps -> Contents] /\ committed' \subseteq Contents
      BY <3>1, <2>7 DEF Commit
    <3> QED  BY <3>3, <3>4, <3>5, <2>7 DEF Commit, startup
  <2>8. CASE CommitFails(m)
    BY <2>8 DEF CommitFails, At, Goto, End, Write, Idle, ghosts, startup
  <2>9. CASE Rollback(m)
    BY <2>9 DEF Rollback, At, Goto, End, Write, Idle, ghosts, startup
  <2>10. CASE Undo(m)
    BY <2>10 DEF Undo, At, Goto, End, Write, Idle, ghosts, startup
  <2>11. CASE GivesUp(m)
    BY <2>11 DEF GivesUp, At, Goto, End, Write, Idle, ghosts, startup
  <2>12. CASE PutBack(m)
    <3>1. tx[m].phase # "idle"
      BY <2>12 DEF PutBack, AfterPutBack
    <3>2. tx[m].record \in Records /\ tx[m].record.map = m /\ tx[m].record.backup \in Contents
      BY <3>1
    <3>3. AfterPutBack[tx[m].phase] \in Phases
      BY <2>12 DEF PutBack, AfterPutBack
    <3>4. source' \in [Maps -> Contents]
      BY <2>12, <3>2 DEF PutBack, Write
    <3>5. tx' \in [Maps -> Running] /\ (\A n \in Maps : tx'[n].phase # "idle" =>
                tx'[n].record \in Records /\ tx'[n].record.map = n)
      BY <2>12, <3>2, <3>3 DEF PutBack, Goto
    <3> QED  BY <2>12, <3>4, <3>5 DEF PutBack, ghosts, startup
  <2>13. CASE Restored(m)
    BY <2>13 DEF Restored, At, Goto, End, Write, Idle, ghosts, startup
  <2>14. CASE TakenBack(m)
    BY <2>14 DEF TakenBack, At, Goto, End, Write, Idle, ghosts, startup
  <2>15. CASE Finish(m)
    BY <2>15, ZenonT(40) DEF Finish, At, Goto, End, Write, Idle, ghosts, startup
  <2>16. CASE ForgetUndone(m)
    BY <2>16 DEF ForgetUndone, At, Goto, End, Write, Idle, ghosts, startup
  <2>17. CASE Follow(m)
    BY <2>17 DEF Follow, At, Goto, End, Write, Idle, ghosts, startup
  <2>18. CASE Edit(m)
    BY <2>18 DEF Edit, At, Goto, End, Write, Idle, ghosts, startup
  <2>19. CASE Recovered(m)
    BY <2>19 DEF Recovered, At, Goto, End, Write, Idle, ghosts, startup
  <2> QED  BY <2>1, <2>2, <2>3, <2>4, <2>5, <2>6, <2>7, <2>8, <2>9, <2>10, <2>11, <2>12, <2>13,
              <2>14, <2>15, <2>16, <2>17, <2>18, <2>19 DEF MapStep
<1>3. CASE Crash
  BY <1>3 DEF Crash, At, Goto, End, Write, Idle, ghosts, startup
<1>4. CASE Ready
  BY <1>4 DEF Ready, At, Goto, End, Write, Idle, ghosts, startup
<1>5. CASE \E journal \in todo : Clear(journal)
  BY <1>5 DEF Clear, At, Goto, End, Write, Idle, ghosts, startup
<1>6. CASE \E journal \in todo : Recover(journal)
  BY <1>6 DEF Recover, At, Goto, End, Write, Idle, ghosts, startup
<1>7. CASE Blocked
  BY <1>7 DEF Blocked, At, Goto, End, Write, Idle, ghosts, startup
<1> QED  BY <1>1, <1>2, <1>3, <1>4, <1>5, <1>6, <1>7 DEF Next, MapStep

-----------------------------------------------------------------------------
(* The parts of the invariant.                                             *)

LEMMA NextBounds ==
    ASSUME TypeOK, Steps, Bounds, [Next]_vars
    PROVE  Bounds'
<1> USE DEF TypeOK, Bounds, Contents, Records, Running
<1>1. CASE UNCHANGED vars
  BY <1>1 DEF vars, Younger
<1>2. CASE \E m \in Maps : MapStep(m)
  <2> PICK m \in Maps : MapStep(m)
    BY <1>2
  <2>1. CASE Check(m)
    BY <2>1 DEF Check, At, Goto, ghosts, startup, Younger
  <2>2. CASE Journal(m)
    BY <2>2 DEF Journal, At, Goto, ghosts, startup, Younger
  <2>3. CASE Replace(m)
    BY <2>3 DEF Replace, At, Goto, Write, startup, Younger
  <2>4. CASE ReplaceFails(m)
    BY <2>4 DEF ReplaceFails, At, End, Idle, ghosts, startup, Younger
  <2>5. CASE Verify(m)
    BY <2>5 DEF Verify, At, Goto, ghosts, startup, Younger
  <2>6. CASE VerifyFails(m)
    BY <2>6 DEF VerifyFails, At, Goto, ghosts, startup, Younger
  <2>7. CASE Commit(m)
    <3>1. tx[m].record.content \in applied /\ Younger(tx[m].record)
      BY <2>7 DEF Commit, At, Steps, After
    <3>2. \A n \in Maps : tx'[n].phase # "idle" => tx[n].phase # "idle" /\ tx'[n].record = tx[n].record
      BY <2>7 DEF Commit, At, Goto
    <3>3. \A n \in Maps : last'[n] = IF n = m THEN tx[m].record ELSE last[n]
      BY <2>7 DEF Commit
    <3>4. UNCHANGED <<source, fresh, since, journals, applied, reported>>
          /\ committed' = committed \cup {tx[m].record.content}
      BY <2>7 DEF Commit, startup
    <3> QED  BY <3>1, <3>2, <3>3, <3>4 DEF Younger
  <2>8. CASE CommitFails(m)
    BY <2>8 DEF CommitFails, At, Goto, ghosts, startup, Younger
  <2>9. CASE Rollback(m)
    BY <2>9 DEF Rollback, At, Goto, ghosts, startup, Undoable, Younger
  <2>10. CASE Undo(m)
    BY <2>10 DEF Undo, At, Goto, ghosts, startup, Undoable, Younger
  <2>11. CASE GivesUp(m)
    BY <2>11 DEF GivesUp, At, End, Idle, ghosts, startup, Younger
  <2>12. CASE PutBack(m)
    BY <2>12 DEF PutBack, Goto, Write, ghosts, startup, AfterPutBack, Younger
  <2>13. CASE Restored(m)
    BY <2>13 DEF Restored, At, End, Idle, ghosts, startup, IsBack, Younger
  <2>14. CASE TakenBack(m)
    <3>1. \A n \in Maps : tx'[n].phase # "idle" => tx[n].phase # "idle" /\ tx'[n].record = tx[n].record
      BY <2>14 DEF TakenBack, At, Goto, End, Idle
    <3>2. journals' \subseteq journals
      BY <2>14 DEF TakenBack
    <3> QED  BY <3>1, <3>2, <2>14 DEF TakenBack, ghosts, startup, Younger
  <2>15. CASE Finish(m)
    <3>1. tx[m].record.content \in committed
      BY <2>15 DEF Finish, At, Steps
    <3>2. reported' \subseteq committed /\ UNCHANGED <<source, fresh, since, last, applied, committed>>
      BY <3>1, <2>15 DEF Finish, startup
    <3>3. journals' \subseteq journals
      BY <2>15 DEF Finish
    <3>4. \A n \in Maps : tx'[n] = tx[n] \/ tx'[n].phase = "idle"
      BY <2>15 DEF Finish, End, Idle
    <3> QED  BY <3>2, <3>3, <3>4 DEF Younger
  <2>16. CASE ForgetUndone(m)
    BY <2>16 DEF ForgetUndone, At, End, Idle, ghosts, startup, Younger
  <2>17. CASE Follow(m)
    BY <2>17 DEF Follow, ghosts, startup, Younger
  <2>18. CASE Edit(m)
    BY <2>18 DEF Edit, Write, ghosts, startup, Younger
  <2>19. CASE Recovered(m)
    BY <2>19 DEF Recovered, End, Idle, ghosts, IsBack, Younger
  <2> QED  BY <2>1, <2>2, <2>3, <2>4, <2>5, <2>6, <2>7, <2>8, <2>9, <2>10, <2>11, <2>12, <2>13,
              <2>14, <2>15, <2>16, <2>17, <2>18, <2>19 DEF MapStep
<1>3. CASE Crash
  BY <1>3 DEF Crash, Idle, ghosts, Younger
<1>4. CASE Ready
  BY <1>4 DEF Ready, ghosts, Younger
<1>5. CASE \E journal \in todo : Clear(journal)
  BY <1>5 DEF Clear, ghosts, Younger
<1>6. CASE \E journal \in todo : Recover(journal)
  BY <1>6 DEF Recover, Goto, ghosts, startup, Undoable, Younger
<1>7. CASE Blocked
  BY <1>7 DEF Blocked, Idle, ghosts, IsBack, Younger
<1> QED  BY <1>1, <1>2, <1>3, <1>4, <1>5, <1>6, <1>7 DEF Next, MapStep

LEMMA NextUnique ==
    ASSUME TypeOK, Steps, Bounds, Unique, [Next]_vars
    PROVE  Unique'
<1> USE DEF TypeOK, Unique, Contents, Records, Running
<1>1. CASE UNCHANGED vars
  BY <1>1 DEF vars, Before
<1>2. CASE \E m \in Maps : MapStep(m)
  <2> PICK m \in Maps : MapStep(m)
    BY <1>2
  <2>1. CASE Check(m)
    <3>1. \A j \in journals : j.content # fresh
      BY DEF Bounds, Younger
    <3>2. \A n \in Maps : Before(n) => tx[n].record.content # fresh
      BY DEF Bounds, Younger, Before
    <3>3. \A n \in Maps \ {m} : tx'[n] = tx[n]
      BY <2>1 DEF Check, Goto
    <3>4. tx'[m].record.content = fresh /\ journals' = journals
      BY <2>1 DEF Check, Goto
    <3>5. \A n \in Maps \ {m} : Before(n)' => Before(n) /\ tx'[n].record = tx[n].record
      BY <3>3 DEF Before
    <3>6. \A n \in Maps : tx'[n].phase = "checked" => \A j \in journals' : j.content # tx'[n].record.content
      BY <3>1, <3>3, <3>4
    <3>7. \A n \in Maps \ {m} : Before(n)' => tx'[n].record.content # tx'[m].record.content
      BY <3>2, <3>4, <3>5
    <3>8. ASSUME NEW k \in Maps, NEW n \in Maps, k # n, Before(k)', Before(n)'
          PROVE  tx'[k].record.content # tx'[n].record.content
      BY <3>5, <3>7, <3>8
    <3> QED  BY <3>4, <3>6, <3>8
  <2>2. CASE Journal(m)
    BY <2>2 DEF Journal, At, Goto, ghosts, startup, Before
  <2>3. CASE Replace(m)
    BY <2>3 DEF Replace, At, Goto, Write, startup, Before
  <2>4. CASE ReplaceFails(m)
    BY <2>4 DEF ReplaceFails, At, End, Idle, ghosts, startup, Before
  <2>5. CASE Verify(m)
    BY <2>5 DEF Verify, At, Goto, ghosts, startup, Before
  <2>6. CASE VerifyFails(m)
    BY <2>6 DEF VerifyFails, At, Goto, ghosts, startup, Before
  <2>7. CASE Commit(m)
    BY <2>7 DEF Commit, At, Goto, startup, Before
  <2>8. CASE CommitFails(m)
    BY <2>8 DEF CommitFails, At, Goto, ghosts, startup, Before
  <2>9. CASE Rollback(m)
    BY <2>9 DEF Rollback, At, Goto, ghosts, startup, Undoable, Before
  <2>10. CASE Undo(m)
    BY <2>10 DEF Undo, At, Goto, ghosts, startup, Undoable, Before
  <2>11. CASE GivesUp(m)
    BY <2>11 DEF GivesUp, At, End, Idle, ghosts, startup, Before
  <2>12. CASE PutBack(m)
    BY <2>12 DEF PutBack, Goto, Write, ghosts, startup, AfterPutBack, Before
  <2>13. CASE Restored(m)
    BY <2>13 DEF Restored, At, End, Idle, ghosts, startup, IsBack, Before
  <2>14. CASE TakenBack(m)
    BY <2>14 DEF TakenBack, At, Goto, End, Idle, ghosts, startup, IsBack, Before
  <2>15. CASE Finish(m)
    BY <2>15 DEF Finish, At, End, Idle, startup, Before
  <2>16. CASE ForgetUndone(m)
    BY <2>16 DEF ForgetUndone, At, End, Idle, ghosts, startup, Before
  <2>17. CASE Follow(m)
    BY <2>17 DEF Follow, ghosts, startup, Before
  <2>18. CASE Edit(m)
    BY <2>18 DEF Edit, Write, ghosts, startup, Before
  <2>19. CASE Recovered(m)
    BY <2>19 DEF Recovered, End, Idle, ghosts, IsBack, Before
  <2> QED  BY <2>1, <2>2, <2>3, <2>4, <2>5, <2>6, <2>7, <2>8, <2>9, <2>10, <2>11, <2>12, <2>13,
              <2>14, <2>15, <2>16, <2>17, <2>18, <2>19 DEF MapStep
<1>3. CASE Crash
  BY <1>3 DEF Crash, Idle, ghosts, Before
<1>4. CASE Ready
  BY <1>4 DEF Ready, ghosts, Before
<1>5. CASE \E journal \in todo : Clear(journal)
  BY <1>5 DEF Clear, ghosts, Before
<1>6. CASE \E journal \in todo : Recover(journal)
  BY <1>6 DEF Recover, Goto, ghosts, startup, Undoable, Before
<1>7. CASE Blocked
  BY <1>7 DEF Blocked, Idle, ghosts, IsBack, Before
<1> QED  BY <1>1, <1>2, <1>3, <1>4, <1>5, <1>6, <1>7 DEF Next, MapStep

LEMMA NextSteps ==
    ASSUME TypeOK, Steps, Bounds, Unique, [Next]_vars
    PROVE  Steps'
<1> USE DEF TypeOK, Steps, Contents, Records, Running
<1>1. CASE UNCHANGED vars
  BY <1>1 DEF vars,
          Before, After, Journaled, Startup
<1>2. CASE \E m \in Maps : MapStep(m)
  <2> PICK m \in Maps : MapStep(m)
    BY <1>2
  <2>1. CASE Check(m)
    <3>1. fresh \notin applied
      BY DEF Bounds
    <3>2. \A n \in Maps \ {m} : tx'[n] = tx[n]
      BY <2>1 DEF Check, Goto
    <3>3. tx'[m].record.content = fresh /\ tx'[m].phase = "checked"
      BY <2>1 DEF Check, Goto
    <3>4. app = "up" /\ UNCHANGED <<journals, app, todo, applied, committed, reported>>
      BY <2>1 DEF Check, At, ghosts, startup
    <3> QED  BY <3>1, <3>2, <3>3, <3>4 DEF Before, After, Journaled, Startup
  <2>2. CASE Journal(m)
    <3> DEFINE record == [tx[m].record EXCEPT !.backup = source[m]]
    <3>1. tx[m].record \in Records
      BY <2>2 DEF Journal, At
    <3>2. record.content = tx[m].record.content /\ record.content \notin applied
      BY <3>1, <2>2 DEF Journal, At, Before
    <3>3. record.content \notin reported
      BY <3>2 DEF Bounds
    <3>4. journals' = journals \cup {record} /\ Goto(m, "journaled", record)
      BY <2>2 DEF Journal
    <3>5. app = "up" /\ UNCHANGED <<app, todo, applied, committed, reported>>
      BY <2>2 DEF Journal, At, ghosts, startup
    <3> HIDE DEF record
    <3>6. tx' = [tx EXCEPT ![m] = [phase |-> "journaled", record |-> record]]
      BY <3>4 DEF Goto
    <3> QED  BY <3>2, <3>3, <3>4, <3>5, <3>6 DEF Before, After, Journaled, Startup
  <2>3. CASE Replace(m)
    <3>1. \A n \in Maps \ {m} : Before(n) => tx[n].record.content # tx[m].record.content
      BY <2>3 DEF Unique, Replace, At, Before
    <3>2. \A n \in Maps \ {m} : tx'[n] = tx[n]
      BY <2>3 DEF Replace, Goto
    <3>3. tx'[m] = [phase |-> "replaced", record |-> tx[m].record] /\ tx[m].record \in journals
      BY <2>3 DEF Replace, At, Goto, Journaled
    <3>4. applied' = applied \cup {tx[m].record.content}
          /\ app = "up" /\ UNCHANGED <<journals, app, todo, committed, reported>>
      BY <2>3 DEF Replace, At, startup
    <3> QED  BY <3>1, <3>2, <3>3, <3>4 DEF Before, After, Journaled, Startup
  <2>4. CASE ReplaceFails(m)
    BY <2>4 DEF ReplaceFails, At, End, Idle, ghosts, startup,
          Before, After, Journaled, Startup
  <2>5. CASE Verify(m)
    BY <2>5 DEF Verify, At, Goto, ghosts, startup,
          Before, After, Journaled, Startup
  <2>6. CASE VerifyFails(m)
    BY <2>6 DEF VerifyFails, At, Goto, ghosts, startup,
          Before, After, Journaled, Startup
  <2>7. CASE Commit(m)
    BY <2>7 DEF Commit, At, Goto, startup,
          Before, After, Journaled, Startup
  <2>8. CASE CommitFails(m)
    BY <2>8 DEF CommitFails, At, Goto, ghosts, startup,
          Before, After, Journaled, Startup
  <2>9. CASE Rollback(m)
    BY <2>9 DEF Rollback, At, Goto, ghosts, startup, Undoable,
          Before, After, Journaled, Startup
  <2>10. CASE Undo(m)
    BY <2>10 DEF Undo, At, Goto, ghosts, startup, Undoable,
          Before, After, Journaled, Startup
  <2>11. CASE GivesUp(m)
    BY <2>11 DEF GivesUp, At, End, Idle, ghosts, startup,
          Before, After, Journaled, Startup
  <2>12. CASE PutBack(m)
    BY <2>12 DEF PutBack, Goto, Write, ghosts, startup, AfterPutBack, Idle,
          Before, After, Journaled, Startup
  <2>13. CASE Restored(m)
    BY <2>13 DEF Restored, At, End, Idle, ghosts, startup, IsBack,
          Before, After, Journaled, Startup
  <2>14. CASE TakenBack(m)
    BY <2>14 DEF TakenBack, At, Goto, End, Idle, ghosts, startup, IsBack,
          Before, After, Journaled, Startup
  <2>15. CASE Finish(m)
    <3>1. tx[m].record \in journals /\ app = "up"
      BY <2>15 DEF Finish, At, Journaled, After
    <3>2. \A n \in Maps \ {m} : tx'[n] = tx[n] /\ (Journaled(n) => tx[n].record # tx[m].record)
      BY <2>15 DEF Finish, End, At, Journaled, After
    <3>3. tx'[m] = Idle /\ UNCHANGED <<app, todo, applied, committed>>
      BY <2>15 DEF Finish, End, startup
    <3>4. \/ journals' = journals \ {tx[m].record} /\ reported' = reported \cup {tx[m].record.content}
          \/ UNCHANGED <<journals, reported>>
      BY <2>15 DEF Finish
    <3>5. \A j \in journals' : j.content \notin reported'
      BY <3>1, <3>4 DEF Unique
    <3> QED  BY <3>1, <3>2, <3>3, <3>4, <3>5 DEF Before, After, Journaled, Idle, Startup
  <2>16. CASE ForgetUndone(m)
    BY <2>16 DEF ForgetUndone, At, End, Idle, ghosts, startup,
          Before, After, Journaled, Startup
  <2>17. CASE Follow(m)
    BY <2>17 DEF Follow, ghosts, startup,
          Before, After, Journaled, Startup
  <2>18. CASE Edit(m)
    BY <2>18 DEF Edit, Write, ghosts, startup,
          Before, After, Journaled, Startup
  <2>19. CASE Recovered(m)
    BY <2>19 DEF Recovered, End, Idle, ghosts, IsBack,
          Before, After, Journaled, Startup
  <2> QED  BY <2>1, <2>2, <2>3, <2>4, <2>5, <2>6, <2>7, <2>8, <2>9, <2>10, <2>11, <2>12, <2>13,
              <2>14, <2>15, <2>16, <2>17, <2>18, <2>19 DEF MapStep
<1>3. CASE Crash
  BY <1>3 DEF Crash, Idle, ghosts,
          Before, After, Journaled, Startup
<1>4. CASE Ready
  BY <1>4 DEF Ready, Idle, ghosts,
          Before, After, Journaled, Startup
<1>5. CASE \E journal \in todo : Clear(journal)
  <2> PICK j \in todo : Clear(j)
    BY <1>5
  <2>1. app = "starting" /\ (\A m \in Maps : tx[m] = Idle)
    BY DEF Clear, Inspects
  <2>2. UNCHANGED <<tx, app, applied, committed, reported>> /\ journals' \subseteq journals
    BY DEF Clear, ghosts
  <2> QED  BY <2>1, <2>2 DEF Idle, Before, After, Journaled, Startup
<1>6. CASE \E journal \in todo : Recover(journal)
  BY <1>6 DEF Recover, Goto, ghosts, startup, Undoable,
          Before, After, Journaled, Startup
<1>7. CASE Blocked
  BY <1>7 DEF Blocked, Idle, ghosts, IsBack,
          Before, After, Journaled, Startup
<1> QED  BY <1>1, <1>2, <1>3, <1>4, <1>5, <1>6, <1>7 DEF Next, MapStep

LEMMA NextTested ==
    ASSUME TypeOK, Steps, Bounds, Tested, [Next]_vars
    PROVE  Tested'
<1> USE DEF TypeOK, Tested, Contents, Records, Running
<1>1. CASE UNCHANGED vars
  BY <1>1 DEF vars,
          Startup, Steps
<1>2. CASE \E m \in Maps : MapStep(m)
  <2> PICK m \in Maps : MapStep(m)
    BY <1>2
  <2>1. CASE Check(m)
    BY <2>1 DEF Check, At, Goto, ghosts, startup,
          Startup, Steps
  <2>2. CASE Journal(m)
    BY <2>2 DEF Journal, At, Goto, ghosts, startup,
          Startup, Steps
  <2>3. CASE Replace(m)
    BY <2>3 DEF Replace, At, Goto, Write, startup,
          Startup, Steps
  <2>4. CASE ReplaceFails(m)
    BY <2>4 DEF ReplaceFails, At, End, Idle, ghosts, startup,
          Startup, Steps
  <2>5. CASE Verify(m)
    BY <2>5 DEF Verify, At, Goto, ghosts, startup,
          Startup, Steps
  <2>6. CASE VerifyFails(m)
    BY <2>6 DEF VerifyFails, At, Goto, ghosts, startup,
          Startup, Steps
  <2>7. CASE Commit(m)
    BY <2>7 DEF Commit, At, Goto, startup,
          Startup, Steps
  <2>8. CASE CommitFails(m)
    BY <2>8 DEF CommitFails, At, Goto, ghosts, startup,
          Startup, Steps
  <2>9. CASE Rollback(m)
    BY <2>9 DEF Rollback, At, Goto, ghosts, startup, Undoable,
          Startup, Steps
  <2>10. CASE Undo(m)
    BY <2>10 DEF Undo, At, Goto, ghosts, startup, Undoable,
          Startup, Steps
  <2>11. CASE GivesUp(m)
    BY <2>11 DEF GivesUp, At, End, Idle, ghosts, startup,
          Startup, Steps
  <2>12. CASE PutBack(m)
    BY <2>12 DEF PutBack, Goto, Write, ghosts, startup, AfterPutBack,
          Startup, Steps
  <2>13. CASE Restored(m)
    BY <2>13 DEF Restored, At, End, Idle, ghosts, startup, IsBack,
          Startup, Steps
  <2>14. CASE TakenBack(m)
    BY <2>14 DEF TakenBack, At, Goto, End, Idle, ghosts, startup, IsBack,
          Startup, Steps
  <2>15. CASE Finish(m)
    BY <2>15 DEF Finish, At, End, Idle, startup,
          Startup, Steps
  <2>16. CASE ForgetUndone(m)
    BY <2>16 DEF ForgetUndone, At, End, Idle, ghosts, startup,
          Startup, Steps
  <2>17. CASE Follow(m)
    BY <2>17 DEF Follow, ghosts, startup,
          Startup, Steps
  <2>18. CASE Edit(m)
    <3>1. UNCHANGED <<tx, last, unread, since>>
      BY <2>18 DEF Edit, ghosts, startup
    <3>2. \A n \in Maps : source'[n] = source[n] \/ (n = m /\ source'[n] = fresh)
      BY <2>18 DEF Edit, Write
    <3>3. since <= fresh
      BY DEF Bounds
    <3> QED  BY <3>1, <3>2, <3>3
  <2>19. CASE Recovered(m)
    BY <2>19 DEF Recovered, End, Idle, ghosts, IsBack,
          Startup, Steps
  <2> QED  BY <2>1, <2>2, <2>3, <2>4, <2>5, <2>6, <2>7, <2>8, <2>9, <2>10, <2>11, <2>12, <2>13,
              <2>14, <2>15, <2>16, <2>17, <2>18, <2>19 DEF MapStep
<1>3. CASE Crash
  BY <1>3 DEF Crash, Idle, ghosts,
          Startup, Steps
<1>4. CASE Ready
  BY <1>4 DEF Ready, Idle, ghosts,
          Startup, Steps
<1>5. CASE \E journal \in todo : Clear(journal)
  BY <1>5 DEF Clear, ghosts,
          Startup, Steps
<1>6. CASE \E journal \in todo : Recover(journal)
  <2> PICK j \in journals : Recover(j)
    BY <1>6
  <2>1. j \in Records /\ (\A n \in Maps : last[n] = j => n \in unread)
    BY DEF Recover, Committed
  <2>2. j.map \in Maps /\ source[j.map] = j.content /\ j.backup = j.before
    BY <2>1 DEF Recover, Undoable
  <2>3. tx' = [tx EXCEPT ![j.map] = [phase |-> "recovering", record |-> j]]
        /\ UNCHANGED <<source, last, unread, since>>
    BY DEF Recover, Goto, startup
  <2> QED  BY <2>1, <2>2, <2>3
<1>7. CASE Blocked
  BY <1>7 DEF Blocked, Idle, ghosts, IsBack,
          Startup, Steps
<1> QED  BY <1>1, <1>2, <1>3, <1>4, <1>5, <1>6, <1>7 DEF Next, MapStep

-----------------------------------------------------------------------------
(* The contents that a source may come to hold again.                      *)

\* A step that takes an Apply back keeps only what is not newer than the
\* content it puts back; a step that removes a journal keeps the journals of
\* all other contents.
LEMMA Shrinks ==
    ASSUME TypeOK, Bounds, NEW m \in Maps, NEW L \in SUBSET Contents, Safe(m, L),
           NEW content \in L,
           source'[m] = content, fresh' = fresh, journals' \subseteq journals, last' = last,
           UNCHANGED <<applied, committed>>,
           \A n \in Maps : Before(n)' => Before(n) /\ tx'[n].record = tx[n].record,
           ~Holding(m)',
           \A j \in journals \ journals' :
               j.map = m => (j.content > content \/ j.content \in committed \/ j.content \notin applied)
    PROVE  Safe(m, {k \in L : k <= content})'
<1> DEFINE K == {k \in L : k <= content}
<1>0. L \subseteq Nat /\ content \in Nat /\ content \in Contents
  <2>1. \A k \in Contents : k \in Nat
    BY DEF Contents
  <2>2. L \subseteq Contents /\ content \in L
    OBVIOUS
  <2> QED  BY <2>1, <2>2
<1>1. K \subseteq L /\ content \in K
  <2>1. content <= content
    BY <1>0
  <2>2. content \in L /\ \A k \in K : k \in L
    OBVIOUS
  <2> QED  BY <2>1, <2>2
<1>2. \A r \in Records : LeadsBack(r, L) /\ Younger(r) => LeadsBack(r, K)
  BY DEF LeadsBack, Younger, Records, Contents
<1>3. \A v \in K : v < fresh'
  BY DEF Safe
<1>4. \A j \in journals' : j.map = m => LeadsBack(j, K)
  BY <1>2 DEF Safe, TypeOK, Bounds
<1>5. last'[m] # NoApply => LeadsBack(last'[m], K)
  BY <1>2 DEF Safe, TypeOK, Bounds
<1>6. \A n \in Maps : Before(n)' => tx'[n].record.content \notin K
  BY DEF Safe
<1>7. \A v \in K : v \in applied' \ committed' => \E j \in journals' : j.map = m /\ j.content = v
  <2> SUFFICES ASSUME NEW v \in K, v \in applied, v \notin committed
               PROVE  \E j \in journals' : j.map = m /\ j.content = v
    OBVIOUS
  <2>1. PICK j \in journals : j.map = m /\ j.content = v
    BY DEF Safe
  <2>2. v \in Nat /\ content \in Nat /\ v <= content
    BY <1>0
  <2> QED  BY <2>1, <2>2
<1> HIDE DEF K
<1>8. Safe(m, K)'
  BY <1>0, <1>1, <1>3, <1>4, <1>5, <1>6, <1>7 DEF Safe, LeadsBack
<1> QED  BY <1>8 DEF K

\* A step that leaves what the source of m may come to hold as it is.
Undisturbed(m, L) ==
    /\ source'[m] \in L
    /\ fresh <= fresh' /\ fresh' \in Nat
    /\ \A j \in journals' : j.map = m => j \in journals
    /\ last'[m] # NoApply => last'[m] = last[m] \/ LeadsBack(last'[m], L)
    /\ \A n \in Maps : Before(n)' =>
           \/ tx'[n].record.content = fresh
           \/ Before(n) /\ tx'[n].record.content = tx[n].record.content
    /\ Holding(m)' => tx'[m].record.backup \in L
    /\ committed \subseteq committed'
    /\ \A v \in L : v \in applied' \ committed' =>
           v \in applied /\ \A j \in journals : j.map = m /\ j.content = v => j \in journals'

LEMMA Keeps ==
    ASSUME TypeOK, NEW m \in Maps, NEW L \in SUBSET Contents, Safe(m, L), Undisturbed(m, L)
    PROVE  Safe(m, L)'
<1>1. source'[m] \in L /\ (\A v \in L : v < fresh')
  BY DEF Safe, Undisturbed, TypeOK, Contents
<1>2. \A j \in journals' : j.map = m => LeadsBack(j, L)
  BY DEF Safe, Undisturbed
<1>3. last'[m] # NoApply => LeadsBack(last'[m], L)
  BY DEF Safe, Undisturbed
<1>4. \A n \in Maps : Before(n)' => tx'[n].record.content \notin L
  BY DEF Safe, Undisturbed, TypeOK, Contents
<1>5. Holding(m)' => tx'[m].record.backup \in L
  BY DEF Safe, Undisturbed
<1>6. \A v \in L : v \in applied' \ committed' => \E j \in journals' : j.map = m /\ j.content = v
  BY DEF Safe, Undisturbed
<1> QED  BY <1>1, <1>2, <1>3, <1>4, <1>5, <1>6 DEF Safe, LeadsBack

\* A step about one map leaves the others as they are.
LEMMA OthersUndisturbed ==
    ASSUME TypeOK, Bounds, Steps, NEW m \in Maps, MapStep(m),
           NEW n \in Maps, n # m, NEW L \in SUBSET Contents, Safe(n, L)
    PROVE  Undisturbed(n, L)
<1> USE DEF TypeOK, Contents, Records, Running, Undisturbed, Before, Holding
<1>1. CASE Check(m)
  BY <1>1 DEF Check, At, Goto, ghosts, startup,
          Safe, Steps, Startup, After, Journaled
<1>2. CASE Journal(m)
  BY <1>2 DEF Journal, At, Goto, ghosts, startup,
          Safe, Steps, Startup, After, Journaled
<1>3. CASE Replace(m)
  BY <1>3 DEF Replace, At, Goto, Write, startup,
          Safe, Steps, Startup, After, Journaled
<1>4. CASE ReplaceFails(m)
  BY <1>4 DEF ReplaceFails, At, End, Idle, ghosts, startup,
          Safe, Steps, Startup, After, Journaled
<1>5. CASE Verify(m)
  BY <1>5 DEF Verify, At, Goto, ghosts, startup,
          Safe, Steps, Startup, After, Journaled
<1>6. CASE VerifyFails(m)
  BY <1>6 DEF VerifyFails, At, Goto, ghosts, startup,
          Safe, Steps, Startup, After, Journaled
<1>7. CASE Commit(m)
  BY <1>7 DEF Commit, At, Goto, startup,
          Safe, Steps, Startup, After, Journaled
<1>8. CASE CommitFails(m)
  BY <1>8 DEF CommitFails, At, Goto, ghosts, startup,
          Safe, Steps, Startup, After, Journaled
<1>9. CASE Rollback(m)
  BY <1>9 DEF Rollback, At, Goto, ghosts, startup, Undoable,
          Safe, Steps, Startup, After, Journaled
<1>10. CASE Undo(m)
  BY <1>10 DEF Undo, At, Goto, ghosts, startup, Undoable,
          Safe, Steps, Startup, After, Journaled
<1>11. CASE GivesUp(m)
  BY <1>11 DEF GivesUp, At, End, Idle, ghosts, startup,
          Safe, Steps, Startup, After, Journaled
<1>12. CASE PutBack(m)
  BY <1>12 DEF PutBack, Goto, Write, ghosts, startup, AfterPutBack,
          Safe, Steps, Startup, After, Journaled
<1>13. CASE Restored(m)
  BY <1>13 DEF Restored, At, End, Idle, ghosts, startup, IsBack,
          Safe, Steps, Startup, After, Journaled
<1>14. CASE TakenBack(m)
  BY <1>14 DEF TakenBack, At, Goto, End, Idle, ghosts, startup, IsBack,
          Safe, Steps, Startup, After, Journaled
<1>15. CASE Finish(m)
  BY <1>15 DEF Finish, At, End, Idle, startup,
          Safe, Steps, Startup, After, Journaled
<1>16. CASE ForgetUndone(m)
  BY <1>16 DEF ForgetUndone, At, End, Idle, ghosts, startup,
          Safe, Steps, Startup, After, Journaled
<1>17. CASE Follow(m)
  BY <1>17 DEF Follow, ghosts, startup,
          Safe, Steps, Startup, After, Journaled
<1>18. CASE Edit(m)
  BY <1>18 DEF Edit, Write, ghosts, startup,
          Safe, Steps, Startup, After, Journaled
<1>19. CASE Recovered(m)
  BY <1>19 DEF Recovered, End, Idle, ghosts, IsBack,
          Safe, Steps, Startup, After, Journaled
<1> QED  BY <1>1, <1>2, <1>3, <1>4, <1>5, <1>6, <1>7, <1>8, <1>9, <1>10, <1>11, <1>12, <1>13, <1>14,
            <1>15, <1>16, <1>17, <1>18, <1>19 DEF MapStep

LEMMA OwnStep ==
    ASSUME TypeOK, Bounds, Steps, Unique, NEW m \in Maps, MapStep(m),
           NEW L \in SUBSET Contents, Safe(m, L)
    PROVE  \E K \in SUBSET Contents : Safe(m, K)'
<1> USE DEF TypeOK, Contents, Records, Running
<1>k. ASSUME Undisturbed(m, L) PROVE \E K \in SUBSET Contents : Safe(m, K)'
  BY <1>k, Keeps
<1>1. CASE Check(m)
  BY <1>1, <1>k DEF Check, At, Goto, ghosts, startup, Undisturbed, Safe, Before, Holding
<1>2. CASE Journal(m)
  <2> DEFINE record == [tx[m].record EXCEPT !.backup = source[m]]
  <2>1. tx[m].record \in Records /\ tx[m].record.map = m
    BY <1>2 DEF Journal, At
  <2>2. record.content = tx[m].record.content /\ record.backup = source[m] /\ record.map = m
    BY <2>1
  <2>3. record.content \notin L /\ source[m] \in L
    BY <2>2, <1>2 DEF Journal, At, Before, Safe
  <2>4. journals' = journals \cup {record} /\ Goto(m, "journaled", record)
        /\ UNCHANGED <<source, fresh, last, applied, committed>>
    BY <1>2 DEF Journal, ghosts, startup
  <2>5. Before(m)
    BY <1>2 DEF Journal, At, Before
  <2> HIDE DEF record
  <2>6. tx' = [tx EXCEPT ![m] = [phase |-> "journaled", record |-> record]]
    BY <2>4 DEF Goto
  <2>7. \A n \in Maps : Before(n)' => Before(n) /\ tx'[n].record.content = tx[n].record.content
    BY <2>2, <2>5, <2>6 DEF Before
  <2>8. \A j \in journals' : j.map = m => LeadsBack(j, L)
    BY <2>3, <2>4 DEF Safe, LeadsBack, Holding
  <2> QED  BY <2>2, <2>3, <2>4, <2>6, <2>7, <2>8 DEF Safe, LeadsBack, Holding
<1>3. CASE Replace(m)
  <2> DEFINE r == tx[m].record
  <2>1. r \in Records /\ r.map = m /\ r \in journals /\ r.content < fresh /\ r.content \notin applied
    BY <1>3 DEF Replace, At, Steps, Journaled, Before, Bounds, Younger
  <2>2. r.backup \in L
    BY <1>3 DEF Replace, At, Safe, Holding
  <2>3. source'[m] = r.content /\ applied' = applied \cup {r.content}
        /\ UNCHANGED <<fresh, last, journals, committed>>
    BY <1>3 DEF Replace, Write, startup
  <2>4. tx' = [tx EXCEPT ![m] = [phase |-> "replaced", record |-> r]]
    BY <1>3 DEF Replace, Goto
  <2>5. \A n \in Maps : Before(n)' => n # m /\ Before(n) /\ tx'[n].record.content = tx[n].record.content
    BY <2>4 DEF Before
  <2>6. \A n \in Maps : Before(n)' => tx'[n].record.content # r.content
    BY <2>5, <1>3 DEF Unique, Replace, At, Before
  <2> PICK K \in SUBSET Contents : K = L \cup {r.content}
    BY <2>1
  <2>7. \A j \in journals' : j.map = m => LeadsBack(j, K)
    BY <2>1, <2>2, <2>3 DEF Unique, Safe, LeadsBack
  <2>8. last'[m] # NoApply => LeadsBack(last'[m], K)
    BY <2>1, <2>3 DEF Bounds, Safe, LeadsBack
  <2>9. \A v \in K : v \in applied' \ committed' => \E j \in journals' : j.map = m /\ j.content = v
    BY <2>1, <2>3 DEF Safe
  <2>10. \A n \in Maps : Before(n)' => tx'[n].record.content \notin K
    BY <2>5, <2>6 DEF Safe
  <2>11. Holding(m)' => tx'[m].record.backup \in K
    BY <2>2, <2>4 DEF Holding
  <2>12. source'[m] \in K /\ \A v \in K : v < fresh'
    BY <2>1, <2>3 DEF Safe
  <2>13. Safe(m, K)'
    BY <2>7, <2>8, <2>9, <2>10, <2>11, <2>12 DEF Safe, LeadsBack
  <2> QED  BY <2>13
<1>4. CASE ReplaceFails(m)
  <2>1. tx[m].record.content \notin L
    BY <1>4 DEF ReplaceFails, At, Before, Safe
  <2> QED  BY <1>4, <2>1, <1>k DEF ReplaceFails, End, Idle, ghosts, startup,
        Undisturbed, Safe, Before, Holding
<1>5. CASE Verify(m)
  BY <1>5, <1>k DEF Verify, At, Goto, ghosts, startup, Undisturbed, Safe, Before, Holding
<1>6. CASE VerifyFails(m)
  BY <1>6, <1>k DEF VerifyFails, At, Goto, ghosts, startup, Undisturbed, Safe, Before, Holding
<1>7. CASE Commit(m)
  <2>1. tx[m].record \in journals /\ tx[m].record.map = m
    BY <1>7 DEF Commit, At, Steps, Journaled, After
  <2>2. LeadsBack(tx[m].record, L)
    BY <2>1 DEF Safe
  <2> QED  BY <1>7, <2>2, <1>k DEF Commit, Goto, startup, Undisturbed, Safe, Before, Holding
<1>8. CASE CommitFails(m)
  BY <1>8, <1>k DEF CommitFails, At, Goto, ghosts, startup, Undisturbed, Safe, Before, Holding
<1>9. CASE Rollback(m)
  <2>1. tx[m].record \in journals /\ tx[m].record.map = m
    BY <1>9 DEF Rollback, At, Steps, Journaled, After
  <2>2. tx[m].record.backup \in L
    BY <1>9, <2>1 DEF Rollback, Undoable, Safe, LeadsBack
  <2> QED  BY <1>9, <2>2, <1>k DEF Rollback, At, Goto, ghosts, startup, Undisturbed, Safe, Before, Holding
<1>10. CASE Undo(m)
  <2>1. last[m].backup \in L
    BY <1>10 DEF Undo, Undoable, Safe, LeadsBack
  <2> QED  BY <1>10, <2>1, <1>k DEF Undo, At, Goto, ghosts, startup, Undisturbed, Safe, Before, Holding
<1>11. CASE GivesUp(m)
  BY <1>11, <1>k DEF GivesUp, At, End, Idle, ghosts, startup, Undisturbed, Safe, Before, Holding
<1>12. CASE PutBack(m)
  <2>1. tx[m].record.backup \in L /\ ~Before(m)
    BY <1>12 DEF PutBack, AfterPutBack, Safe, Holding, Before
  <2>2. source'[m] = tx[m].record.backup
    BY <1>12 DEF PutBack, Write
  <2>3. \A n \in Maps : Before(n)' => Before(n) /\ tx'[n] = tx[n]
    BY <1>12 DEF PutBack, AfterPutBack, Goto, Before
  <2>4. ~Holding(m)'
    BY <1>12 DEF PutBack, AfterPutBack, Goto, Holding
  <2>5. UNCHANGED <<fresh, last, journals, applied, committed>>
    BY <1>12 DEF PutBack, ghosts
  <2> QED  BY <2>1, <2>2, <2>3, <2>4, <2>5, <1>k DEF Undisturbed, Safe
<1>13. CASE Restored(m)
  <2> DEFINE r == tx[m].record
  <2>1. r \in Records /\ r.before < r.content
    BY <1>13 DEF Restored, At, Bounds, Younger
  <2>2. UNCHANGED <<source, fresh, last, applied, committed>>
        /\ (\A n \in Maps : Before(n)' => Before(n) /\ tx'[n].record = tx[n].record)
        /\ ~Holding(m)'
    BY <1>13 DEF Restored, At, Goto, End, Idle, ghosts, startup, Before, Holding
  <2>3. CASE journals' = journals
    <3>1. source'[m] \in L
      BY <2>2 DEF Safe
    <3> QED  BY <2>2, <2>3, <3>1, <1>k DEF Undisturbed, Safe
  <2>4. CASE IsBack(m) /\ journals' = journals \ {r}
    <3> PICK c \in L : c = r.before
      BY <2>4 DEF IsBack, Safe
    <3>1. source'[m] = c
      BY <2>2, <2>4 DEF IsBack
    <3>2. \A j \in journals \ journals' : j.content > c
      BY <2>1, <2>4
    <3>3. journals' \subseteq journals
      BY <2>4
    <3> HIDE DEF TypeOK, Contents, Records, Running, r
    <3>4. Safe(m, {k \in L : k <= c})'
      BY <2>2, <3>1, <3>2, <3>3, Shrinks
    <3> QED  BY <3>4
  <2> QED  BY <1>13, <2>3, <2>4 DEF Restored
<1>14. CASE TakenBack(m)
  <2> DEFINE r == tx[m].record
  <2>1. r \in Records /\ r.before < r.content
    BY <1>14 DEF TakenBack, At, Bounds, Younger
  <2>2. UNCHANGED <<source, fresh, last, applied, committed>>
        /\ (\A n \in Maps : Before(n)' => Before(n) /\ tx'[n].record = tx[n].record)
        /\ ~Holding(m)'
    BY <1>14 DEF TakenBack, At, Goto, End, Idle, ghosts, startup, Before, Holding
  <2>3. CASE journals' = journals
    <3>1. source'[m] \in L
      BY <2>2 DEF Safe
    <3> QED  BY <2>2, <2>3, <3>1, <1>k DEF Undisturbed, Safe
  <2>4. CASE IsBack(m) /\ journals' = journals \ {r}
    <3> PICK c \in L : c = r.before
      BY <2>4 DEF IsBack, Safe
    <3>1. source'[m] = c
      BY <2>2, <2>4 DEF IsBack
    <3>2. \A j \in journals \ journals' : j.content > c
      BY <2>1, <2>4
    <3>3. journals' \subseteq journals
      BY <2>4
    <3> HIDE DEF TypeOK, Contents, Records, Running, r
    <3>4. Safe(m, {k \in L : k <= c})'
      BY <2>2, <3>1, <3>2, <3>3, Shrinks
    <3> QED  BY <3>4
  <2> QED  BY <1>14, <2>3, <2>4 DEF TakenBack
<1>15. CASE Finish(m)
  <2>1. tx[m].record.content \in committed
    BY <1>15 DEF Finish, At, Steps
  <2> QED  BY <1>15, <2>1, <1>k DEF Finish, End, Idle, startup, Undisturbed, Safe, Before, Holding
<1>16. CASE ForgetUndone(m)
  BY <1>16, <1>k DEF ForgetUndone, At, End, Idle, ghosts, startup, Undisturbed, Safe, Before, Holding
<1>17. CASE Follow(m)
  BY <1>17, <1>k DEF Follow, ghosts, startup, Undisturbed, Safe, Before, Holding
<1>18. CASE Edit(m)
  <2> PICK K \in SUBSET Contents : K = L \cup {fresh}
    BY <1>18 DEF Edit
  <2>1. source'[m] = fresh /\ fresh' = fresh + 1 /\ fresh \notin applied
        /\ UNCHANGED <<last, journals, tx, applied, committed>>
    BY <1>18 DEF Edit, Write, ghosts, startup, Bounds
  <2>2. \A j \in journals : j.map = m => LeadsBack(j, K)
    BY DEF Bounds, Younger, Safe, LeadsBack
  <2>3. last[m] # NoApply => LeadsBack(last[m], K)
    BY DEF Bounds, Younger, Safe, LeadsBack
  <2>4. \A n \in Maps : Before(n) => tx[n].record.content \notin K
    BY DEF Bounds, Younger, Safe, Before
  <2>5. \A v \in K : v < fresh'
    BY <2>1 DEF Safe
  <2>6. \A v \in K : v \in applied \ committed => \E j \in journals : j.map = m /\ j.content = v
    BY <2>1 DEF Safe
  <2>7. (Holding(m) => tx[m].record.backup \in K)
        /\ source'[m] \in K
    BY <2>1 DEF Safe
  <2>8. Safe(m, K)'
    BY <2>1, <2>2, <2>3, <2>4, <2>5, <2>6, <2>7 DEF Safe, LeadsBack, Before, Holding
  <2> QED  BY <2>8
<1>19. CASE Recovered(m)
  <2> DEFINE r == tx[m].record
  <2>1. r \in Records /\ r.before < r.content
    BY <1>19 DEF Recovered, At, Bounds, Younger
  <2>2. UNCHANGED <<source, fresh, last, applied, committed>>
        /\ (\A n \in Maps : Before(n)' => Before(n) /\ tx'[n].record = tx[n].record)
        /\ ~Holding(m)'
    BY <1>19 DEF Recovered, At, Goto, End, Idle, ghosts, startup, Before, Holding
  <2>3. CASE journals' = journals
    <3>1. source'[m] \in L
      BY <2>2 DEF Safe
    <3> QED  BY <2>2, <2>3, <3>1, <1>k DEF Undisturbed, Safe
  <2>4. CASE IsBack(m) /\ journals' = journals \ {r}
    <3> PICK c \in L : c = r.before
      BY <2>4 DEF IsBack, Safe
    <3>1. source'[m] = c
      BY <2>2, <2>4 DEF IsBack
    <3>2. \A j \in journals \ journals' : j.content > c
      BY <2>1, <2>4
    <3>3. journals' \subseteq journals
      BY <2>4
    <3> HIDE DEF TypeOK, Contents, Records, Running, r
    <3>4. Safe(m, {k \in L : k <= c})'
      BY <2>2, <3>1, <3>2, <3>3, Shrinks
    <3> QED  BY <3>4
  <2> QED  BY <1>19, <2>3, <2>4 DEF Recovered
<1> QED  BY <1>1, <1>2, <1>3, <1>4, <1>5, <1>6, <1>7, <1>8, <1>9, <1>10, <1>11, <1>12, <1>13, <1>14,
            <1>15, <1>16, <1>17, <1>18, <1>19 DEF MapStep

LEMMA NextCovered ==
    ASSUME TypeOK, Bounds, Steps, Unique, Covered, [Next]_vars
    PROVE  Covered'
<1> SUFFICES ASSUME NEW n \in Maps
             PROVE  \E K \in SUBSET Contents : Safe(n, K)'
  BY DEF Covered
<1> PICK L \in SUBSET Contents : Safe(n, L)
  BY DEF Covered
<1> USE DEF TypeOK, Contents, Records, Running
<1>k. ASSUME Undisturbed(n, L) PROVE \E K \in SUBSET Contents : Safe(n, K)'
  BY <1>k, Keeps
<1>1. CASE UNCHANGED vars
  BY <1>1, <1>k DEF vars, Undisturbed, Safe, Before, Holding
<1>2. CASE \E m \in Maps : MapStep(m)
  <2> PICK m \in Maps : MapStep(m)
    BY <1>2
  <2>1. CASE n = m
    BY <2>1, OwnStep
  <2>2. CASE n # m
    BY <2>2, OthersUndisturbed, <1>k
  <2> QED  BY <2>1, <2>2
<1>3. CASE Crash
  BY <1>3, <1>k DEF Crash, Idle, ghosts, Undisturbed, Safe, Before, Holding
<1>4. CASE Ready
  BY <1>4, <1>k DEF Ready, ghosts, Undisturbed, Safe, Before, Holding
<1>5. CASE \E journal \in todo : Clear(journal)
  <2> PICK j \in journals : Clear(j) /\ Inspects(j)
    BY <1>5 DEF Clear, Inspects
  <2> j \in Records /\ j.before < j.content
    BY DEF Bounds, Younger
  <2>1. UNCHANGED <<source, fresh, last, tx, applied, committed>> /\ journals' = journals \ {j}
        /\ (\A o \in Maps : tx[o] = Idle)
    BY DEF Clear, Inspects, ghosts
  <2>2. CASE n # j.map
    BY <2>1, <2>2, <1>k DEF Undisturbed, Safe, Before, Holding, Idle
  <2>3. CASE n = j.map /\ Committed(j)
    <3>1. j.content \in committed
      BY <2>3 DEF Committed, Bounds
    <3> QED  BY <2>1, <3>1, <1>k DEF Undisturbed, Safe, Before, Holding, Idle
  <2>4. CASE n = j.map /\ ~Committed(j)
    <3>1. source'[n] = j.before /\ j.before \in L
      BY <2>1, <2>4 DEF Clear, Safe
    <3>2. \A k \in journals \ journals' : k.content > j.before
      BY <2>1
    <3>3. (\A o \in Maps : ~Before(o)') /\ ~Holding(n)'
      BY <2>1 DEF Before, Holding, Idle
    <3>4. fresh' = fresh /\ last' = last /\ journals' \subseteq journals /\ UNCHANGED <<applied, committed>>
      BY <2>1
    <3> HIDE DEF TypeOK, Contents, Records, Running
    <3>5. Safe(n, {k \in L : k <= j.before})'
      BY <3>1, <3>2, <3>3, <3>4, Shrinks
    <3> QED  BY <3>5
  <2> QED  BY <2>2, <2>3, <2>4
<1>6. CASE \E journal \in todo : Recover(journal)
  <2> PICK j \in journals : Recover(j) /\ Inspects(j)
    BY <1>6 DEF Recover, Inspects
  <2>1. j \in Records /\ (n = j.map => j.backup \in L)
    BY DEF Recover, Undoable, Safe, LeadsBack
  <2>2. tx' = [tx EXCEPT ![j.map] = [phase |-> "recovering", record |-> j]]
        /\ UNCHANGED <<source, fresh, last, journals, applied, committed>>
    BY DEF Recover, Goto, ghosts
  <2>3. \A o \in Maps : Before(o)' => Before(o) /\ tx'[o] = tx[o]
    BY <2>1, <2>2 DEF Before
  <2>4. Holding(n)' => tx'[n].record.backup \in L
    BY <2>1, <2>2 DEF Holding, Safe
  <2> QED  BY <2>2, <2>3, <2>4, <1>k DEF Undisturbed, Safe
<1>7. CASE Blocked
  BY <1>7, <1>k DEF Blocked, Idle, ghosts, Undisturbed, Safe, Before, Holding
<1> QED  BY <1>1, <1>2, <1>3, <1>4, <1>5, <1>6, <1>7 DEF Next, MapStep

-----------------------------------------------------------------------------
(* The invariant and what follows from it.                                 *)

LEMMA InitIInv == Init => IInv
<1> SUFFICES ASSUME Init PROVE IInv
  OBVIOUS
<1> USE DEF Init, Contents, Idle
<1>1. TypeOK
  BY InitTypes
<1>2. Bounds /\ Unique /\ Steps /\ Tested
  BY DEF Bounds, Unique, Steps, Tested, Younger, Before, After, Journaled, Startup
<1>3. ASSUME NEW m \in Maps PROVE Safe(m, {0})
  <2>1. source[m] = 0 /\ fresh = 1 /\ journals = {} /\ last[m] = NoApply /\ applied = {}
    BY <1>3
  <2>2. \A n \in Maps : tx[n].phase = "idle"
    OBVIOUS
  <2> QED  BY <1>3, <2>1, <2>2 DEF Safe, Before, Holding
<1>4. Covered
  <2>1. {0} \in SUBSET Contents
    OBVIOUS
  <2> QED  BY <1>3, <2>1 DEF Covered
<1> QED  BY <1>1, <1>2, <1>4 DEF IInv

LEMMA NextIInv == IInv /\ [Next]_vars => IInv'
<1> SUFFICES ASSUME IInv, [Next]_vars PROVE IInv'
  OBVIOUS
<1>1. TypeOK /\ Bounds /\ Unique /\ Steps /\ Tested /\ Covered
  BY DEF IInv
<1>2. TypeOK'
  BY <1>1, NextTypes
<1>3. Bounds' /\ Unique' /\ Steps' /\ Tested' /\ Covered'
  BY <1>1, NextBounds, NextUnique, NextSteps, NextTested, NextCovered
<1> QED  BY <1>2, <1>3 DEF IInv

LEMMA Invariance == Spec => []IInv
BY InitIInv, NextIInv, PTL DEF Spec

\* Every variable keeps its type, and journals and Applies are kept for the
\* map they are about, for any set of maps.
THEOREM TypeCorrect == Spec => []TypeOK
<1>1. IInv => TypeOK
  BY DEF IInv
<1> QED  BY <1>1, Invariance, PTL

\* Wherever an Apply fails or the program dies, and whatever other programs
\* save meanwhile, a source that holds uncommitted bytes of an Apply has the
\* journal that says so.
THEOREM JournalsInterrupted == Spec => []InterruptedIsJournaled
<1>1. IInv => InterruptedIsJournaled
  BY DEF IInv, Covered, Safe, InterruptedIsJournaled
<1> QED  BY <1>1, Invariance, PTL

\* A startup never takes back an Apply that reported success, nor one that a
\* session state it can read names; it loses no save made before it began,
\* and never writes anything else to a source.
THEOREM StartupRestores == Spec => StartupTakesBackOnlyUnreported
<1> DEFINE Restores == app = "starting" =>
        \A m \in Maps : source'[m] # source[m] => source'[m] = fresh \/ TakesBack(m)
<1>1. ASSUME IInv, Next PROVE Restores
  <2> SUFFICES ASSUME app = "starting", NEW m \in Maps, source'[m] # source[m]
               PROVE  source'[m] = fresh \/ TakesBack(m)
    OBVIOUS
  <2> TypeOK /\ Steps /\ Tested /\ Next
    BY <1>1 DEF IInv
  <2> USE DEF TypeOK
  <2>1. CASE \E n \in Maps : MapStep(n)
    <3> PICK n \in Maps : MapStep(n)
      BY <2>1
    <3>1. CASE Edit(n)
      BY <3>1 DEF Edit, Write
    <3>2. CASE PutBack(n)
      <4> DEFINE j == tx[n].record
      <4>1. n = m /\ source'[m] = j.backup
        BY <3>2 DEF PutBack, Write
      <4>2. tx[n].phase = "recovering" /\ j \in todo
        BY <3>2 DEF PutBack, AfterPutBack, Steps, Idle, Startup
      <4>3. j \in journals /\ j.map = m /\ j.content \notin reported
        BY <4>1, <4>2 DEF Steps
      <4>4. /\ j.backup = j.before
            /\ source[m] = j.content \/ source[m] >= since
            /\ \A o \in Maps : last[o] = j => o \in unread
        BY <4>1, <4>2 DEF Tested
      <4> QED  BY <4>1, <4>3, <4>4 DEF TakesBack
    <3>3. CASE Follow(n) \/ Recovered(n)
      BY <3>3 DEF Follow, Recovered
    <3> QED  BY <3>1, <3>2, <3>3 DEF MapStep, At, Check, Journal, Replace, ReplaceFails, Verify,
             VerifyFails, Commit, CommitFails, Rollback, Undo, GivesUp, Restored, TakenBack,
             Finish, ForgetUndone
  <2>2. CASE Crash \/ Ready \/ Blocked
    BY <2>2 DEF Crash, Ready, Blocked
  <2>3. CASE \E journal \in todo : Clear(journal) \/ Recover(journal)
    BY <2>3 DEF Clear, Recover
  <2> QED  BY <2>1, <2>2, <2>3 DEF Next, MapStep
<1>2. ASSUME IInv, [Next]_vars PROVE [Restores]_vars
  BY <1>1, <1>2
<1> QED  BY <1>2, Invariance, PTL DEF Spec, StartupTakesBackOnlyUnreported
==============================================================================
