-------------------------- MODULE NativeReceiptsProofs --------------------------
(***************************************************************************)
(* Proofs about NativeReceipts: nothing runs after a run that ended        *)
(* without a boundary, no completed request is run again, and every turn   *)
(* continues the conversation the last one reached, for any finite set of  *)
(* requests and any number of runs.                                        *)
(***************************************************************************)
EXTENDS NativeReceipts, FiniteSetTheorems, WellFoundedInduction, TLAPS

Active == phase \in {"starting", "claimed", "running"}

\* Which run is under way, and that its number is within the bound.
Numbers ==
    /\ receipts \in [Identities -> {receipts[i] : i \in Identities}]
    /\ nextRun \in Nat \ {0} /\ begun \in 0..MaxRuns /\ nextRun <= begun + 1
    /\ Active => run \in Identities /\ begun # 0
    /\ phase = "restarting" => run \in Identities /\ begun < MaxRuns

\* What the receipt of the run under way says, and that a run that left no
\* boundary has left a receipt which says so and which no save retires.
FailClosed ==
    /\ phase = "claimed" => receipts[run].state = "torn"
    /\ phase = "running" => receipts[run].state \in {"pending", "interrupted"}
    /\ phase = "running" /\ seen = 0 => receipts[run].state = "pending"
    /\ doubt = "unknown" => Doubtful # {} /\ ~Active
    /\ acks \subseteq In({"interrupted", "completed", "cleared"})

\* A completed request keeps a completed receipt until a save follows it.
Unsaved ==
    /\ \A r \in unsaved : \E i \in In({"completed"}) : i[2] = r
    /\ phase = "acking" => unsaved = {}
    /\ Active => run[2] \notin unsaved

IInv == Numbers /\ FailClosed /\ Unsaved

USE BoundAssumption

\* Only these receipts stop a run or can be cleared.
LEMMA StatesOf ==
    /\ \A i : i \in Doubtful <=> i \in Identities /\ receipts[i].state \in {"torn", "pending", "unknown"}
    /\ \A i : i \in Unresolved <=>
          i \in Identities /\ receipts[i].state \in {"torn", "pending", "unknown", "interrupted", "completed"}
    /\ \A i : i \in In({"completed"}) <=> i \in Identities /\ receipts[i].state = "completed"
    /\ \A i : i \in In({"interrupted", "completed"}) <=>
          i \in Identities /\ receipts[i].state \in {"interrupted", "completed"}
    /\ \A i : i \in In({"interrupted", "completed", "cleared"}) <=>
          i \in Identities /\ receipts[i].state \in {"interrupted", "completed", "cleared"}
BY DEF Doubtful, Unresolved, In

\* A run's receipt is the only one that its own steps change.
LEMMA Updated ==
    ASSUME Numbers, NEW i \in Identities, NEW receipt, receipts' = [receipts EXCEPT ![i] = receipt]
    PROVE  /\ receipts' \in [Identities -> {receipts'[j] : j \in Identities}]
           /\ receipts'[i] = receipt
           /\ \A j \in Identities \ {i} : receipts'[j] = receipts[j]
<1> DEFINE R == {receipts[j] : j \in Identities}
<1>1. receipts \in [Identities -> R]
  BY DEF Numbers
<1> HIDE DEF R
<1>2. DOMAIN receipts' = Identities /\ receipts' = [j \in Identities |-> receipts'[j]]
  BY <1>1
<1>3. receipts'[i] = receipt /\ \A j \in Identities \ {i} : receipts'[j] = receipts[j]
  BY <1>1
<1>4. receipts' \in [Identities -> {receipts'[j] : j \in Identities}]
  BY <1>2
<1> QED  BY <1>3, <1>4

LEMMA StateSet ==
    ASSUME Numbers, NEW i \in Identities, NEW state, NEW candidate,
           receipts' = SetReceipt(i, state, candidate)
    PROVE  receipts'[i].state = state /\ \A j \in Identities \ {i} : receipts'[j] = receipts[j]
<1> DEFINE receipt == [state |-> state, prior |-> receipts[i].prior, candidate |-> candidate]
<1>1. receipts' = [receipts EXCEPT ![i] = receipt] /\ receipt.state = state
  BY DEF SetReceipt
<1> HIDE DEF receipt
<1> QED  BY <1>1, Updated

LEMMA NextNumbers ==
    ASSUME Numbers, [Next]_vars
    PROVE  Numbers'
<1>1. CASE UNCHANGED vars
  BY <1>1 DEF vars, Start, Forget, Numbers, Active, Identities, ghosts
<1>2. CASE \E request \in Requests : Begin(request)
  BY <1>2 DEF Begin, Start, Forget, Numbers, Active, Identities, ghosts
<1>3. CASE \E request \in Requests : FreshStart(request)
  BY <1>3 DEF FreshStart, Start, Numbers, Active, Identities, ghosts
<1>4. CASE Open
  BY <1>4 DEF Open, Start, Forget, Numbers, Active, Identities, ghosts
<1>5. CASE Claim
  <2>1. run \in Identities
    BY <1>5 DEF Claim, Numbers, Active
  <2>2. receipts' = receipts \/ \E receipt : receipts' = [receipts EXCEPT ![run] = receipt]
    BY <1>5 DEF Claim, SetReceipt, NoReceipt
  <2>3. receipts' \in [Identities -> {receipts'[j] : j \in Identities}]
    BY <2>1, <2>2, Updated DEF Numbers
  <2> QED  BY <2>1, <2>3, <1>5 DEF Claim, Numbers, Active, Reach, ghosts
<1>6. CASE Mark
  <2>1. run \in Identities
    BY <1>6 DEF Mark, Numbers, Active
  <2>2. receipts' = receipts \/ \E receipt : receipts' = [receipts EXCEPT ![run] = receipt]
    BY <1>6 DEF Mark, SetReceipt, NoReceipt
  <2>3. receipts' \in [Identities -> {receipts'[j] : j \in Identities}]
    BY <2>1, <2>2, Updated DEF Numbers
  <2> QED  BY <2>1, <2>3, <1>6 DEF Mark, Numbers, Active, Reach, ghosts
<1>7. CASE StartFails
  BY <1>7 DEF StartFails, Start, Forget, Numbers, Active, Identities, ghosts
<1>8. CASE Publish
  <2>1. run \in Identities
    BY <1>8 DEF Publish, Numbers, Active
  <2>2. receipts' = receipts \/ \E receipt : receipts' = [receipts EXCEPT ![run] = receipt]
    BY <1>8 DEF Publish, SetReceipt, NoReceipt
  <2>3. receipts' \in [Identities -> {receipts'[j] : j \in Identities}]
    BY <2>1, <2>2, Updated DEF Numbers
  <2> QED  BY <2>1, <2>3, <1>8 DEF Publish, Numbers, Active, Reach, ghosts
<1>9. CASE Complete
  <2>1. run \in Identities
    BY <1>9 DEF Complete, Numbers, Active
  <2>2. receipts' = receipts \/ \E receipt : receipts' = [receipts EXCEPT ![run] = receipt]
    BY <1>9 DEF Complete, SetReceipt, NoReceipt
  <2>3. receipts' \in [Identities -> {receipts'[j] : j \in Identities}]
    BY <2>1, <2>2, Updated DEF Numbers
  <2> QED  BY <2>1, <2>3, <1>9 DEF Complete, Numbers, Active, Reach, ghosts
<1>10. CASE Interrupt
  <2>1. run \in Identities
    BY <1>10 DEF Interrupt, Numbers, Active
  <2>2. receipts' = receipts \/ \E receipt : receipts' = [receipts EXCEPT ![run] = receipt]
    BY <1>10 DEF Interrupt, SetReceipt, NoReceipt
  <2>3. receipts' \in [Identities -> {receipts'[j] : j \in Identities}]
    BY <2>1, <2>2, Updated DEF Numbers
  <2> QED  BY <2>1, <2>3, <1>10 DEF Interrupt, Numbers, Active, Reach, ghosts
<1>11. CASE EndUnknown
  <2>1. run \in Identities
    BY <1>11 DEF EndUnknown, Numbers, Active
  <2>2. receipts' = receipts \/ \E receipt : receipts' = [receipts EXCEPT ![run] = receipt]
    BY <1>11 DEF EndUnknown, SetReceipt, NoReceipt
  <2>3. receipts' \in [Identities -> {receipts'[j] : j \in Identities}]
    BY <2>1, <2>2, Updated DEF Numbers
  <2> QED  BY <2>1, <2>3, <1>11 DEF EndUnknown, Numbers, Active, Reach, ghosts
<1>12. CASE Save
  BY <1>12 DEF Save, Start, Forget, Numbers, Active, Identities, ghosts
<1>13. CASE SaveFails
  BY <1>13 DEF SaveFails, Start, Forget, Numbers, Active, Identities, ghosts
<1>14. CASE AckEnds
  BY <1>14 DEF AckEnds, Start, Forget, Numbers, Active, Identities, ghosts
<1>15. CASE Reset
  BY <1>15 DEF Reset, Start, Forget, Numbers, Active, Identities, ghosts
<1>16. CASE ClearFails
  BY <1>16 DEF ClearFails, Start, Forget, Numbers, Active, Identities, ghosts
<1>17. CASE ResetRuntime
  BY <1>17 DEF ResetRuntime, Start, Forget, Numbers, Active, Identities, ghosts
<1>18. CASE ResetRecord
  BY <1>18 DEF ResetRecord, Start, Forget, Numbers, Active, Identities, ghosts
<1>19. CASE Restart
  BY <1>19 DEF Restart, Start, Forget, Numbers, Active, Identities, ghosts
<1>20. CASE Crash
  BY <1>20 DEF Crash, Start, Forget, Numbers, Active, Identities, ghosts
<1>21. CASE \E i \in Identities : Acknowledge(i)
  <2> PICK i \in Identities : Acknowledge(i)
    BY <1>21
  <2>1. \E receipt : receipts' = [receipts EXCEPT ![i] = receipt]
    BY DEF Acknowledge, SetReceipt
  <2>2. receipts' \in [Identities -> {receipts'[j] : j \in Identities}]
    BY <2>1, Updated
  <2> QED  BY <2>2 DEF Acknowledge, Numbers, Active, ghosts
<1>22. CASE \E i \in Identities : Clear(i)
  <2> PICK i \in Identities : Clear(i)
    BY <1>22
  <2>1. \E receipt : receipts' = [receipts EXCEPT ![i] = receipt]
    BY DEF Clear, SetReceipt
  <2>2. receipts' \in [Identities -> {receipts'[j] : j \in Identities}]
    BY <2>1, Updated
  <2> QED  BY <2>2 DEF Clear, Numbers, Active, ghosts
<1> QED  BY <1>1, <1>2, <1>3, <1>4, <1>5, <1>6, <1>7, <1>8, <1>9,
            <1>10, <1>11, <1>12, <1>13, <1>14, <1>15, <1>16, <1>17, <1>18,
            <1>19, <1>20, <1>21, <1>22 DEF Next

LEMMA NextFailClosed ==
    ASSUME Numbers, FailClosed, [Next]_vars
    PROVE  FailClosed'
<1>1. CASE UNCHANGED vars
  BY <1>1 DEF vars, FailClosed, Active, ghosts, Doubtful, In
<1>2. CASE \E request \in Requests : Begin(request)
  <2>1. Doubtful = {} /\ acks' = acks \cup In({"interrupted", "completed"})
    BY <1>2 DEF Begin, Resolvable
  <2>2. acks' \subseteq In({"interrupted", "completed", "cleared"})'
    BY <2>1, <1>2, StatesOf DEF Begin, FailClosed, In, ghosts
  <2> QED  BY <2>1, <2>2, <1>2 DEF Begin, Start, FailClosed, Active, ghosts, Doubtful, In
<1>3. CASE \E request \in Requests : FreshStart(request)
  BY <1>3 DEF FreshStart, Forget, FailClosed, Active, ghosts, Doubtful, In
<1>4. CASE Open
  <2>1. acks' \subseteq In({"interrupted", "completed", "cleared"})'
    BY <1>4, StatesOf DEF Open, FailClosed, In
  <2> QED  BY <2>1, <1>4 DEF Open, FailClosed, Active, ghosts, Doubtful, In
<1>5. CASE Claim
  <2>1. run \in Identities /\ doubt # "unknown"
    BY <1>5 DEF Claim, Numbers, FailClosed, Active
  <2>2. CASE receipts[run].state = "none"
    <3> DEFINE receipt == [state |-> "torn", prior |-> conv, candidate |-> 0]
    <3>1. receipts' = [receipts EXCEPT ![run] = receipt] /\ receipt.state = "torn"
      BY <1>5, <2>2 DEF Claim
    <3> HIDE DEF receipt
    <3>2. receipts'[run].state = "torn" /\ \A j \in Identities \ {run} : receipts'[j] = receipts[j]
      BY <2>1, <3>1, Updated
    <3>3. acks' \subseteq In({"interrupted", "completed", "cleared"})'
      BY <2>2, <3>2, <1>5 DEF Claim, FailClosed, In
    <3> QED  BY <2>1, <2>2, <3>2, <3>3, <1>5 DEF Claim, FailClosed, Active, ghosts
  <2>3. CASE receipts[run].state # "none"
    BY <2>1, <2>3, <1>5 DEF Claim, FailClosed, Active, ghosts, In
  <2> QED  BY <2>2, <2>3
<1>6. CASE Mark
  <2>1. run \in Identities /\ phase = "claimed"
    BY <1>6 DEF Mark, Numbers, Active
  <2>2. \/ receipts' = receipts
        \/ \E candidate : receipts' = SetReceipt(run, "pending", candidate)
    BY <1>6 DEF Mark
  <2>3. \A j \in Identities \ {run} : receipts'[j] = receipts[j]
    BY <2>1, <2>2, StateSet
  <2>4. receipts' = receipts \/ receipts'[run].state = "pending"
    BY <2>1, <2>2, StateSet
  <2>5. acks' \subseteq In({"interrupted", "completed", "cleared"})'
    BY <2>1, <2>3, <2>4, <1>6, StatesOf DEF Mark, FailClosed, In
  <2>6. receipts'[run].state = "pending"
    <3>1. receipts' = SetReceipt(run, "pending", 0)
      BY <1>6 DEF Mark
    <3> QED  BY <2>1, <3>1, StateSet
  <2> QED  BY <2>5, <2>6, <1>6 DEF Mark, FailClosed, Active
<1>7. CASE StartFails
  BY <1>7 DEF StartFails, Forget, FailClosed, Active, ghosts, Doubtful, In
<1>8. CASE Publish
  <2>1. run \in Identities /\ phase = "running"
    BY <1>8 DEF Publish, Numbers, Active
  <2>2. \/ receipts' = receipts
        \/ \E candidate : receipts' = SetReceipt(run, "interrupted", candidate)
    BY <1>8 DEF Publish
  <2>3. \A j \in Identities \ {run} : receipts'[j] = receipts[j]
    BY <2>1, <2>2, StateSet
  <2>4. receipts' = receipts \/ receipts'[run].state = "interrupted"
    BY <2>1, <2>2, StateSet
  <2>5. acks' \subseteq In({"interrupted", "completed", "cleared"})'
    BY <2>1, <2>3, <2>4, <1>8, StatesOf DEF Publish, FailClosed, In
  <2>6. seen' # 0
    BY <1>8 DEF Publish, Session, Numbers, Active
  <2> QED  BY <2>1, <2>4, <2>5, <2>6, <1>8 DEF Publish, FailClosed, Active
<1>9. CASE Complete
  <2>1. run \in Identities /\ phase = "running"
    BY <1>9 DEF Complete, Numbers, Active
  <2>2. \/ receipts' = receipts
        \/ \E candidate : receipts' = SetReceipt(run, "completed", candidate)
    BY <1>9 DEF Complete
  <2>3. \A j \in Identities \ {run} : receipts'[j] = receipts[j]
    BY <2>1, <2>2, StateSet
  <2>4. receipts' = receipts \/ receipts'[run].state = "completed"
    BY <2>1, <2>2, StateSet
  <2>x. \/ receipts' = receipts /\ acks' = acks
        \/ receipts'[run].state = "completed" /\ acks' = acks \cup {run}
    BY <2>1, <1>9, StateSet DEF Complete
  <2>5. acks' \subseteq In({"interrupted", "completed", "cleared"})'
    BY <2>1, <2>3, <2>x, <1>9 DEF Complete, FailClosed, In
  <2> QED  BY <2>1, <2>5, <1>9 DEF Complete, Reach, FailClosed, Active
<1>10. CASE Interrupt
  <2>1. run \in Identities /\ phase = "running"
    BY <1>10 DEF Interrupt, Numbers, Active
  <2>2. \/ receipts' = receipts
        \/ \E candidate : receipts' = SetReceipt(run, "interrupted", candidate)
    BY <1>10 DEF Interrupt
  <2>3. \A j \in Identities \ {run} : receipts'[j] = receipts[j]
    BY <2>1, <2>2, StateSet
  <2>4. receipts' = receipts \/ receipts'[run].state = "interrupted"
    BY <2>1, <2>2, StateSet
  <2>5. acks' \subseteq In({"interrupted", "completed", "cleared"})'
    BY <2>1, <2>3, <2>4, <1>10, StatesOf DEF Interrupt, FailClosed, In
  <2> QED  BY <2>1, <2>5, <1>10 DEF Interrupt, Reach, FailClosed, Active
<1>11. CASE EndUnknown
  <2>1. run \in Identities /\ phase = "running" /\ receipts[run].state = "pending"
    BY <1>11 DEF EndUnknown, Numbers, FailClosed, Active
  <2>2. \/ receipts' = receipts
        \/ \E candidate : receipts' = SetReceipt(run, "unknown", candidate)
    BY <1>11 DEF EndUnknown
  <2>3. \A j \in Identities \ {run} : receipts'[j] = receipts[j]
    BY <2>1, <2>2, StateSet
  <2>4. receipts' = receipts \/ receipts'[run].state = "unknown"
    BY <2>1, <2>2, StateSet
  <2>5. acks' \subseteq In({"interrupted", "completed", "cleared"})'
    BY <2>1, <2>3, <2>4, <1>11, StatesOf DEF EndUnknown, FailClosed, In
  <2>6. run \in Doubtful'
    BY <2>1, <2>4 DEF Doubtful, In
  <2> QED  BY <2>1, <2>5, <2>6, <1>11 DEF EndUnknown, FailClosed, Active
<1>12. CASE Save
  BY <1>12 DEF Save, Forget, FailClosed, Active, ghosts, Doubtful, In
<1>13. CASE SaveFails
  BY <1>13 DEF SaveFails, Forget, FailClosed, Active, ghosts, Doubtful, In
<1>14. CASE AckEnds
  BY <1>14 DEF AckEnds, Forget, FailClosed, Active, ghosts, Doubtful, In
<1>15. CASE Reset
  BY <1>15 DEF Reset, Forget, FailClosed, Active, ghosts, Doubtful, In
<1>16. CASE ClearFails
  BY <1>16 DEF ClearFails, Forget, FailClosed, Active, ghosts, Doubtful, In
<1>17. CASE ResetRuntime
  BY <1>17 DEF ResetRuntime, Forget, FailClosed, Active, ghosts, Doubtful, In
<1>18. CASE ResetRecord
  BY <1>18 DEF ResetRecord, Forget, FailClosed, Active, ghosts, Doubtful, In
<1>19. CASE Restart
  BY <1>19, StatesOf DEF Restart, Start, Forget, FailClosed, Active, ghosts, Doubtful, In
<1>20. CASE Crash
  <2>1. phase = "running" /\ receipts[run].state = "pending" => run \in Doubtful
    BY <1>20 DEF Numbers, Active, Doubtful, In
  <2>2. UNCHANGED receipts /\ acks' = {} /\ phase' = "closed"
    BY <1>20 DEF Crash
  <2>3. Doubtful' = Doubtful
    BY <2>2 DEF Doubtful, In
  <2>4. doubt' = "unknown" => Doubtful # {}
    BY <2>1, <1>20 DEF Crash, FailClosed
  <2> QED  BY <2>2, <2>3, <2>4 DEF FailClosed, Active
<1>21. CASE \E i \in Identities : Acknowledge(i)
  <2> PICK i \in Identities : Acknowledge(i)
    BY <1>21
  <2>1. \A j \in Identities \ {i} : receipts'[j] = receipts[j]
    BY Updated DEF Acknowledge
  <2>2. i \notin Doubtful
    BY StatesOf DEF Acknowledge, FailClosed
  <2>3. Doubtful # {} => Doubtful' # {}
    BY <2>1, <2>2 DEF Doubtful, In
  <2>4. acks' \subseteq In({"interrupted", "completed", "cleared"})'
    BY <2>1 DEF Acknowledge, FailClosed, In
  <2> QED  BY <2>3, <2>4 DEF Acknowledge, FailClosed, Active, ghosts
<1>22. CASE \E i \in Identities : Clear(i)
  <2> PICK i \in Identities : Clear(i)
    BY <1>22
  <2>1. \A j \in Identities \ {i} : receipts'[j] = receipts[j]
    BY Updated DEF Clear, SetReceipt
  <2>2. receipts[i].state = "torn" \/ receipts'[i].state = "cleared"
    BY Updated DEF Clear, SetReceipt
  <2>3. acks' \subseteq In({"interrupted", "completed", "cleared"})'
    BY <2>1, <2>2 DEF Clear, FailClosed, In
  <2>4. doubt' = "unknown" => doubt = "unknown" /\ Doubtful # {i}
    BY DEF Clear
  <2>5. Doubtful # {} /\ Doubtful # {i} => Doubtful' # {}
    BY <2>1 DEF Doubtful, In
  <2> QED  BY <2>3, <2>4, <2>5 DEF Clear, FailClosed, Active
<1> QED  BY <1>1, <1>2, <1>3, <1>4, <1>5, <1>6, <1>7, <1>8, <1>9,
            <1>10, <1>11, <1>12, <1>13, <1>14, <1>15, <1>16, <1>17, <1>18,
            <1>19, <1>20, <1>21, <1>22 DEF Next

LEMMA NextUnsaved ==
    ASSUME Numbers, FailClosed, Unsaved, [Next]_vars
    PROVE  Unsaved'
<1>1. CASE UNCHANGED vars
  BY <1>1 DEF vars, Unsaved, Active, ghosts, In, Forget
<1>2. CASE \E request \in Requests : Begin(request)
  <2> PICK request \in Requests : Begin(request)
    BY <1>2
  <2>1. request \notin unsaved
    BY DEF Begin, Resolvable, Unsaved
  <2>2. run'[2] = request /\ UNCHANGED <<receipts, unsaved>> /\ phase' = "starting"
    BY DEF Begin, Start, ghosts
  <2> QED  BY <2>1, <2>2 DEF Unsaved, Active, In
<1>3. CASE \E request \in Requests : FreshStart(request)
  BY <1>3 DEF FreshStart, Unsaved, Active, ghosts, In, Forget
<1>4. CASE Open
  BY <1>4 DEF Open, Unsaved, Active, ghosts, In, Forget
<1>5. CASE Claim
  <2>1. run \in Identities
    BY <1>5 DEF Claim, Numbers, Active
  <2> DEFINE receipt == [state |-> "torn", prior |-> conv, candidate |-> 0]
  <2>2. \/ receipts' = receipts
        \/ receipts[run].state = "none" /\ receipts' = [receipts EXCEPT ![run] = receipt]
    BY <1>5 DEF Claim
  <2> HIDE DEF receipt
  <2>3. \A j \in Identities : receipts'[j] = receipts[j] \/ receipts[j].state = "none"
    BY <2>1, <2>2, Updated
  <2>4. \A i \in In({"completed"}) : i \in In({"completed"})'
    BY <2>3 DEF In
  <2> QED  BY <2>4, <1>5 DEF Claim, Unsaved, Active, ghosts
<1>6. CASE Mark
  <2>1. run \in Identities /\ receipts[run].state # "completed"
    BY <1>6 DEF Mark, Numbers, FailClosed, Active
  <2>2. receipts' = receipts \/ \E state, candidate : receipts' = SetReceipt(run, state, candidate)
    BY <1>6 DEF Mark
  <2>3. \A j \in Identities \ {run} : receipts'[j] = receipts[j]
    BY <2>1, <2>2, StateSet
  <2>4. \A i \in In({"completed"}) : i \in In({"completed"})'
    BY <2>1, <2>3 DEF In
  <2> QED  BY <2>4, <1>6 DEF Mark, Reach, Unsaved, Active
<1>7. CASE StartFails
  BY <1>7 DEF StartFails, Unsaved, Active, ghosts, In, Forget
<1>8. CASE Publish
  <2>1. run \in Identities /\ receipts[run].state # "completed"
    BY <1>8 DEF Publish, Numbers, FailClosed, Active
  <2>2. receipts' = receipts \/ \E state, candidate : receipts' = SetReceipt(run, state, candidate)
    BY <1>8 DEF Publish
  <2>3. \A j \in Identities \ {run} : receipts'[j] = receipts[j]
    BY <2>1, <2>2, StateSet
  <2>4. \A i \in In({"completed"}) : i \in In({"completed"})'
    BY <2>1, <2>3 DEF In
  <2> QED  BY <2>4, <1>8 DEF Publish, Reach, Unsaved, Active
<1>9. CASE Complete
  <2>1. run \in Identities /\ receipts[run].state # "completed"
    BY <1>9 DEF Complete, Numbers, FailClosed, Active
  <2>2. receipts' = receipts \/ \E state, candidate : receipts' = SetReceipt(run, state, candidate)
    BY <1>9 DEF Complete
  <2>3. \A j \in Identities \ {run} : receipts'[j] = receipts[j]
    BY <2>1, <2>2, StateSet
  <2>4. \A i \in In({"completed"}) : i \in In({"completed"})'
    BY <2>1, <2>3 DEF In
  <2>5. \/ unsaved' = unsaved
        \/ unsaved' = unsaved \cup {run[2]} /\ run \in In({"completed"})'
    BY <2>1, <1>9, StateSet DEF Complete, In
  <2> QED  BY <2>4, <2>5, <1>9 DEF Complete, Unsaved, Active
<1>10. CASE Interrupt
  <2>1. run \in Identities /\ receipts[run].state # "completed"
    BY <1>10 DEF Interrupt, Numbers, FailClosed, Active
  <2>2. receipts' = receipts \/ \E state, candidate : receipts' = SetReceipt(run, state, candidate)
    BY <1>10 DEF Interrupt
  <2>3. \A j \in Identities \ {run} : receipts'[j] = receipts[j]
    BY <2>1, <2>2, StateSet
  <2>4. \A i \in In({"completed"}) : i \in In({"completed"})'
    BY <2>1, <2>3 DEF In
  <2> QED  BY <2>4, <1>10 DEF Interrupt, Reach, Unsaved, Active
<1>11. CASE EndUnknown
  <2>1. run \in Identities /\ receipts[run].state # "completed"
    BY <1>11 DEF EndUnknown, Numbers, FailClosed, Active
  <2>2. receipts' = receipts \/ \E state, candidate : receipts' = SetReceipt(run, state, candidate)
    BY <1>11 DEF EndUnknown
  <2>3. \A j \in Identities \ {run} : receipts'[j] = receipts[j]
    BY <2>1, <2>2, StateSet
  <2>4. \A i \in In({"completed"}) : i \in In({"completed"})'
    BY <2>1, <2>3 DEF In
  <2> QED  BY <2>4, <1>11 DEF EndUnknown, Reach, Unsaved, Active
<1>12. CASE Save
  BY <1>12 DEF Save, Unsaved, Active, ghosts, In, Forget
<1>13. CASE SaveFails
  BY <1>13 DEF SaveFails, Unsaved, Active, ghosts, In, Forget
<1>14. CASE AckEnds
  BY <1>14 DEF AckEnds, Unsaved, Active, ghosts, In, Forget
<1>15. CASE Reset
  BY <1>15 DEF Reset, Unsaved, Active, ghosts, In, Forget
<1>16. CASE ClearFails
  BY <1>16 DEF ClearFails, Unsaved, Active, ghosts, In, Forget
<1>17. CASE ResetRuntime
  BY <1>17 DEF ResetRuntime, Unsaved, Active, ghosts, In, Forget
<1>18. CASE ResetRecord
  BY <1>18 DEF ResetRecord, Unsaved, Active, ghosts, In, Forget
<1>19. CASE Restart
  <2>1. In({"completed"}) = {}
    BY <1>19, StatesOf DEF Restart
  <2>2. unsaved = {}
    BY <2>1 DEF Unsaved
  <2> QED  BY <2>2, <1>19 DEF Restart, Start, Unsaved, Active
<1>20. CASE Crash
  BY <1>20 DEF Crash, Unsaved, Active, ghosts, In, Forget
<1>21. CASE \E i \in Identities : Acknowledge(i)
  <2> PICK i \in Identities : Acknowledge(i)
    BY <1>21
  <2> QED  BY DEF Acknowledge, Unsaved, Active, ghosts
<1>22. CASE \E i \in Identities : Clear(i)
  <2> PICK i \in Identities : Clear(i)
    BY <1>22
  <2>1. \A j \in Identities \ {i} : receipts'[j] = receipts[j]
    BY Updated DEF Clear, SetReceipt
  <2>2. \A j \in In({"completed"}) : j # i => j \in In({"completed"})'
    BY <2>1 DEF In
  <2>3. unsaved' = unsaved \ {i[2]} /\ UNCHANGED <<run, phase>>
    BY DEF Clear
  <2> QED  BY <2>2, <2>3 DEF Unsaved, Active
<1> QED  BY <1>1, <1>2, <1>3, <1>4, <1>5, <1>6, <1>7, <1>8, <1>9,
            <1>10, <1>11, <1>12, <1>13, <1>14, <1>15, <1>16, <1>17, <1>18,
            <1>19, <1>20, <1>21, <1>22 DEF Next

-----------------------------------------------------------------------------
LEMMA Invariance == Spec => []IInv
<1>1. Init => IInv
  <2> SUFFICES ASSUME Init PROVE IInv
    OBVIOUS
  <2>1. \A i \in Identities : receipts[i].state = "none"
    BY DEF Init, NoReceipt
  <2>2. receipts \in [Identities -> {receipts[i] : i \in Identities}]
    BY DEF Init
  <2> QED  BY <2>1, <2>2 DEF Init, IInv, Numbers, FailClosed, Unsaved, Active
<1>2. IInv /\ [Next]_vars => IInv'
  BY NextNumbers, NextFailClosed, NextUnsaved DEF IInv
<1> QED  BY <1>1, <1>2, PTL DEF Spec

\* After a run that ended without a boundary, in this process or by its death,
\* no run begins until a reset has cleared its receipt.
THEOREM UnknownStops == Spec => UnknownRunsStop
<1>1. IInv /\ Begins => doubt # "unknown"
  BY DEF IInv, FailClosed, Begins, Active
<1>2. IInv /\ [Next]_vars => [Begins => doubt # "unknown"]_vars
  BY <1>1
<1> QED  BY <1>2, Invariance, PTL DEF Spec, UnknownRunsStop

\* No request whose run completed begins a run before the session record has
\* followed it or a reset has given it up.
THEOREM CompletedAreSaved == Spec => CompletedRequestsAreSaved
<1>1. IInv /\ Begins => run[2] \notin unsaved
  BY DEF IInv, Unsaved, Begins, Active
<1>2. IInv /\ [Next]_vars => [Begins => run[2] \notin unsaved]_vars
  BY <1>1
<1> QED  BY <1>2, Invariance, PTL DEF Spec, CompletedRequestsAreSaved

-----------------------------------------------------------------------------
(* Which conversation a turn continues.                                    *)

Settled == In({"interrupted", "completed"})

\* The last conversation among one and those the settled receipts reached.
Top(c, from) ==
    /\ c = from \/ \E i \in Settled : receipts[i].candidate = c
    /\ from <= c /\ \A i \in Settled : receipts[i].candidate <= c

\* Conversations are numbered as they are opened, so a settled receipt never
\* leads back.
Ordered ==
    /\ saved <= begun /\ conv <= begun
    /\ \A i \in Identities : receipts[i].prior <= begun /\ receipts[i].candidate <= begun
    /\ \A i \in Settled : receipts[i].prior <= receipts[i].candidate

\* An adapter that resumes a conversation resumes the runtime's, and a record
\* is ahead of the runtime only when no receipt would take it further back.
Resumes ==
    /\ adapter # 0 => adapter = conv /\ saved <= conv
    /\ phase \in {"resetting", "recovering", "restarting"} => adapter = 0
    /\ phase = "forgetting" => Unresolved = {} /\ conv = 0 /\ adapter = 0
    /\ phase # "closed" => saved <= conv \/ \A i \in Settled : saved <= receipts[i].candidate
    /\ phase = "acking" => saved = conv
    /\ phase = "closed" => acks = {}
    /\ \A i \in acks : i \in Settled => receipts[i].candidate <= conv

\* The run under way continues the conversation of the runtime, and no
\* receipt is ahead of what it reaches.
Continues ==
    /\ phase \in {"starting", "claimed"} => conv \in threads
    /\ phase \in {"claimed", "running"} => receipts[run].prior = conv
    /\ Active => \A i \in Settled : receipts[i].candidate <= Session
    /\ Active /\ seen # 0 => seen = Session
    /\ phase = "running" /\ run \in Settled => receipts[run].candidate = Session

\* Unless a run is in doubt, the receipts lead from the record and from the
\* runtime to a conversation the user may continue.
Leads ==
    Doubtful = {} =>
        \A c \in Conversations :
            /\ Top(c, saved) => c \in threads
            /\ phase # "closed" /\ Top(c, conv) => c \in threads

Found == TypeOK /\ Ordered /\ Resumes /\ Continues /\ Leads

-----------------------------------------------------------------------------
(* Following the receipts.                                                 *)

\* A set of numbers that is not empty has a least one.
LEMMA HasLeast ==
    ASSUME NEW ns \in SUBSET Nat, ns # {}
    PROVE  \E n \in ns : \A other \in ns : n <= other
<1> DEFINE R == OpToRel(<, Nat)
<1>1. IsWellFoundedOn(R, Nat)
  BY NatLessThanWellFounded
<1>2. \A x, y \in Nat : <<x, y>> \in R <=> x < y
  BY DEF OpToRel
<1> HIDE DEF R
<1>3. PICK n \in ns : \A other \in ns : ~(<<other, n>> \in R)
  BY <1>1, WFMin
<1>4. ASSUME NEW other \in ns PROVE n <= other
  <2>1. n \in Nat /\ other \in Nat /\ ~(<<other, n>> \in R)
    BY <1>3
  <2>2. ~(other < n)
    BY <1>2, <2>1
  <2> QED  BY <2>1, <2>2
<1> QED  BY <1>4

\* A set of numbers with 0 and every successor of its members has them all.
LEMMA HasAll ==
    ASSUME NEW ns \in SUBSET Nat, 0 \in ns, \A n \in ns : n + 1 \in ns
    PROVE  \A n \in Nat : n \in ns
<1> SUFFICES ASSUME Nat \ ns # {} PROVE FALSE
  OBVIOUS
<1>1. PICK n \in Nat \ ns : \A other \in Nat \ ns : n <= other
  BY HasLeast
<1>2. n - 1 \in Nat /\ ~(n <= n - 1)
  BY <1>1
<1>3. n - 1 \in ns
  BY <1>1, <1>2
<1>4. (n - 1) + 1 \in ns
  BY <1>3
<1> QED  BY <1>1, <1>4

LEMMA SettledFinite == Cardinality(Settled) \in Nat
<1>1. IsFiniteSet(1..MaxRuns) /\ IsFiniteSet(Requests)
  BY FS_Interval, NamesAssumption
<1>2. IsFiniteSet(Identities)
  BY <1>1, FS_Product DEF Identities
<1>3. IsFiniteSet(Settled)
  BY <1>2, FS_Subset DEF Settled, In
<1> QED  BY <1>3, FS_CardinalityType

\* The chain can be followed for any number of steps.
LEMMA ChainExists ==
    ASSUME NEW start
    PROVE  \A n \in Nat : \E g :
               g = [k \in 0..n |-> IF k = 0 THEN start ELSE Extend(g[k - 1])]
<1> DEFINE Chained(g, n) == g = [k \in 0..n |-> IF k = 0 THEN start ELSE Extend(g[k - 1])]
           ns == {n \in Nat : \E g : Chained(g, n)}
<1>1. 0 \in ns
  <2> DEFINE g == [k \in 0..0 |-> start]
  <2>1. g = [k \in 0..0 |-> IF k = 0 THEN start ELSE Extend(g[k - 1])]
    <3>1. \A k \in 0..0 : k = 0
      OBVIOUS
    <3> QED  BY <3>1
  <2> HIDE DEF g
  <2>2. Chained(g, 0)
    BY <2>1
  <2> QED  BY <2>2
<1>2. ASSUME NEW n \in ns PROVE n + 1 \in ns
  <2>1. PICK g : Chained(g, n)
    OBVIOUS
  <2> DEFINE h == [k \in 0..n + 1 |-> IF k <= n THEN g[k] ELSE Extend(g[n])]
  <2>2. /\ n \in Nat /\ n + 1 \in Nat
        /\ DOMAIN h = 0..n + 1 /\ h = [k \in 0..n + 1 |-> h[k]]
        /\ \A k \in 0..n : h[k] = g[k]
        /\ h[n + 1] = Extend(g[n])
    OBVIOUS
  <2> HIDE DEF h
  <2>3. \A k \in 0..n : g[k] = IF k = 0 THEN start ELSE Extend(g[k - 1])
    BY <2>1
  <2>4. ASSUME NEW k \in 0..n + 1
        PROVE  h[k] = IF k = 0 THEN start ELSE Extend(h[k - 1])
    <3>1. CASE k = n + 1
      <4>1. k # 0 /\ k - 1 = n /\ n \in 0..n
        BY <2>2, <3>1
      <4>2. h[k - 1] = g[n]
        BY <2>2, <4>1
      <4> QED  BY <2>2, <3>1, <4>1, <4>2
    <3>2. CASE k # n + 1
      <4>1. k \in 0..n /\ (k # 0 => k - 1 \in 0..n)
        BY <2>2, <3>2
      <4>2. h[k] = g[k] /\ (k # 0 => h[k - 1] = g[k - 1])
        BY <2>2, <4>1
      <4> QED  BY <2>3, <4>1, <4>2
    <3> QED  BY <3>1, <3>2
  <2>5. Chained(h, n + 1)
    BY <2>2, <2>4
  <2> QED  BY <2>2, <2>5
<1> HIDE DEF ns
<1>3. \A n \in Nat : n \in ns
  BY <1>1, <1>2, HasAll DEF ns
<1> QED  BY <1>3 DEF ns

\* What holds of a chain after every link: its last conversation is one that
\* it confirmed, and none it confirmed or has dealt with is later.
Sound(chain, from) ==
    /\ chain.conv \in Nat /\ from <= chain.conv
    /\ chain.conv = from \/ \E i \in Settled : receipts[i].candidate = chain.conv
    /\ \A c \in chain.confirmed : c \in Nat /\ c <= chain.conv
    /\ chain.left \subseteq Settled
    /\ \A i \in Settled \ chain.left : receipts[i].candidate <= chain.conv

LEMMA ExtendIsSound ==
    ASSUME TypeOK, Ordered, NEW from \in Nat, NEW chain, Sound(chain, from)
    PROVE  Sound(Extend(chain), from)
<1> DEFINE next == {i \in chain.left : Links(chain, i)}
<1>1. CASE next = {}
  BY <1>1 DEF Extend
<1>2. CASE next # {}
  <2> DEFINE First(i) == \A j \in next : i[1] <= j[1]
             i == CHOOSE i \in next : First(i)
  <2>1. next \subseteq Identities /\ \A j \in next : j[1] \in Nat
    BY DEF Sound, Settled, In, Identities
  <2>2. \E j \in next : First(j)
    <3>1. PICK n \in {j[1] : j \in next} : \A other \in {j[1] : j \in next} : n <= other
      <4>1. {j[1] : j \in next} \in SUBSET Nat /\ {j[1] : j \in next} # {}
        BY <1>2, <2>1
      <4> HIDE DEF next
      <4> QED  BY <4>1, HasLeast
    <3>2. PICK j \in next : n = j[1]
      BY <3>1
    <3> QED  BY <3>1, <3>2
  <2>3. Extend(chain) = Linked(chain, i)
    BY <1>2 DEF Extend
  <2> HIDE DEF First
  <2>4. i \in next
    BY <2>2, Zenon
  <2> HIDE DEF i
  <2>5. i \in chain.left /\ i \in Settled /\ i \in Identities /\ Links(chain, i)
    BY <2>1, <2>4 DEF Sound
  <2>6. /\ receipts[i].prior \in Nat /\ receipts[i].candidate \in Nat
        /\ receipts[i].prior <= receipts[i].candidate
    BY <2>5 DEF TypeOK, Receipts, Conversations, Ordered
  <2> DEFINE l == Linked(chain, i)
  <2>7. CASE receipts[i].candidate \in chain.confirmed
    <3>1. /\ l.conv = chain.conv /\ l.left = chain.left \ {i}
          /\ l.confirmed = chain.confirmed \cup {receipts[i].prior, receipts[i].candidate}
      BY <2>7 DEF Linked
    <3> HIDE DEF l
    <3>2. receipts[i].candidate <= chain.conv /\ receipts[i].prior <= chain.conv
      BY <2>6, <2>7 DEF Sound
    <3> QED  BY <2>3, <2>6, <3>1, <3>2 DEF Sound, l
  <2>8. CASE receipts[i].candidate \notin chain.confirmed
    <3>1. /\ l.conv = receipts[i].candidate /\ l.left = chain.left \ {i}
          /\ l.confirmed = chain.confirmed \cup {receipts[i].prior, receipts[i].candidate}
      BY <2>8 DEF Linked
    <3> HIDE DEF l
    <3>2. receipts[i].prior = chain.conv
      BY <2>5, <2>8 DEF Links
    <3>3. chain.conv <= l.conv /\ l.conv \in Nat
      BY <2>6, <3>1, <3>2
    <3>4. \A c \in l.confirmed : c \in Nat /\ c <= l.conv
      BY <2>6, <3>1, <3>2, <3>3 DEF Sound
    <3>5. \A j \in Settled \ l.left : receipts[j].candidate <= l.conv
      <4>1. \A j \in Settled : receipts[j].candidate \in Nat
        BY DEF TypeOK, Receipts, Conversations, Settled, In
      <4> QED  BY <2>6, <3>1, <3>3, <4>1 DEF Sound
    <3>6. from <= l.conv
      BY <3>3 DEF Sound
    <3> QED  BY <2>3, <2>5, <3>1, <3>3, <3>4, <3>5, <3>6 DEF Sound, l
  <2> QED  BY <2>7, <2>8
<1> QED  BY <1>1, <1>2

\* Receipts that can all be followed lead to the last conversation.
LEMMA ChainReachesTop ==
    ASSUME TypeOK, Ordered, NEW from \in Conversations, Chain(from).left = {}
    PROVE  Chain(from).conv \in Conversations /\ Top(Chain(from).conv, from)
<1> DEFINE n == Cardinality(Settled)
           start == [conv |-> from, confirmed |-> {from}, left |-> Settled]
           Chained(g) == g = [k \in 0..n |-> IF k = 0 THEN start ELSE Extend(g[k - 1])]
           chain == CHOOSE g : Chained(g)
           ks == {k \in Nat : k <= n => Sound(chain[k], from)}
<1>1. n \in Nat /\ from \in Nat
  BY SettledFinite DEF Conversations
<1>2. Chain(from) = chain[n]
  BY DEF Chain, Settled
<1>3. Sound(start, from)
  BY <1>1 DEF Sound
<1> HIDE DEF n, start
<1>4. \E g : Chained(g)
  <2>1. \A m \in Nat : \E g :
            g = [k \in 0..m |-> IF k = 0 THEN start ELSE Extend(g[k - 1])]
    BY ChainExists
  <2> QED  BY <1>1, <2>1, Zenon
<1> HIDE DEF Chained
<1>5. Chained(chain)
  BY <1>4, Zenon
<1> HIDE DEF chain
<1>6. /\ chain[0] = start
      /\ \A k \in Nat : k + 1 <= n => chain[k + 1] = Extend(chain[k])
  <2>1. \A k \in 0..n : chain[k] = IF k = 0 THEN start ELSE Extend(chain[k - 1])
    BY <1>5 DEF Chained
  <2>2. 0 \in 0..n
    BY <1>1
  <2>3. ASSUME NEW k \in Nat, k + 1 <= n PROVE chain[k + 1] = Extend(chain[k])
    <3>1. k + 1 \in 0..n /\ k + 1 # 0 /\ (k + 1) - 1 = k
      BY <1>1, <2>3
    <3> QED  BY <2>1, <3>1
  <2> QED  BY <2>1, <2>2, <2>3
<1>7. 0 \in ks
  BY <1>3, <1>6
<1>8. ASSUME NEW k \in ks PROVE k + 1 \in ks
  <2>1. k \in Nat /\ k + 1 \in Nat /\ (k + 1 <= n => k <= n)
    BY <1>1
  <2>2. k + 1 <= n => Sound(chain[k + 1], from)
    BY <1>1, <1>6, <2>1, ExtendIsSound
  <2> QED  BY <2>1, <2>2
<1>9. Sound(chain[n], from)
  <2> HIDE DEF ks
  <2>1. \A k \in Nat : k \in ks
    BY <1>7, <1>8, HasAll DEF ks
  <2> QED  BY <1>1, <2>1 DEF ks
<1>10. Top(Chain(from).conv, from)
  BY <1>2, <1>9 DEF Sound, Top
<1>11. \A i \in Settled : receipts[i].candidate \in Conversations
  BY DEF TypeOK, Receipts, Settled, In
<1> QED  BY <1>10, <1>11 DEF Top

-----------------------------------------------------------------------------
(* The types.                                                              *)

\* One receipt that is written, and what the others say.
LEMMA Written ==
    ASSUME TypeOK, NEW i \in Identities, NEW receipt \in Receipts,
           receipts' = [receipts EXCEPT ![i] = receipt]
    PROVE  /\ receipts' \in [Identities -> Receipts]
           /\ receipts'[i] = receipt
           /\ \A j \in Identities \ {i} : receipts'[j] = receipts[j]
           /\ Settled' = IF receipt.state \in {"interrupted", "completed"}
                         THEN Settled \cup {i} ELSE Settled \ {i}
           /\ receipt.state \in {"torn", "pending", "unknown"} => i \in Doubtful'
           /\ receipt.state \notin {"torn", "pending", "unknown"} => Doubtful' = Doubtful \ {i}
<1>1. receipts \in [Identities -> Receipts]
  BY DEF TypeOK
<1>2. /\ receipts' \in [Identities -> Receipts] /\ receipts'[i] = receipt
      /\ \A j \in Identities \ {i} : receipts'[j] = receipts[j]
  BY <1>1
<1>3. Settled' = IF receipt.state \in {"interrupted", "completed"}
                 THEN Settled \cup {i} ELSE Settled \ {i}
  BY <1>2 DEF Settled, In
<1>4. /\ receipt.state \in {"torn", "pending", "unknown"} => i \in Doubtful'
      /\ receipt.state \notin {"torn", "pending", "unknown"} => Doubtful' = Doubtful \ {i}
  BY <1>2 DEF Doubtful, In
<1> QED  BY <1>2, <1>3, <1>4

\* What SetReceipt writes.
LEMMA SetIsWritten ==
    ASSUME TypeOK, NEW i \in Identities, NEW state \in States, NEW c \in Conversations,
           receipts' = SetReceipt(i, state, c)
    PROVE  \E receipt \in Receipts :
               /\ receipts' = [receipts EXCEPT ![i] = receipt]
               /\ receipt.state = state /\ receipt.candidate = c
               /\ receipt.prior = receipts[i].prior
<1> DEFINE receipt == [state |-> state, prior |-> receipts[i].prior, candidate |-> c]
<1>1. receipts[i].prior \in Conversations
  BY DEF TypeOK, Receipts
<1>2. receipt \in Receipts /\ receipts' = [receipts EXCEPT ![i] = receipt]
  BY <1>1 DEF Receipts, SetReceipt
<1>3. receipt.state = state /\ receipt.candidate = c /\ receipt.prior = receipts[i].prior
  OBVIOUS
<1> HIDE DEF receipt
<1> QED  BY <1>2, <1>3

LEMMA SessionType ==
    ASSUME TypeOK
    PROVE  Session \in Conversations /\ begun \in Conversations
BY DEF TypeOK, Session, Conversations

LEMMA EmptyReceipt == NoReceipt \in Receipts /\ NoReceipt.state = "none"
BY DEF NoReceipt, Receipts, States, Conversations

\* Every receipt keeps its type, whoever writes one.
LEMMA NextReceipts ==
    ASSUME TypeOK, Numbers, [Next]_vars
    PROVE  receipts' \in [Identities -> Receipts]
<1>1. receipts \in [Identities -> Receipts] /\ conv \in Conversations /\ adapter \in Conversations
      /\ seen \in Conversations /\ 0 \in Conversations
  BY DEF TypeOK, Conversations
<1>2. CASE UNCHANGED receipts
  BY <1>1, <1>2
<1>3. ASSUME NEW i \in Identities, NEW state \in States, NEW c \in Conversations,
             receipts' = SetReceipt(i, state, c)
      PROVE  receipts' \in [Identities -> Receipts]
  <2>1. PICK receipt \in Receipts : receipts' = [receipts EXCEPT ![i] = receipt]
    BY <1>3, SetIsWritten
  <2> QED  BY <2>1, Written
<1>4. CASE Claim
  <2>1. run \in Identities
    BY <1>4 DEF Claim, Numbers, Active
  <2> DEFINE receipt == [state |-> "torn", prior |-> conv, candidate |-> 0]
  <2>2. receipt \in Receipts
    BY <1>1 DEF Receipts, States
  <2>3. UNCHANGED receipts \/ receipts' = [receipts EXCEPT ![run] = receipt]
    BY <1>4 DEF Claim
  <2> HIDE DEF receipt
  <2> QED  BY <2>1, <2>2, <2>3, <1>2, Written
<1>5. CASE Mark
  <2>1. run \in Identities /\ receipts' = SetReceipt(run, "pending", 0)
    BY <1>5 DEF Mark, Numbers, Active
  <2> QED  BY <2>1, <1>1, <1>3 DEF States
<1>6. CASE Publish
  <2>1. /\ run \in Identities
        /\ UNCHANGED receipts \/ receipts' = SetReceipt(run, "interrupted", Session)
    BY <1>6 DEF Publish, Numbers, Active
  <2> QED  BY <2>1, <1>2, <1>3, SessionType DEF States
<1>7. CASE Complete
  <2>1. /\ run \in Identities
        /\ UNCHANGED receipts \/ receipts' = SetReceipt(run, "completed", Session)
    BY <1>7 DEF Complete, Numbers, Active
  <2> QED  BY <2>1, <1>2, <1>3, SessionType DEF States
<1>8. CASE Interrupt
  <2>1. /\ run \in Identities
        /\ \/ UNCHANGED receipts
           \/ receipts' = SetReceipt(run, "interrupted", IF seen # 0 THEN seen ELSE adapter)
    BY <1>8 DEF Interrupt, Numbers, Active
  <2> QED  BY <2>1, <1>1, <1>2, <1>3 DEF States
<1>9. CASE EndUnknown
  <2>1. /\ run \in Identities
        /\ UNCHANGED receipts \/ receipts' = SetReceipt(run, "unknown", 0)
    BY <1>9 DEF EndUnknown, Numbers, Active
  <2> QED  BY <2>1, <1>1, <1>2, <1>3 DEF States
<1>10. CASE \E i \in Identities : Acknowledge(i)
  BY <1>10, EmptyReceipt, Written DEF Acknowledge
<1>11. CASE \E i \in Identities : Clear(i)
  <2>1. PICK i \in Identities : Clear(i)
    BY <1>11
  <2>2. CASE receipts' = [receipts EXCEPT ![i] = NoReceipt]
    BY <2>2, EmptyReceipt, Written
  <2>3. CASE receipts' = SetReceipt(i, "cleared", receipts[i].candidate)
    <3>1. receipts[i].candidate \in Conversations
      BY <1>1 DEF Receipts
    <3> QED  BY <2>3, <3>1, <1>3 DEF States
  <2> QED  BY <2>1, <2>2, <2>3 DEF Clear
<1>12. CASE \/ Open \/ StartFails \/ Save \/ SaveFails \/ AckEnds \/ Reset \/ ClearFails
            \/ ResetRuntime \/ ResetRecord \/ Restart \/ Crash \/ UNCHANGED vars
            \/ \E request \in Requests : Begin(request) \/ FreshStart(request)
  BY <1>2, <1>12
  DEF Open, StartFails, Save, SaveFails, AckEnds, Reset, ClearFails, ResetRuntime, ResetRecord,
      Restart, Crash, vars, Begin, FreshStart
<1> QED  BY <1>4, <1>5, <1>6, <1>7, <1>8, <1>9, <1>10, <1>11, <1>12 DEF Next

\* A run that resumes a conversation along the receipts resumes the last one.
LEMMA BeginResumes ==
    ASSUME TypeOK, Ordered, NEW request, NEW from \in Conversations, Resolvable(from, request)
    PROVE  Chain(from).conv \in Conversations /\ Top(Chain(from).conv, from)
BY ChainReachesTop DEF Resolvable

LEMMA OpenResumes ==
    ASSUME TypeOK, Ordered, Open
    PROVE  /\ conv' \in Conversations
           /\ saved # 0 /\ Resolvable(saved, NoRequest) => Top(conv', saved)
           /\ ~(saved # 0 /\ Resolvable(saved, NoRequest)) => conv' = saved
BY BeginResumes DEF Open, TypeOK

\* Every other variable keeps its type.
LEMMA NextTypeOK ==
    ASSUME TypeOK, Ordered, Numbers, FailClosed, [Next]_vars
    PROVE  TypeOK'
<1>1. receipts' \in [Identities -> Receipts]
  BY NextReceipts
<1>2. Numbers' /\ FailClosed'
  BY NextNumbers, NextFailClosed
<1>3. /\ nextRun' \in 1..MaxRuns + 1 /\ begun' \in 0..MaxRuns
      /\ acks' \subseteq In({"interrupted", "completed", "cleared"})'
      /\ phase' \in {"starting", "claimed", "running"} => run' # NoRun
  BY <1>2, RunAssumption DEF Numbers, FailClosed, Active
<1>4. Session \in Conversations /\ 0 \in Conversations /\ Conversations \subseteq Conversations
      /\ nextRun \in 1..MaxRuns + 1
  BY SessionType DEF Conversations, TypeOK
<1>5. /\ saved' \in Conversations /\ conv' \in Conversations /\ adapter' \in Conversations
      /\ staged' \in BOOLEAN /\ run' \in Identities \cup {NoRun} /\ seen' \in Conversations
      /\ phase' \in Phases /\ threads' \subseteq Conversations
      /\ doubt' \in {"no", "unknown", "discarded"} /\ unsaved' \subseteq Requests
  <2>1. CASE \E request \in Requests : Begin(request)
    <3>1. PICK request \in Requests : Begin(request)
      BY <2>1
    <3>2. conv' \in Conversations
      BY <3>1, BeginResumes DEF Begin, TypeOK
    <3>3. nextRun \in 1..MaxRuns
      BY <3>1 DEF Begin, Numbers
    <3> QED  BY <1>4, <3>1, <3>2, <3>3 DEF Begin, Start, TypeOK, Phases, ghosts, Identities
  <2>2. CASE \E request \in Requests : FreshStart(request)
    <3>1. nextRun \in 1..MaxRuns
      BY <2>2 DEF FreshStart, Numbers
    <3> QED  BY <1>4, <2>2, <3>1 DEF FreshStart, TypeOK, Phases, ghosts, Identities
  <2>3. CASE Open
    <3>1. phase' \in Phases
      BY <2>3 DEF Open, Phases
    <3>2. conv' \in Conversations /\ adapter' \in Conversations
      BY <1>4, <2>3, OpenResumes DEF Open
    <3>3. staged' \in BOOLEAN
      BY <2>3 DEF Open, TypeOK
    <3> QED  BY <2>3, <3>1, <3>2, <3>3 DEF Open, TypeOK, ghosts
  <2>4. CASE Claim \/ Mark \/ StartFails \/ Publish \/ EndUnknown
    BY <1>4, <2>4 DEF Claim, Mark, StartFails, Publish, EndUnknown, TypeOK, Phases, ghosts
  <2>5. CASE Complete
    <3>1. run[2] \in Requests
      BY <2>5 DEF Complete, Numbers, Active, Identities
    <3> QED  BY <1>4, <2>5, <3>1 DEF Complete, Reach, TypeOK, Phases
  <2>6. CASE Interrupt
    BY <2>6 DEF Interrupt, Reach, TypeOK, Phases
  <2>7. CASE Save \/ SaveFails \/ AckEnds \/ Reset \/ ResetRecord
    BY <1>4, <2>7 DEF Save, SaveFails, AckEnds, Reset, ResetRecord, TypeOK, Phases, ghosts
  <2>8. CASE ClearFails
    BY <2>8 DEF ClearFails, TypeOK, Phases, ghosts
  <2>9. CASE ResetRuntime
    BY <1>4, <2>9 DEF ResetRuntime, Forget, TypeOK, Phases
  <2>10. CASE Restart
    <3>1. run \in Identities /\ nextRun \in 1..MaxRuns
      BY <2>10 DEF Restart, Numbers
    <3>2. run' \in Identities
      BY <2>10, <3>1 DEF Restart, Start, Identities
    <3> QED  BY <1>4, <2>10, <3>2 DEF Restart, Start, Forget, TypeOK, Phases
  <2>11. CASE Crash
    BY <1>4, <2>11 DEF Crash, TypeOK, Phases
  <2>12. CASE \E i \in Identities : Acknowledge(i)
    BY <2>12 DEF Acknowledge, TypeOK, ghosts
  <2>13. CASE \E i \in Identities : Clear(i)
    BY <2>13 DEF Clear, TypeOK
  <2>14. CASE UNCHANGED vars
    BY <2>14 DEF vars, TypeOK
  <2> QED
    BY <2>1, <2>2, <2>3, <2>4, <2>5, <2>6, <2>7, <2>8, <2>9, <2>10, <2>11, <2>12, <2>13, <2>14
    DEF Next
<1> QED  BY <1>1, <1>3, <1>5 DEF TypeOK

-----------------------------------------------------------------------------
(* Where a turn goes on.                                                   *)

\* The numbers the order of conversations is about.
LEMMA InNat ==
    ASSUME TypeOK
    PROVE  /\ saved \in Nat /\ conv \in Nat /\ adapter \in Nat /\ begun \in Nat /\ seen \in Nat
           /\ Session \in Nat
           /\ \A i \in Identities : receipts[i].prior \in Nat /\ receipts[i].candidate \in Nat
           /\ Settled \subseteq Identities /\ Conversations \subseteq Nat
BY DEF TypeOK, Conversations, Session, Receipts, Settled, In

\* The conversation a run is in is not behind any other.
LEMMA SessionIsLast ==
    ASSUME TypeOK, Ordered, Resumes
    PROVE  saved <= Session /\ conv <= Session
BY InNat DEF Ordered, Resumes, Session

\* Steps that write no receipt, and neither lead the runtime anywhere else.
LEMMA QuietKeeps ==
    ASSUME TypeOK, Ordered, Resumes, Continues, Leads,
           UNCHANGED <<saved, receipts, threads>>
    PROVE  /\ Settled' = Settled /\ Doubtful' = Doubtful /\ Unresolved' = Unresolved
           /\ conv' = conv /\ begun' = begun => Ordered'
           /\ conv' = conv /\ phase # "closed" => Leads'
           /\ phase' = "closed" => Leads'
<1>1. Settled' = Settled /\ Doubtful' = Doubtful /\ Unresolved' = Unresolved
  BY DEF Settled, Doubtful, Unresolved, In
<1>2. conv' = conv /\ begun' = begun => Ordered'
  BY <1>1 DEF Ordered
<1>3. conv' = conv /\ phase # "closed" => Leads'
  BY <1>1 DEF Leads, Top
<1>4. phase' = "closed" => Leads'
  BY <1>1 DEF Leads, Top
<1> QED  BY <1>1, <1>2, <1>3, <1>4

LEMMA BeginKeeps ==
    ASSUME TypeOK, Numbers, FailClosed, Ordered, Resumes, Continues, Leads, NEW request,
           Begin(request)
    PROVE  Ordered' /\ Resumes' /\ Continues' /\ Leads'
<1>1. /\ Doubtful = {} /\ UNCHANGED <<saved, receipts, threads>>
      /\ phase = "idle" /\ phase' = "starting" /\ seen' = 0 /\ begun' = begun + 1
      /\ adapter' = IF conv' # conv THEN conv' ELSE adapter
      /\ acks' = acks \cup Settled
  BY DEF Begin, Resolvable, Start, ghosts, Settled
<1>2. conv' \in Conversations /\ Top(conv', conv)
  BY BeginResumes DEF Begin, TypeOK
<1>3. Settled' = Settled /\ Doubtful' = Doubtful
  BY <1>1, QuietKeeps
<1>4. /\ conv <= conv' /\ \A i \in Settled : receipts[i].candidate <= conv'
      /\ conv' = conv \/ \E i \in Settled : receipts[i].candidate = conv'
      /\ conv' \in Nat /\ conv' <= begun
  BY <1>2, InNat DEF Top, Ordered
<1>5. Ordered'
  BY <1>1, <1>3, <1>4, InNat DEF Ordered
<1>6. saved <= conv' \/ (Settled = {} /\ conv' = conv)
  <2>1. saved <= conv \/ \A i \in Settled : saved <= receipts[i].candidate
    BY <1>1 DEF Resumes
  <2> QED  BY <1>4, <2>1, InNat
<1>7. adapter' # 0 => adapter' = conv' /\ saved <= conv'
  BY <1>1, <1>4, <1>6, InNat DEF Resumes
<1>8. \A i \in acks' : i \in Settled => receipts[i].candidate <= conv'
  BY <1>1, <1>4
<1>9. Resumes'
  BY <1>1, <1>3, <1>6, <1>7, <1>8 DEF Resumes
<1>10. conv' \in threads
  BY <1>1, <1>2 DEF Leads
<1>11. \A i \in Settled : receipts[i].candidate <= Session'
  BY <1>1, <1>4, <1>7, InNat DEF Session, Ordered
<1>12. Continues'
  BY <1>1, <1>3, <1>10, <1>11 DEF Continues
<1>13. Leads'
  <2>1. \A c \in Conversations : Top(c, saved)' => c \in threads
    BY <1>1, <1>3 DEF Leads, Top
  <2>2. ASSUME NEW c \in Conversations, Top(c, conv)' PROVE c \in threads
    <3>1. /\ c = conv' \/ \E i \in Settled : receipts[i].candidate = c
          /\ conv' <= c /\ c \in Nat
      BY <1>1, <1>3, <2>2, InNat DEF Top
    <3>2. c = conv'
      BY <1>4, <3>1
    <3> QED  BY <1>10, <3>2
  <2> QED  BY <1>1, <2>1, <2>2 DEF Leads
<1> QED  BY <1>5, <1>9, <1>12, <1>13

LEMMA OpenKeeps ==
    ASSUME TypeOK, Ordered, Resumes, Continues, Leads, Open
    PROVE  Ordered' /\ Resumes' /\ Continues' /\ Leads'
<1>1. /\ UNCHANGED <<saved, receipts, threads, begun>>
      /\ phase = "closed" /\ phase' \in {"idle", "saving", "refused"}
      /\ adapter' = IF phase' = "saving" THEN conv' ELSE 0
      /\ phase' = "saving" <=> saved # 0 /\ Resolvable(saved, NoRequest)
      /\ acks' = acks \/ (acks' = Settled /\ phase' = "saving")
  BY DEF Open, ghosts, Settled
<1>2. /\ conv' \in Conversations
      /\ phase' = "saving" => Top(conv', saved)
      /\ phase' # "saving" => conv' = saved
  BY <1>1, OpenResumes
<1>3. Settled' = Settled /\ Doubtful' = Doubtful
  BY <1>1, QuietKeeps
<1>4. /\ saved <= conv' /\ conv' \in Nat /\ conv' <= begun
      /\ phase' = "saving" => \A i \in Settled : receipts[i].candidate <= conv'
  BY <1>2, InNat DEF Top, Ordered
<1>5. Ordered'
  BY <1>1, <1>3, <1>4 DEF Ordered
<1>6. Resumes'
  BY <1>1, <1>3, <1>4 DEF Resumes
<1>7. Continues'
  BY <1>1 DEF Continues, Active
<1>8. Leads'
  <2>1. \A c \in Conversations : Top(c, saved)' /\ Doubtful = {} => c \in threads
    BY <1>1, <1>3 DEF Leads, Top
  <2>2. ASSUME NEW c \in Conversations, Top(c, conv)', Doubtful = {} PROVE c \in threads
    <3>1. CASE phase' = "saving"
      <4>1. /\ c = conv' \/ \E i \in Settled : receipts[i].candidate = c
            /\ conv' <= c /\ c \in Nat
        BY <1>1, <1>3, <2>2, InNat DEF Top
      <4>2. c = conv'
        BY <1>4, <3>1, <4>1, InNat
      <4> QED  BY <1>2, <2>2, <3>1, <4>2 DEF Leads
    <3>2. CASE phase' # "saving"
      BY <1>1, <1>2, <1>3, <2>2, <3>2 DEF Leads, Top
    <3> QED  BY <3>1, <3>2
  <2> QED  BY <1>1, <1>3, <2>1, <2>2 DEF Leads
<1> QED  BY <1>5, <1>6, <1>7, <1>8

\* Steps that leave every conversation where it is.
LEMMA IdleKeeps ==
    ASSUME TypeOK, Numbers, FailClosed, Ordered, Resumes, Continues, Leads,
           \/ \E request \in Requests : FreshStart(request)
           \/ StartFails \/ SaveFails \/ AckEnds \/ Reset \/ ClearFails
           \/ UNCHANGED vars
    PROVE  Ordered' /\ Resumes' /\ Continues' /\ Leads'
<1>1. /\ UNCHANGED <<saved, conv, receipts, threads, begun, acks, seen>>
      /\ phase # "closed" \/ UNCHANGED vars
  BY DEF FreshStart, StartFails, SaveFails, AckEnds, Reset, ClearFails, vars, ghosts
<1>2. /\ Settled' = Settled /\ Doubtful' = Doubtful /\ Unresolved' = Unresolved
      /\ Ordered'
      /\ phase # "closed" => Leads'
  BY <1>1, QuietKeeps
<1>3. CASE UNCHANGED vars
  <2>1. Leads'
    BY <1>2, <1>3 DEF vars, Leads, Top
  <2>2. Resumes'
    BY <1>2, <1>3 DEF vars, Resumes
  <2>3. Continues'
    BY <1>2, <1>3 DEF vars, Continues, Active, Session
  <2> QED  BY <1>2, <2>1, <2>2, <2>3
<1>4. CASE \E request \in Requests : FreshStart(request)
  <2>1. Resumes'
    BY <1>1, <1>2, <1>4 DEF FreshStart, Resumes
  <2>2. Continues'
    BY <1>4 DEF FreshStart, Continues, Active
  <2> QED  BY <1>2, <1>4, <2>1, <2>2 DEF FreshStart
<1>5. CASE StartFails \/ SaveFails \/ AckEnds \/ Reset \/ ClearFails
  <2>1. phase # "closed" /\ ~Active' /\ phase' \notin {"closed", "acking", "forgetting", "restarting"}
    BY <1>5 DEF StartFails, SaveFails, AckEnds, Reset, ClearFails, Active
  <2>2. (adapter' = adapter /\ phase' \notin {"resetting", "recovering"}) \/ adapter' = 0
    BY <1>5 DEF StartFails, SaveFails, AckEnds, Reset, ClearFails
  <2>3. Resumes'
    BY <1>1, <1>2, <2>1, <2>2 DEF Resumes
  <2>4. Continues'
    BY <2>1 DEF Continues, Active
  <2> QED  BY <1>2, <2>1, <2>3, <2>4
<1> QED  BY <1>3, <1>4, <1>5

\* A receipt in doubt is written, and nothing else than the run goes on.
LEMMA DoubtKeeps ==
    ASSUME TypeOK, Numbers, FailClosed, Ordered, Resumes, Continues, Leads,
           Active, run \notin Settled, NEW receipt \in Receipts,
           receipts' = [receipts EXCEPT ![run] = receipt],
           receipt.state \in {"torn", "pending", "unknown"},
           receipt.prior <= begun, receipt.candidate = 0,
           phase' \in {"claimed", "running"} => receipt.prior = conv,
           phase' = "claimed" => conv \in threads,
           phase' \in {"claimed", "running", "saving"},
           UNCHANGED <<saved, conv, adapter, acks, run, seen, begun, threads>>
    PROVE  Ordered' /\ Resumes' /\ Continues' /\ Leads'
<1>1. run \in Identities
  BY DEF Numbers
<1>2. /\ receipts'[run] = receipt /\ \A j \in Identities \ {run} : receipts'[j] = receipts[j]
      /\ Settled' = Settled /\ run \in Doubtful'
  <2>1. /\ receipts'[run] = receipt /\ \A j \in Identities \ {run} : receipts'[j] = receipts[j]
        /\ Settled' = (IF receipt.state \in {"interrupted", "completed"}
                       THEN Settled \cup {run} ELSE Settled \ {run})
        /\ run \in Doubtful'
    BY <1>1, Written
  <2>2. receipt.state \notin {"interrupted", "completed"}
    OBVIOUS
  <2> QED  BY <2>1, <2>2
<1>3. \A i \in Settled : receipts'[i] = receipts[i]
  BY <1>2, InNat
<1>4. Ordered'
  <2>1. \A i \in Identities : receipts'[i].prior <= begun /\ receipts'[i].candidate <= begun
    BY <1>2, InNat DEF Ordered
  <2> QED  BY <1>2, <1>3, <2>1 DEF Ordered
<1>5. Resumes'
  <2>1. phase # "closed"
    BY DEF Active
  <2> QED  BY <1>2, <1>3, <2>1 DEF Resumes
<1>6. Continues'
  <2>1. Session' = Session
    BY DEF Session
  <2> QED  BY <1>2, <1>3, <2>1 DEF Continues, Active
<1>7. Leads'
  BY <1>2 DEF Leads
<1> QED  BY <1>4, <1>5, <1>6, <1>7

LEMMA ClaimKeeps ==
    ASSUME TypeOK, Numbers, FailClosed, Ordered, Resumes, Continues, Leads, Claim
    PROVE  Ordered' /\ Resumes' /\ Continues' /\ Leads'
<1>1. /\ phase = "starting" /\ Active /\ run \in Identities
      /\ UNCHANGED <<saved, conv, adapter, acks, run, seen, begun, threads>>
  BY DEF Claim, Active, Numbers, ghosts
<1>2. CASE receipts[run].state = "none"
  <2> DEFINE receipt == [state |-> "torn", prior |-> conv, candidate |-> 0]
  <2>1. receipt \in Receipts
    BY DEF Receipts, States, TypeOK, Conversations
  <2>2. /\ receipts' = [receipts EXCEPT ![run] = receipt] /\ phase' = "claimed"
        /\ receipt.state = "torn" /\ receipt.prior = conv /\ receipt.candidate = 0
    BY <1>2 DEF Claim
  <2> HIDE DEF receipt
  <2>3. run \notin Settled /\ conv \in threads /\ conv <= begun
    BY <1>1, <1>2 DEF Settled, In, Continues, Ordered
  <2> QED  BY <1>1, <2>1, <2>2, <2>3, DoubtKeeps
<1>3. CASE receipts[run].state # "none"
  <2>1. UNCHANGED receipts /\ phase' = "saving"
    BY <1>3 DEF Claim
  <2>2. Settled' = Settled /\ Unresolved' = Unresolved /\ Ordered' /\ Leads'
    BY <1>1, <2>1, QuietKeeps
  <2>3. Resumes'
    BY <1>1, <2>1, <2>2 DEF Resumes
  <2>4. Continues'
    BY <2>1 DEF Continues, Active
  <2> QED  BY <2>2, <2>3, <2>4
<1> QED  BY <1>2, <1>3

LEMMA MarkKeeps ==
    ASSUME TypeOK, Numbers, FailClosed, Ordered, Resumes, Continues, Leads, Mark
    PROVE  Ordered' /\ Resumes' /\ Continues' /\ Leads'
<1>1. /\ phase = "claimed" /\ phase' = "running" /\ Active /\ run \in Identities
      /\ receipts[run].state = "torn" /\ receipts[run].prior = conv /\ conv <= begun
      /\ UNCHANGED <<saved, conv, adapter, acks, run, seen, begun, threads>>
  BY DEF Mark, Active, Numbers, FailClosed, Continues, Ordered
<1>2. 0 \in Conversations /\ "pending" \in States /\ receipts' = SetReceipt(run, "pending", 0)
  BY DEF Mark, Conversations, States
<1>3. PICK receipt \in Receipts :
        /\ receipts' = [receipts EXCEPT ![run] = receipt]
        /\ receipt.state = "pending" /\ receipt.candidate = 0
        /\ receipt.prior = receipts[run].prior
  BY <1>1, <1>2, SetIsWritten
<1>4. run \notin Settled
  BY <1>1 DEF Settled, In
<1> QED  BY <1>1, <1>3, <1>4, DoubtKeeps

\* A run that left no boundary.
LEMMA EndUnknownKeeps ==
    ASSUME TypeOK, Numbers, FailClosed, Ordered, Resumes, Continues, Leads, EndUnknown
    PROVE  Ordered' /\ Resumes' /\ Continues' /\ Leads'
<1>1. /\ phase = "running" /\ phase' = "saving" /\ Active /\ run \in Identities
      /\ receipts[run].state = "pending" /\ receipts[run].prior <= begun
      /\ UNCHANGED <<saved, conv, adapter, acks, run, seen, begun, threads>>
  BY DEF EndUnknown, Active, Numbers, FailClosed, Ordered
<1>2. CASE receipts' = receipts
  <2>1. Settled' = Settled /\ Unresolved' = Unresolved /\ Ordered' /\ Leads'
    BY <1>1, <1>2, QuietKeeps
  <2>2. Resumes'
    BY <1>1, <1>2, <2>1 DEF Resumes
  <2>3. Continues'
    BY <1>1 DEF Continues, Active
  <2> QED  BY <2>1, <2>2, <2>3
<1>3. CASE receipts' = SetReceipt(run, "unknown", 0)
  <2>1. 0 \in Conversations /\ "unknown" \in States
    BY DEF Conversations, States
  <2>2. PICK receipt \in Receipts :
          /\ receipts' = [receipts EXCEPT ![run] = receipt]
          /\ receipt.state = "unknown" /\ receipt.candidate = 0
          /\ receipt.prior = receipts[run].prior
    BY <1>1, <1>3, <2>1, SetIsWritten
  <2>3. run \notin Settled
    BY <1>1 DEF Settled, In
  <2> QED  BY <1>1, <2>2, <2>3, DoubtKeeps
<1> QED  BY <1>2, <1>3 DEF EndUnknown

\* The receipt of a run under way that names the conversation it is in.
LEMMA NamedRun ==
    ASSUME TypeOK, Numbers, Ordered, Resumes, Continues, phase = "running",
           NEW state \in {"interrupted", "completed"}, receipts' = SetReceipt(run, state, Session)
    PROVE  /\ run \in Identities /\ Settled' = Settled \cup {run}
           /\ receipts'[run].candidate = Session
           /\ \A i \in Identities \ {run} : receipts'[i] = receipts[i]
           /\ \A i \in Identities : receipts'[i].prior <= begun /\ receipts'[i].candidate <= begun
           /\ \A i \in Settled' : /\ receipts'[i].prior <= receipts'[i].candidate
                                  /\ receipts'[i].candidate <= Session
<1>1. run \in Identities /\ Active /\ receipts[run].prior = conv
  BY DEF Numbers, Active, Continues
<1>2. PICK receipt \in Receipts :
        /\ receipts' = [receipts EXCEPT ![run] = receipt]
        /\ receipt.state = state /\ receipt.candidate = Session
        /\ receipt.prior = receipts[run].prior
  BY <1>1, SetIsWritten, SessionType DEF States
<1>3. /\ receipts'[run] = receipt
      /\ \A i \in Identities \ {run} : receipts'[i] = receipts[i]
      /\ Settled' = IF receipt.state \in {"interrupted", "completed"}
                    THEN Settled \cup {run} ELSE Settled \ {run}
  BY <1>1, <1>2, Written
<1>4. Settled' = Settled \cup {run}
  BY <1>2, <1>3
<1>5. conv <= Session /\ Session <= begun /\ conv <= begun
  BY SessionIsLast, InNat DEF Session, Ordered, Resumes
<1>6. \A i \in Identities : receipts'[i].prior <= begun /\ receipts'[i].candidate <= begun
  BY <1>1, <1>2, <1>3, <1>5 DEF Ordered
<1>7. \A i \in Settled' : /\ receipts'[i].prior <= receipts'[i].candidate
                          /\ receipts'[i].candidate <= Session
  <2> SUFFICES ASSUME NEW i \in Settled'
               PROVE  /\ receipts'[i].prior <= receipts'[i].candidate
                      /\ receipts'[i].candidate <= Session
    OBVIOUS
  <2>1. CASE i = run
    BY <1>1, <1>2, <1>3, <1>5, <2>1, InNat
  <2>2. CASE i # run
    <3>1. i \in Settled /\ i \in Identities
      BY <1>4, <2>2, InNat
    <3> QED  BY <1>1, <1>3, <2>2, <3>1 DEF Ordered, Continues
  <2> QED  BY <2>1, <2>2
<1> QED  BY <1>1, <1>2, <1>3, <1>4, <1>6, <1>7

\* Receipts that end in the conversation of the run lead there.
LEMMA NamedLeads ==
    ASSUME TypeOK, run \in Settled', receipts'[run].candidate = Session,
           \A i \in Settled' : receipts'[i].candidate <= Session,
           saved' = saved, saved <= Session, conv' \in Nat, conv' <= Session,
           threads' = {Session}
    PROVE  Leads'
<1> SUFFICES ASSUME NEW c \in Conversations, NEW from \in {saved', conv'},
                    c = from \/ \E i \in Settled' : receipts'[i].candidate = c,
                    \A i \in Settled' : receipts'[i].candidate <= c
             PROVE  c = Session
  BY DEF Leads, Top
<1>1. c <= Session /\ Session <= c
  OBVIOUS
<1> QED  BY <1>1, InNat

LEMMA PublishKeeps ==
    ASSUME TypeOK, Numbers, FailClosed, Ordered, Resumes, Continues, Leads, Publish
    PROVE  Ordered' /\ Resumes' /\ Continues' /\ Leads'
<1>1. /\ phase = "running" /\ phase' = "running" /\ Active /\ run \in Identities
      /\ seen' = Session /\ seen = 0 /\ receipts[run].state = "pending"
      /\ UNCHANGED <<saved, conv, adapter, acks, run, begun>>
  BY DEF Publish, Active, Numbers, FailClosed
<1>2. Session' = Session
  BY <1>1 DEF Session
<1>3. CASE UNCHANGED <<receipts, threads>>
  <2>1. Settled' = Settled /\ Unresolved' = Unresolved /\ Ordered' /\ Leads'
    BY <1>1, <1>3, QuietKeeps
  <2>2. Resumes'
    BY <1>1, <1>3, <2>1 DEF Resumes
  <2>3. Continues'
    BY <1>1, <1>2, <1>3, <2>1 DEF Continues, Active
  <2> QED  BY <2>1, <2>2, <2>3
<1>4. CASE receipts' = SetReceipt(run, "interrupted", Session) /\ threads' = {Session}
  <2>1. /\ Settled' = Settled \cup {run}
        /\ receipts'[run].candidate = Session
        /\ \A i \in Identities \ {run} : receipts'[i] = receipts[i]
        /\ \A i \in Identities : receipts'[i].prior <= begun /\ receipts'[i].candidate <= begun
        /\ \A i \in Settled' : /\ receipts'[i].prior <= receipts'[i].candidate
                               /\ receipts'[i].candidate <= Session
    BY <1>1, <1>4, NamedRun
  <2>2. receipts'[run].prior = receipts[run].prior
    BY <1>1, <1>4, SetIsWritten, SessionType, Written DEF States
  <2>3. saved <= Session /\ conv <= Session /\ conv \in Nat
    BY SessionIsLast, InNat
  <2>4. Ordered'
    BY <1>1, <2>1 DEF Ordered
  <2>5. run \notin acks
    BY <1>1 DEF FailClosed, In
  <2>6. \A i \in acks : i \in Settled' => receipts'[i].candidate <= conv
    BY <2>1, <2>5, InNat DEF Resumes
  <2>7. saved <= conv \/ \A i \in Settled' : saved <= receipts'[i].candidate
    BY <1>1, <2>1, <2>3, InNat DEF Resumes
  <2>8. Resumes'
    BY <1>1, <2>6, <2>7 DEF Resumes
  <2>9. Continues'
    BY <1>1, <1>2, <2>1, <2>2 DEF Continues, Active
  <2>10. Leads'
    BY <1>1, <1>4, <2>1, <2>3, NamedLeads
  <2> QED  BY <2>4, <2>8, <2>9, <2>10
<1> QED  BY <1>3, <1>4 DEF Publish

\* A run that ends in the conversation it was in, whether or not its receipt
\* could be written.
LEMMA ReachKeeps ==
    ASSUME TypeOK, Numbers, FailClosed, Ordered, Resumes, Continues, Leads,
           phase = "running", phase' = "saving", Reach(Session),
           UNCHANGED <<saved, run, begun>>,
           acks' \subseteq acks \cup {run},
           \/ UNCHANGED receipts
           \/ \E state \in {"interrupted", "completed"} : receipts' = SetReceipt(run, state, Session)
    PROVE  Ordered' /\ Resumes' /\ Continues' /\ Leads'
<1>1. run \in Identities /\ Active /\ receipts[run].state \in {"pending", "interrupted"}
  BY DEF Numbers, Active, FailClosed
<1>2. /\ saved <= Session /\ conv <= Session /\ Session \in Nat /\ Session <= begun
      /\ conv' = Session /\ adapter' = Session /\ threads' = {Session}
  BY SessionIsLast, InNat DEF Session, Reach, Ordered, Resumes
<1>3. /\ Settled' \subseteq Settled \cup {run}
      /\ \A i \in Identities : receipts'[i].prior <= begun /\ receipts'[i].candidate <= begun
      /\ \A i \in Settled' : /\ receipts'[i].prior <= receipts'[i].candidate
                             /\ receipts'[i].candidate <= Session
      /\ Doubtful' = {} => run \in Settled' /\ receipts'[run].candidate = Session
  <2>1. CASE UNCHANGED receipts
    <3>1. Settled' = Settled /\ Doubtful' = Doubtful
      BY <2>1 DEF Settled, Doubtful, In
    <3>2. Doubtful = {} => run \in Settled
      BY <1>1 DEF Settled, Doubtful, In
    <3> QED  BY <1>1, <2>1, <3>1, <3>2 DEF Ordered, Continues
  <2>2. CASE \E state \in {"interrupted", "completed"} : receipts' = SetReceipt(run, state, Session)
    <3>1. PICK state \in {"interrupted", "completed"} : receipts' = SetReceipt(run, state, Session)
      BY <2>2
    <3> QED  BY <3>1, NamedRun
  <2> QED  BY <2>1, <2>2
<1>4. Ordered'
  BY <1>2, <1>3 DEF Ordered
<1>5. Resumes'
  BY <1>2, <1>3 DEF Resumes
<1>6. Continues'
  BY DEF Continues, Active
<1>7. Leads'
  <2>1. CASE Doubtful' = {}
    BY <1>2, <1>3, <2>1, NamedLeads
  <2>2. CASE Doubtful' # {}
    BY <2>2 DEF Leads
  <2> QED  BY <2>1, <2>2
<1> QED  BY <1>4, <1>5, <1>6, <1>7

LEMMA CompleteKeeps ==
    ASSUME TypeOK, Numbers, FailClosed, Ordered, Resumes, Continues, Leads, Complete
    PROVE  Ordered' /\ Resumes' /\ Continues' /\ Leads'
BY ReachKeeps DEF Complete

LEMMA InterruptKeeps ==
    ASSUME TypeOK, Numbers, FailClosed, Ordered, Resumes, Continues, Leads, Interrupt
    PROVE  Ordered' /\ Resumes' /\ Continues' /\ Leads'
<1>1. (IF seen # 0 THEN seen ELSE adapter) = Session
  BY DEF Interrupt, Continues, Active, Session
<1> QED  BY <1>1, ReachKeeps DEF Interrupt

LEMMA SaveKeeps ==
    ASSUME TypeOK, Numbers, Ordered, Resumes, Continues, Leads, Save
    PROVE  Ordered' /\ Resumes' /\ Continues' /\ Leads'
<1>1. /\ phase = "saving" /\ phase' = "acking" /\ saved' = conv
      /\ UNCHANGED <<conv, adapter, receipts, acks, seen, begun, threads>>
  BY DEF Save
<1>2. Settled' = Settled /\ Doubtful' = Doubtful
  BY <1>1 DEF Settled, Doubtful, In
<1>3. Ordered'
  BY <1>1, <1>2 DEF Ordered
<1>4. conv <= conv
  BY InNat
<1>5. Resumes'
  BY <1>1, <1>2, <1>4 DEF Resumes
<1>6. Continues'
  BY <1>1 DEF Continues, Active
<1>7. Leads'
  BY <1>1, <1>2 DEF Leads, Top
<1> QED  BY <1>3, <1>5, <1>6, <1>7

\* A receipt is retired once the record is no further back than it.
LEMMA AcknowledgeKeeps ==
    ASSUME TypeOK, Numbers, FailClosed, Ordered, Resumes, Continues, Leads,
           NEW i \in Identities, Acknowledge(i)
    PROVE  Ordered' /\ Resumes' /\ Continues' /\ Leads'
<1>1. /\ phase = "acking" /\ phase' = "acking" /\ i \in acks /\ saved = conv
      /\ receipts' = [receipts EXCEPT ![i] = NoReceipt]
      /\ acks' = acks \ {i}
      /\ UNCHANGED <<saved, conv, adapter, seen, begun, threads>>
  BY DEF Acknowledge, ghosts, Resumes
<1>2. /\ receipts'[i] = NoReceipt
      /\ \A j \in Identities \ {i} : receipts'[j] = receipts[j]
      /\ Settled' = Settled \ {i} /\ Doubtful' = Doubtful \ {i}
  <2>1. NoReceipt \in Receipts /\ NoReceipt.state = "none"
    BY EmptyReceipt
  <2>2. NoReceipt.state \notin {"interrupted", "completed", "torn", "pending", "unknown"}
    BY <2>1
  <2> QED  BY <1>1, <2>1, <2>2, Written
<1>3. NoReceipt.prior = 0 /\ NoReceipt.candidate = 0
  BY DEF NoReceipt
<1>4. \A j \in Settled' : receipts'[j] = receipts[j] /\ j \in Settled
  BY <1>2, InNat
<1>5. Ordered'
  <2>1. \A j \in Identities : receipts'[j].prior <= begun /\ receipts'[j].candidate <= begun
    BY <1>2, <1>3, InNat DEF Ordered
  <2> QED  BY <1>1, <1>4, <2>1 DEF Ordered
<1>6. Resumes'
  BY <1>1, <1>4 DEF Resumes
<1>7. Continues'
  BY <1>1 DEF Continues, Active
<1>8. i \notin Doubtful
  BY <1>1, StatesOf DEF FailClosed
<1>9. Leads'
  <2> SUFFICES ASSUME Doubtful = {}, NEW c \in Conversations,
                      c = conv \/ \E j \in Settled' : receipts'[j].candidate = c,
                      conv <= c, \A j \in Settled' : receipts'[j].candidate <= c
               PROVE  c \in threads
    BY <1>1, <1>2, <1>8 DEF Leads, Top
  <2>1. i \in Settled => receipts[i].candidate <= conv
    BY <1>1 DEF Resumes
  <2>2. \A j \in Settled : receipts[j].candidate <= c
    BY <1>2, <1>4, <2>1, InNat
  <2>3. Top(c, conv)
    BY <1>4, <2>2 DEF Top
  <2> QED  BY <1>1, <2>3 DEF Leads
<1> QED  BY <1>5, <1>6, <1>7, <1>9

\* While receipts are cleared, nothing is said of what the next turn continues.
LEMMA ClearKeeps ==
    ASSUME TypeOK, Numbers, FailClosed, Ordered, Resumes, Continues, Leads,
           NEW i \in Identities, Clear(i)
    PROVE  Ordered' /\ Resumes' /\ Continues' /\ Leads'
<1>1. /\ phase \in {"resetting", "recovering", "restarting"} /\ threads' = Conversations
      /\ UNCHANGED <<saved, conv, adapter, acks, seen, begun, phase>>
  BY DEF Clear
<1>2. \E receipt \in Receipts :
        /\ receipts' = [receipts EXCEPT ![i] = receipt]
        /\ receipt.state \in {"none", "cleared"}
        /\ receipt.prior <= begun /\ receipt.candidate <= begun
  <2>1. CASE receipts' = [receipts EXCEPT ![i] = NoReceipt]
    <3>1. NoReceipt.prior = 0 /\ NoReceipt.candidate = 0
      BY DEF NoReceipt
    <3>2. 0 <= begun
      BY InNat
    <3> QED  BY <2>1, <3>1, <3>2, EmptyReceipt
  <2>2. CASE receipts' = SetReceipt(i, "cleared", receipts[i].candidate)
    <3> DEFINE c == receipts[i].candidate
    <3>1. c \in Conversations /\ "cleared" \in States /\ receipts' = SetReceipt(i, "cleared", c)
      BY <2>2 DEF TypeOK, Receipts, States
    <3>2. receipts[i].prior <= begun /\ c <= begun
      BY DEF Ordered
    <3> HIDE DEF c
    <3>3. PICK receipt \in Receipts :
            /\ receipts' = [receipts EXCEPT ![i] = receipt]
            /\ receipt.state = "cleared" /\ receipt.candidate = c
            /\ receipt.prior = receipts[i].prior
      BY <3>1, SetIsWritten
    <3> QED  BY <3>2, <3>3
  <2> QED  BY <2>1, <2>2 DEF Clear
<1>3. PICK receipt \in Receipts :
        /\ receipts' = [receipts EXCEPT ![i] = receipt]
        /\ receipt.state \in {"none", "cleared"}
        /\ receipt.prior <= begun /\ receipt.candidate <= begun
  BY <1>2
<1>4. /\ receipts'[i] = receipt
      /\ \A j \in Identities \ {i} : receipts'[j] = receipts[j]
      /\ Settled' = Settled \ {i}
  <2>1. receipt.state \notin {"interrupted", "completed"}
    BY <1>3
  <2> QED  BY <1>3, <2>1, Written
<1>5. \A j \in Settled' : receipts'[j] = receipts[j] /\ j \in Settled
  BY <1>4, InNat
<1>6. Ordered'
  <2>1. \A j \in Identities : receipts'[j].prior <= begun /\ receipts'[j].candidate <= begun
    BY <1>3, <1>4 DEF Ordered
  <2> QED  BY <1>1, <1>5, <2>1 DEF Ordered
<1>7. Resumes'
  BY <1>1, <1>5 DEF Resumes
<1>8. Continues'
  BY <1>1 DEF Continues, Active
<1>9. Leads'
  BY <1>1 DEF Leads
<1> QED  BY <1>6, <1>7, <1>8, <1>9

\* Without receipts the runtime starts over, and the record may follow.
LEMMA ForgetKeeps ==
    ASSUME TypeOK, Numbers, FailClosed, Ordered, Resumes, Continues, Leads,
           ResetRuntime \/ ResetRecord \/ Restart
    PROVE  Ordered' /\ Resumes' /\ Continues' /\ Leads'
<1>1. Unresolved = {} /\ adapter = 0 /\ adapter' = 0 /\ conv' = 0 /\ UNCHANGED receipts
  BY DEF ResetRuntime, ResetRecord, Restart, Start, Forget, Resumes
<1>2. Settled = {} /\ Settled' = {} /\ Unresolved' = {}
  BY <1>1, StatesOf DEF Settled, Unresolved, Doubtful, In
<1>3. /\ begun' \in Nat /\ begun <= begun'
      /\ saved' = saved \/ saved' = 0
  BY InNat DEF ResetRuntime, ResetRecord, Restart, Start, Forget
<1>4. saved' \in Nat /\ saved' <= begun'
  BY <1>3, InNat DEF Ordered
<1>5. Ordered'
  <2>1. \A i \in Identities : receipts'[i].prior <= begun' /\ receipts'[i].candidate <= begun'
    BY <1>1, <1>3, InNat DEF Ordered
  <2> QED  BY <1>1, <1>2, <1>3, <1>4, <2>1 DEF Ordered
<1>6. saved' \in threads' /\ conv' \in threads'
  <2>1. CASE ResetRuntime \/ Restart
    BY <2>1 DEF ResetRuntime, Restart, Start, Forget
  <2>2. CASE ResetRecord /\ saved' = 0 /\ threads' = {0}
    BY <1>1, <2>2
  <2>3. CASE ResetRecord /\ UNCHANGED <<saved, threads>>
    <3>1. Doubtful = {} /\ conv = 0 /\ phase = "forgetting"
      BY <1>1, <2>3 DEF Unresolved, ResetRecord, Resumes
    <3>2. Top(saved, saved) /\ Top(conv, conv)
      BY <1>2, InNat DEF Top
    <3>3. saved \in threads /\ conv \in threads
      BY <3>1, <3>2 DEF Leads, TypeOK
    <3> QED  BY <1>1, <2>3, <3>1, <3>3
  <2> QED  BY <2>1, <2>2, <2>3 DEF ResetRecord
<1>7. phase' \in {"forgetting", "idle", "starting"} /\ (phase' = "starting" => seen' = 0)
  BY DEF ResetRuntime, ResetRecord, Restart, Start
<1>8. acks' = {} \/ acks' = acks
  BY DEF ResetRuntime, ResetRecord, Restart, Forget
<1>9. Resumes'
  BY <1>1, <1>2, <1>7 DEF Resumes
<1>10. Continues'
  BY <1>2, <1>6, <1>7 DEF Continues, Active
<1>11. Leads'
  BY <1>2, <1>6 DEF Leads, Top
<1> QED  BY <1>5, <1>9, <1>10, <1>11

LEMMA CrashKeeps ==
    ASSUME TypeOK, Numbers, Ordered, Resumes, Continues, Leads, Crash
    PROVE  Ordered' /\ Resumes' /\ Continues' /\ Leads'
<1>1. /\ phase' = "closed" /\ conv' = 0 /\ adapter' = 0 /\ acks' = {}
      /\ UNCHANGED <<saved, receipts, begun, threads>>
  BY DEF Crash
<1>2. Settled' = Settled /\ Leads'
  BY <1>1, QuietKeeps
<1>3. Ordered'
  BY <1>1, <1>2, InNat DEF Ordered
<1>4. Resumes'
  BY <1>1 DEF Resumes
<1>5. Continues'
  BY <1>1 DEF Continues, Active
<1> QED  BY <1>2, <1>3, <1>4, <1>5

LEMMA NextFound ==
    ASSUME IInv, Found, [Next]_vars
    PROVE  Found'
<1>1. TypeOK'
  BY NextTypeOK DEF IInv, Found
<1>2. Ordered' /\ Resumes' /\ Continues' /\ Leads'
  BY BeginKeeps, OpenKeeps, IdleKeeps, ClaimKeeps, MarkKeeps, PublishKeeps, CompleteKeeps,
     InterruptKeeps, EndUnknownKeeps, SaveKeeps, AcknowledgeKeeps, ClearKeeps, ForgetKeeps,
     CrashKeeps
  DEF Next, IInv, Found
<1> QED  BY <1>1, <1>2 DEF Found

LEMMA FoundAlways == Spec => [](IInv /\ Found)
<1>1. Init => Found
  <2> SUFFICES ASSUME Init PROVE Found
    OBVIOUS
  <2>1. /\ \A i \in Identities : receipts[i] = NoReceipt
        /\ receipts \in [Identities -> Receipts]
        /\ NoReceipt.prior = 0 /\ NoReceipt.candidate = 0 /\ NoReceipt.state = "none"
    BY EmptyReceipt DEF Init, NoReceipt
  <2>2. Settled = {}
    BY <2>1 DEF Settled, In
  <2>3. TypeOK
    <3>1. /\ 0 \in Conversations /\ nextRun \in 1..MaxRuns + 1 /\ begun \in 0..MaxRuns
          /\ phase = "idle" /\ phase \in Phases
      BY DEF Init, Conversations, Phases
    <3>2. threads \subseteq Conversations /\ acks = {} /\ unsaved = {} /\ run = NoRun
      BY <3>1 DEF Init
    <3> QED  BY <2>1, <3>1, <3>2 DEF Init, TypeOK
  <2>4. Ordered
    BY <2>1, <2>2 DEF Init, Ordered
  <2>5. Resumes /\ Continues
    BY <2>2 DEF Init, Resumes, Continues, Active
  <2>6. Leads
    BY <2>2 DEF Init, Leads, Top
  <2> QED  BY <2>3, <2>4, <2>5, <2>6 DEF Found
<1>2. Found /\ IInv /\ [Next]_vars => Found'
  BY NextFound
<1> QED  BY <1>1, <1>2, Invariance, PTL DEF Spec

\* Every variable keeps its type, and only receipts that name a boundary wait
\* to be retired.
THEOREM TypeCorrect == Spec => []TypeOK
<1>1. Found => TypeOK
  BY DEF Found
<1> QED  BY <1>1, FoundAlways, PTL

\* Every turn continues the conversation the last one reached, along the
\* session record or the receipts, whatever was not written and wherever the
\* app died; only a reset gives it up.
THEOREM TurnsContinue == Spec => ContinuesTheConversation
<1>1. Found /\ Begins => conv \in threads
  BY DEF Found, Continues, Begins
<1>2. Found /\ [Next]_vars => [Begins => conv \in threads]_vars
  BY <1>1
<1> QED  BY <1>2, FoundAlways, PTL DEF Spec, ContinuesTheConversation
=================================================================================
