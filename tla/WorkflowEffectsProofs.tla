----------------------- MODULE WorkflowEffectsProofs -----------------------
(***************************************************************************)
(* Proofs about WorkflowEffects, for any keys, executors, results and      *)
(* bounds, and for keys with and without prompt executors.                 *)
(***************************************************************************)
EXTENDS WorkflowEffects, TLAPS

\* A row has a lease only while it is running: settling it gives the lease up.
LeasedIsRunning == \A k \in Keys : effect[k].leased => effect[k].status = "running"

\* Who may settle the row of a prompt key: an executor gets to the node only
\* after it won the row, which stays leased until it is settled or dies.
LeaseHeld ==
    /\ \A e \in Executors : pc[e] \in {"run", "complete", "fail"} => acquired[e]
    /\ \A e \in Executors : Executing(e) /\ key[e] \in PromptKeys => effect[key[e]].leased

\* A run about to resolve a replayed ticket holds the stored result.
ReplaysStored ==
    \A e \in Executors : pc[e] = "replay" =>
        effect[key[e]].status = "succeeded" /\ output[e] = effect[key[e]].result

\* The inductive invariant.
IInv ==
    /\ TypeOK
    /\ LeasedIsRunning
    /\ ResultsAgree
    /\ ReplaysStored
    /\ AnnouncedIffSucceeded
    /\ LeaseHeld
    /\ NoConcurrentExecution

\* Every action keeps the types of rows, copies and outputs.
LEMMA TypeStep ==
    ASSUME TypeOK, [Next]_vars
    PROVE  TypeOK'
<1> USE EffectsAssumption
<1>1. ASSUME NEW e \in Executors, StartNode(e) PROVE TypeOK'
  BY <1>1, TypeOK DEF TypeOK, StartNode, Goto, ledger, Row, NoRow
<1>2. ASSUME NEW e \in Executors, Lookup(e) PROVE TypeOK'
  BY <1>2, TypeOK DEF TypeOK, Lookup, Decide, Goto, ledger, Row
<1>3. ASSUME NEW e \in Executors, Create(e) PROVE TypeOK'
  <2>1. NewRow \in Row /\ effect[key[e]] \in Row
    BY TypeOK DEF TypeOK, Row, NewRow
  <2>2. effect' \in [Keys -> Row]
    BY <1>3, <2>1, TypeOK DEF TypeOK, Create
  <2>3. item' \in [Executors -> Row]
    BY <1>3, <2>1, TypeOK DEF TypeOK, Create
  <2>4. pc' \in [Executors -> {"idle", "lookup", "create", "acquire", "reread", "replay",
                               "run", "complete", "fail", "ok", "error"}]
    BY <1>3, TypeOK DEF TypeOK, Create, Decide, Goto
  <2>5. output' \in [Executors -> Results \cup {"none"}]
    BY <1>3, TypeOK DEF TypeOK, Create, Decide, Row
  <2>6. acquired' = [acquired EXCEPT ![e] = TRUE] \/ acquired' = acquired
    BY <1>3 DEF Create
  <2>7. acquired' \in [Executors -> BOOLEAN]
    BY <2>6, TypeOK DEF TypeOK
  <2>8. faults' \in Nat
    BY <1>3, TypeOK DEF TypeOK, Create, Fault
  <2> QED BY <1>3, <2>2, <2>3, <2>4, <2>5, <2>7, <2>8, TypeOK DEF TypeOK, Create
<1>4. ASSUME NEW e \in Executors, TryAcquire(e) PROVE TypeOK'
  <2>1. effect' \in [Keys -> Row]
    BY <1>4, TypeOK DEF TypeOK, TryAcquire, Row
  <2>2. MayAcquire(effect[key[e]], item[e]) \in BOOLEAN
    BY DEF MayAcquire
  <2>3. acquired' \in [Executors -> BOOLEAN]
    BY <1>4, <2>2, TypeOK DEF TypeOK, TryAcquire
  <2> QED BY <1>4, <2>1, <2>3, TypeOK DEF TypeOK, TryAcquire, Goto
<1>5. ASSUME NEW e \in Executors, Reread(e) PROVE TypeOK'
  BY <1>5, TypeOK DEF TypeOK, Reread, Goto, ledger, Row
<1>6. ASSUME NEW e \in Executors, RunNode(e) PROVE TypeOK'
  BY <1>6, TypeOK DEF TypeOK, RunNode, Goto, ledger
<1>7. ASSUME NEW e \in Executors, Complete(e) PROVE TypeOK'
  <2>1. effect' \in [Keys -> Row]
    <3> DEFINE k == key[e]
               done == [effect[k] EXCEPT !.status = "succeeded", !.leased = FALSE,
                                         !.result = output[e]]
    <3>1. k \in Keys /\ effect[k] \in Row /\ output[e] \in Results \cup {"none"}
      BY TypeOK DEF TypeOK
    <3>2. done \in Row
      BY <3>1 DEF Row
    <3>3. effect' = effect \/ effect' = [effect EXCEPT ![k] = done]
      BY <1>7, <3>1, TypeOK DEF Complete, ledger, TypeOK
    <3> HIDE DEF done
    <3> QED BY <3>1, <3>2, <3>3, TypeOK DEF TypeOK
  <2>2. events' \subseteq Keys
    BY <1>7, TypeOK DEF TypeOK, Complete, ledger
  <2>3. faults' \in Nat
    BY <1>7, TypeOK DEF TypeOK, Complete, Fault
  <2> QED BY <1>7, <2>1, <2>2, <2>3, TypeOK DEF TypeOK, Complete, Goto
<1>8. ASSUME NEW e \in Executors, Fail(e) PROVE TypeOK'
  <2>1. effect' \in [Keys -> Row]
    <3> DEFINE k == key[e]
               failed == [effect[k] EXCEPT !.status = "failed", !.leased = FALSE]
    <3>1. k \in Keys /\ effect[k] \in Row
      BY TypeOK DEF TypeOK
    <3>2. failed \in Row
      BY <3>1 DEF Row
    <3>3. effect' = effect \/ effect' = [effect EXCEPT ![k] = failed]
      BY <1>8, <3>1, TypeOK DEF Fail, TypeOK
    <3> HIDE DEF failed
    <3> QED BY <3>1, <3>2, <3>3, TypeOK DEF TypeOK
  <2>2. faults' \in Nat
    BY <1>8, TypeOK DEF TypeOK, Fail, Fault
  <2> QED BY <1>8, <2>1, <2>2, TypeOK DEF TypeOK, Fail, Goto
<1>9. ASSUME NEW e \in Executors, Crash(e) PROVE TypeOK'
  BY <1>9, TypeOK DEF TypeOK, Crash, Goto, Fault, ledger
<1>10. ASSUME NEW k \in Keys, LeaseEnds(k) PROVE TypeOK'
  <2>1. effect[k] \in Row
    BY TypeOK DEF TypeOK
  <2>2. [effect[k] EXCEPT !.leased = FALSE] \in Row
    BY <2>1 DEF Row
  <2>3. effect' \in [Keys -> Row]
    BY <1>10, <2>2, TypeOK DEF TypeOK, LeaseEnds
  <2> QED BY <1>10, <2>3, TypeOK DEF TypeOK, LeaseEnds
<1>11. CASE UNCHANGED vars
  BY <1>11, TypeOK DEF TypeOK, vars, ledger
<1>12. ASSUME NEW e \in Executors, Replay(e) PROVE TypeOK'
  BY <1>12, TypeOK DEF TypeOK, Replay, Resolves, Goto, Fault, ledger
<1>13. ASSUME NEW t \in Tickets, NEW main \in Tickets, Merge(t, main) PROVE TypeOK'
  BY <1>13, TypeOK DEF TypeOK, Merge, ledger
<1> QED BY <1>1, <1>2, <1>3, <1>4, <1>5, <1>6, <1>7, <1>8, <1>9, <1>10, <1>11,
   <1>12, <1>13, [Next]_vars DEF Next

\* Acquiring sets the status with the lease, settling clears both.
LEMMA LeasedStep ==
    ASSUME TypeOK, LeasedIsRunning, [Next]_vars
    PROVE  LeasedIsRunning'
<1> USE EffectsAssumption
<1>1. ASSUME NEW e \in Executors, StartNode(e) PROVE LeasedIsRunning'
  BY <1>1, TypeOK, LeasedIsRunning DEF LeasedIsRunning, TypeOK, Row, StartNode, ledger
<1>2. ASSUME NEW e \in Executors, Lookup(e) PROVE LeasedIsRunning'
  BY <1>2, TypeOK, LeasedIsRunning DEF LeasedIsRunning, TypeOK, Row, Lookup, ledger
<1>3. ASSUME NEW e \in Executors, Create(e) PROVE LeasedIsRunning'
  BY <1>3, TypeOK, LeasedIsRunning DEF LeasedIsRunning, TypeOK, Row, Create, NewRow, ledger
<1>4. ASSUME NEW e \in Executors, TryAcquire(e) PROVE LeasedIsRunning'
  BY <1>4, TypeOK, LeasedIsRunning DEF LeasedIsRunning, TypeOK, Row, TryAcquire,
     MayAcquire, ledger
<1>5. ASSUME NEW e \in Executors, Reread(e) PROVE LeasedIsRunning'
  BY <1>5, TypeOK, LeasedIsRunning DEF LeasedIsRunning, TypeOK, Row, Reread, ledger
<1>6. ASSUME NEW e \in Executors, RunNode(e) PROVE LeasedIsRunning'
  BY <1>6, TypeOK, LeasedIsRunning DEF LeasedIsRunning, TypeOK, Row, RunNode, ledger
<1>7. ASSUME NEW e \in Executors, Complete(e) PROVE LeasedIsRunning'
  BY <1>7, TypeOK, LeasedIsRunning DEF LeasedIsRunning, TypeOK, Row, Complete, Fenced,
     ledger
<1>8. ASSUME NEW e \in Executors, Fail(e) PROVE LeasedIsRunning'
  BY <1>8, TypeOK, LeasedIsRunning DEF LeasedIsRunning, TypeOK, Row, Fail, Fenced, ledger
<1>9. ASSUME NEW e \in Executors, Crash(e) PROVE LeasedIsRunning'
  BY <1>9, TypeOK, LeasedIsRunning DEF LeasedIsRunning, TypeOK, Row, Crash, ledger
<1>10. ASSUME NEW k \in Keys, LeaseEnds(k) PROVE LeasedIsRunning'
  BY <1>10, TypeOK, LeasedIsRunning DEF LeasedIsRunning, TypeOK, Row, LeaseEnds, ledger
<1>11. CASE UNCHANGED vars
  BY <1>11, TypeOK, LeasedIsRunning DEF LeasedIsRunning, TypeOK, Row, vars, ledger
<1>12. ASSUME NEW e \in Executors, Replay(e) PROVE LeasedIsRunning'
  BY <1>12, TypeOK, LeasedIsRunning DEF LeasedIsRunning, TypeOK, Row, Replay, ledger
<1>13. ASSUME NEW t \in Tickets, NEW main \in Tickets, Merge(t, main) PROVE LeasedIsRunning'
  BY <1>13, TypeOK, LeasedIsRunning DEF LeasedIsRunning, TypeOK, Row, Merge, ledger
<1> QED BY <1>1, <1>2, <1>3, <1>4, <1>5, <1>6, <1>7, <1>8, <1>9, <1>10, <1>11,
   <1>12, <1>13, [Next]_vars DEF Next

\* What a step may never do to a finished row.
KeepsFinished == \A k \in Keys : effect[k].status = "succeeded" => effect'[k] = effect[k]

\* A finished row is out of reach: an insert, an acquisition and the fences ask
\* for another status, and it has no lease that could run out.
LEMMA FinishedStep ==
    ASSUME TypeOK, LeasedIsRunning, [Next]_vars
    PROVE  KeepsFinished
<1> USE EffectsAssumption
<1>1. ASSUME NEW e \in Executors, StartNode(e) PROVE KeepsFinished
  BY <1>1, TypeOK, LeasedIsRunning DEF KeepsFinished, LeasedIsRunning, TypeOK, Row,
     StartNode, ledger
<1>2. ASSUME NEW e \in Executors, Lookup(e) PROVE KeepsFinished
  BY <1>2, TypeOK, LeasedIsRunning DEF KeepsFinished, LeasedIsRunning, TypeOK, Row,
     Lookup, ledger
<1>3. ASSUME NEW e \in Executors, Create(e) PROVE KeepsFinished
  BY <1>3, TypeOK, LeasedIsRunning DEF KeepsFinished, LeasedIsRunning, TypeOK, Row,
     Create, ledger
<1>4. ASSUME NEW e \in Executors, TryAcquire(e) PROVE KeepsFinished
  BY <1>4, TypeOK, LeasedIsRunning DEF KeepsFinished, LeasedIsRunning, TypeOK, Row,
     TryAcquire, MayAcquire, ledger
<1>5. ASSUME NEW e \in Executors, Reread(e) PROVE KeepsFinished
  BY <1>5, TypeOK, LeasedIsRunning DEF KeepsFinished, LeasedIsRunning, TypeOK, Row,
     Reread, ledger
<1>6. ASSUME NEW e \in Executors, RunNode(e) PROVE KeepsFinished
  BY <1>6, TypeOK, LeasedIsRunning DEF KeepsFinished, LeasedIsRunning, TypeOK, Row,
     RunNode, ledger
<1>7. ASSUME NEW e \in Executors, Complete(e) PROVE KeepsFinished
  BY <1>7, TypeOK, LeasedIsRunning DEF KeepsFinished, LeasedIsRunning, TypeOK, Row,
     Complete, Fenced, ledger
<1>8. ASSUME NEW e \in Executors, Fail(e) PROVE KeepsFinished
  BY <1>8, TypeOK, LeasedIsRunning DEF KeepsFinished, LeasedIsRunning, TypeOK, Row,
     Fail, Fenced, ledger
<1>9. ASSUME NEW e \in Executors, Crash(e) PROVE KeepsFinished
  BY <1>9, TypeOK, LeasedIsRunning DEF KeepsFinished, LeasedIsRunning, TypeOK, Row,
     Crash, ledger
<1>10. ASSUME NEW k \in Keys, LeaseEnds(k) PROVE KeepsFinished
  BY <1>10, TypeOK, LeasedIsRunning DEF KeepsFinished, LeasedIsRunning, TypeOK, Row,
     LeaseEnds, ledger
<1>11. CASE UNCHANGED vars
  BY <1>11, TypeOK, LeasedIsRunning DEF KeepsFinished, LeasedIsRunning, TypeOK, Row,
     vars, ledger
<1>12. ASSUME NEW e \in Executors, Replay(e) PROVE KeepsFinished
  BY <1>12, TypeOK, LeasedIsRunning DEF KeepsFinished, LeasedIsRunning, TypeOK, Row,
     Replay, ledger
<1>13. ASSUME NEW t \in Tickets, NEW main \in Tickets, Merge(t, main) PROVE KeepsFinished
  BY <1>13, TypeOK, LeasedIsRunning DEF KeepsFinished, LeasedIsRunning, TypeOK, Row,
     Merge, ledger
<1> QED BY <1>1, <1>2, <1>3, <1>4, <1>5, <1>6, <1>7, <1>8, <1>9, <1>10, <1>11,
   <1>12, <1>13, [Next]_vars DEF Next

\* A replay copies the stored result, a completion stores its own, and neither is
\* overwritten afterwards.
LEMMA ResultsStep ==
    ASSUME TypeOK, ResultsAgree, ReplaysStored, KeepsFinished, [Next]_vars
    PROVE  ResultsAgree' /\ ReplaysStored'
<1> USE EffectsAssumption
<1>1. ASSUME NEW e \in Executors, StartNode(e) PROVE ResultsAgree' /\ ReplaysStored'
  BY <1>1, TypeOK, ResultsAgree, ReplaysStored, KeepsFinished DEF ResultsAgree,
     ReplaysStored, KeepsFinished, TypeOK,
     StartNode, Goto, ledger, Row
<1>2. ASSUME NEW e \in Executors, Lookup(e) PROVE ResultsAgree' /\ ReplaysStored'
  BY <1>2, TypeOK, ResultsAgree, ReplaysStored, KeepsFinished DEF ResultsAgree,
     ReplaysStored, KeepsFinished, TypeOK,
     Lookup, Goto, Decide, ledger, Row
<1>3. ASSUME NEW e \in Executors, Create(e) PROVE ResultsAgree' /\ ReplaysStored'
  BY <1>3, TypeOK, ResultsAgree, ReplaysStored, KeepsFinished DEF ResultsAgree,
     ReplaysStored, KeepsFinished, TypeOK,
     Create, Goto, Decide, ledger, Row
<1>4. ASSUME NEW e \in Executors, TryAcquire(e) PROVE ResultsAgree' /\ ReplaysStored'
  BY <1>4, TypeOK, ResultsAgree, ReplaysStored, KeepsFinished DEF ResultsAgree,
     ReplaysStored, KeepsFinished, TypeOK,
     TryAcquire, Goto, ledger, Row
<1>5. ASSUME NEW e \in Executors, Reread(e) PROVE ResultsAgree' /\ ReplaysStored'
  BY <1>5, TypeOK, ResultsAgree, ReplaysStored, KeepsFinished DEF ResultsAgree,
     ReplaysStored, KeepsFinished, TypeOK,
     Reread, Goto, ledger, Row
<1>6. ASSUME NEW e \in Executors, RunNode(e) PROVE ResultsAgree' /\ ReplaysStored'
  BY <1>6, TypeOK, ResultsAgree, ReplaysStored, KeepsFinished DEF ResultsAgree,
     ReplaysStored, KeepsFinished, TypeOK,
     RunNode, Goto, ledger, Row
<1>7. ASSUME NEW e \in Executors, Complete(e) PROVE ResultsAgree' /\ ReplaysStored'
  BY <1>7, TypeOK, ResultsAgree, ReplaysStored, KeepsFinished DEF ResultsAgree,
     ReplaysStored, KeepsFinished, TypeOK,
     Complete, Goto, ledger, Row
<1>8. ASSUME NEW e \in Executors, Fail(e) PROVE ResultsAgree' /\ ReplaysStored'
  BY <1>8, TypeOK, ResultsAgree, ReplaysStored, KeepsFinished DEF ResultsAgree,
     ReplaysStored, KeepsFinished, TypeOK,
     Fail, Goto, ledger, Row
<1>9. ASSUME NEW e \in Executors, Crash(e) PROVE ResultsAgree' /\ ReplaysStored'
  BY <1>9, TypeOK, ResultsAgree, ReplaysStored, KeepsFinished DEF ResultsAgree,
     ReplaysStored, KeepsFinished, TypeOK,
     Crash, Goto, ledger, Row
<1>10. ASSUME NEW k \in Keys, LeaseEnds(k) PROVE ResultsAgree' /\ ReplaysStored'
  BY <1>10, TypeOK, ResultsAgree, ReplaysStored, KeepsFinished DEF ResultsAgree,
     ReplaysStored, KeepsFinished, TypeOK,
     LeaseEnds, ledger, Row
<1>11. CASE UNCHANGED vars
  BY <1>11, TypeOK, ResultsAgree, ReplaysStored, KeepsFinished DEF ResultsAgree,
     ReplaysStored, KeepsFinished, TypeOK,
     vars, ledger
<1>12. ASSUME NEW e \in Executors, Replay(e) PROVE ResultsAgree' /\ ReplaysStored'
  BY <1>12, TypeOK, ResultsAgree, ReplaysStored, KeepsFinished DEF ResultsAgree,
     ReplaysStored, KeepsFinished, TypeOK, Replay, Resolves, Goto, ledger, Row
<1>13. ASSUME NEW t \in Tickets, NEW main \in Tickets, Merge(t, main) PROVE ResultsAgree' /\ ReplaysStored'
  BY <1>13, TypeOK, ResultsAgree, ReplaysStored, KeepsFinished DEF ResultsAgree,
     ReplaysStored, KeepsFinished, TypeOK, Merge, ledger, Row
<1> QED BY <1>1, <1>2, <1>3, <1>4, <1>5, <1>6, <1>7, <1>8, <1>9, <1>10, <1>11,
   <1>12, <1>13, [Next]_vars DEF Next

\* Only a completion announces, and it finishes the row in the same transaction.
LEMMA AnnouncedStep ==
    ASSUME TypeOK, AnnouncedIffSucceeded, KeepsFinished, [Next]_vars
    PROVE  AnnouncedIffSucceeded'
<1> USE EffectsAssumption
<1>1. ASSUME NEW e \in Executors, StartNode(e) PROVE AnnouncedIffSucceeded'
  BY <1>1, TypeOK, AnnouncedIffSucceeded, KeepsFinished DEF AnnouncedIffSucceeded,
     KeepsFinished, TypeOK, Row, StartNode, ledger
<1>2. ASSUME NEW e \in Executors, Lookup(e) PROVE AnnouncedIffSucceeded'
  BY <1>2, TypeOK, AnnouncedIffSucceeded, KeepsFinished DEF AnnouncedIffSucceeded,
     KeepsFinished, TypeOK, Row, Lookup, ledger
<1>3. ASSUME NEW e \in Executors, Create(e) PROVE AnnouncedIffSucceeded'
  BY <1>3, TypeOK, AnnouncedIffSucceeded, KeepsFinished DEF AnnouncedIffSucceeded,
     KeepsFinished, TypeOK, Row, Create, NewRow, ledger
<1>4. ASSUME NEW e \in Executors, TryAcquire(e) PROVE AnnouncedIffSucceeded'
  BY <1>4, TypeOK, AnnouncedIffSucceeded, KeepsFinished DEF AnnouncedIffSucceeded,
     KeepsFinished, TypeOK, Row, TryAcquire, ledger
<1>5. ASSUME NEW e \in Executors, Reread(e) PROVE AnnouncedIffSucceeded'
  BY <1>5, TypeOK, AnnouncedIffSucceeded, KeepsFinished DEF AnnouncedIffSucceeded,
     KeepsFinished, TypeOK, Row, Reread, ledger
<1>6. ASSUME NEW e \in Executors, RunNode(e) PROVE AnnouncedIffSucceeded'
  BY <1>6, TypeOK, AnnouncedIffSucceeded, KeepsFinished DEF AnnouncedIffSucceeded,
     KeepsFinished, TypeOK, Row, RunNode, ledger
<1>7. ASSUME NEW e \in Executors, Complete(e) PROVE AnnouncedIffSucceeded'
  BY <1>7, TypeOK, AnnouncedIffSucceeded, KeepsFinished DEF AnnouncedIffSucceeded,
     KeepsFinished, TypeOK, Row, Complete, ledger
<1>8. ASSUME NEW e \in Executors, Fail(e) PROVE AnnouncedIffSucceeded'
  BY <1>8, TypeOK, AnnouncedIffSucceeded, KeepsFinished DEF AnnouncedIffSucceeded,
     KeepsFinished, TypeOK, Row, Fail, ledger
<1>9. ASSUME NEW e \in Executors, Crash(e) PROVE AnnouncedIffSucceeded'
  BY <1>9, TypeOK, AnnouncedIffSucceeded, KeepsFinished DEF AnnouncedIffSucceeded,
     KeepsFinished, TypeOK, Row, Crash, ledger
<1>10. ASSUME NEW k \in Keys, LeaseEnds(k) PROVE AnnouncedIffSucceeded'
  BY <1>10, TypeOK, AnnouncedIffSucceeded, KeepsFinished DEF AnnouncedIffSucceeded,
     KeepsFinished, TypeOK, Row, LeaseEnds, ledger
<1>11. CASE UNCHANGED vars
  BY <1>11, TypeOK, AnnouncedIffSucceeded, KeepsFinished DEF AnnouncedIffSucceeded,
     KeepsFinished, TypeOK, Row, vars, ledger
<1>12. ASSUME NEW e \in Executors, Replay(e) PROVE AnnouncedIffSucceeded'
  BY <1>12, TypeOK, AnnouncedIffSucceeded, KeepsFinished DEF AnnouncedIffSucceeded,
     KeepsFinished, TypeOK, Row, Replay, ledger
<1>13. ASSUME NEW t \in Tickets, NEW main \in Tickets, Merge(t, main) PROVE AnnouncedIffSucceeded'
  BY <1>13, TypeOK, AnnouncedIffSucceeded, KeepsFinished DEF AnnouncedIffSucceeded,
     KeepsFinished, TypeOK, Row, Merge, ledger
<1> QED BY <1>1, <1>2, <1>3, <1>4, <1>5, <1>6, <1>7, <1>8, <1>9, <1>10, <1>11,
   <1>12, <1>13, [Next]_vars DEF Next

\* A second executor can only win a row without a lease, and the one who has the
\* row keeps its lease.
LEMMA ExclusiveStep ==
    ASSUME TypeOK, LeasedIsRunning, LeaseHeld, NoConcurrentExecution, [Next]_vars
    PROVE  LeaseHeld' /\ NoConcurrentExecution'
<1> USE EffectsAssumption
<1>1. ASSUME NEW e \in Executors, StartNode(e) PROVE LeaseHeld' /\ NoConcurrentExecution'
  BY <1>1, TypeOK, LeaseHeld, NoConcurrentExecution DEF LeaseHeld,
     NoConcurrentExecution, Executing, TypeOK, StartNode, Goto, ledger
<1>2. ASSUME NEW e \in Executors, Lookup(e) PROVE LeaseHeld' /\ NoConcurrentExecution'
  <2>1. effect' = effect /\ key' = key /\ acquired' = acquired
    BY <1>2 DEF Lookup, ledger
  <2>2. pc[e] = "lookup" /\ \A d \in Executors : d # e => pc'[d] = pc[d]
    BY <1>2, TypeOK DEF Lookup, Decide, Goto, TypeOK
  <2>3. pc'[e] \in {"create", "acquire", "replay", "error"}
    BY <1>2, TypeOK DEF Lookup, Decide, Goto, TypeOK
  <2> QED BY <2>1, <2>2, <2>3, LeaseHeld, NoConcurrentExecution
          DEF LeaseHeld, NoConcurrentExecution, Executing
<1>3. ASSUME NEW e \in Executors, Create(e) PROVE LeaseHeld' /\ NoConcurrentExecution'
  <2> DEFINE k == key[e]
  <2>1. CASE effect[k].status = "none" /\ acquired' = [acquired EXCEPT ![e] = TRUE]
             /\ effect' = [effect EXCEPT ![k] = NewRow] /\ Goto(e, "run")
    <3>1. \A d \in Executors : key[d] = k /\ k \in PromptKeys => ~Executing(d)
      BY <2>1, TypeOK, LeasedIsRunning, LeaseHeld DEF TypeOK, LeasedIsRunning, LeaseHeld
    <3> QED BY <1>3, <2>1, <3>1, TypeOK, LeaseHeld, NoConcurrentExecution
            DEF LeaseHeld, NoConcurrentExecution, Executing, TypeOK, NewRow, Create, Goto
  <2>2. CASE effect' = effect /\ acquired' = acquired /\ key' = key
             /\ \/ Decide(e, effect[k])
                \/ Goto(e, "error")
    <3>1. /\ \A d \in Executors : d # e => pc'[d] = pc[d]
          /\ pc'[e] \in {"replay", "error", "acquire"}
      BY <2>2, TypeOK DEF TypeOK, Decide, Goto
    <3> QED BY <2>2, <3>1, LeaseHeld, NoConcurrentExecution
            DEF LeaseHeld, NoConcurrentExecution, Executing
  <2> QED BY <1>3, <2>1, <2>2 DEF Create
<1>4. ASSUME NEW e \in Executors, TryAcquire(e) PROVE LeaseHeld' /\ NoConcurrentExecution'
  <2> DEFINE k == key[e]
  <2>1. CASE MayAcquire(effect[k], item[e])
    <3>1. \A d \in Executors : key[d] = k /\ k \in PromptKeys => ~Executing(d)
      BY <2>1, TypeOK, LeasedIsRunning, LeaseHeld
      DEF TypeOK, LeasedIsRunning, LeaseHeld, MayAcquire
    <3>2. /\ effect' = [effect EXCEPT ![k].status = "running", ![k].leased = TRUE,
                                       ![k].attempt = @ + 1]
          /\ acquired' = [acquired EXCEPT ![e] = TRUE]
      BY <1>4, <2>1 DEF TryAcquire
    <3> QED BY <1>4, <3>1, <3>2, TypeOK, LeaseHeld, NoConcurrentExecution
            DEF LeaseHeld, NoConcurrentExecution, Executing, TypeOK, Row, TryAcquire, Goto
  <2>2. CASE ~MayAcquire(effect[k], item[e])
    <3>1. MayAcquire(effect[k], item[e]) = FALSE
      BY <2>2 DEF MayAcquire
    <3>2. effect' = effect /\ acquired' = [acquired EXCEPT ![e] = FALSE]
      BY <1>4, <3>1 DEF TryAcquire
    <3> QED BY <1>4, <3>2, TypeOK, LeaseHeld, NoConcurrentExecution
            DEF LeaseHeld, NoConcurrentExecution, Executing, TypeOK, TryAcquire, Goto
  <2> QED BY <2>1, <2>2
<1>5. ASSUME NEW e \in Executors, Reread(e) PROVE LeaseHeld' /\ NoConcurrentExecution'
  <2>1. effect' = effect /\ key' = key /\ acquired' = acquired
    BY <1>5 DEF Reread, ledger
  <2>2. pc[e] = "reread" /\ \A d \in Executors : d # e => pc'[d] = pc[d]
    BY <1>5, TypeOK DEF Reread, Goto, TypeOK
  <2>3. pc'[e] \in {"replay", "run", "error"} /\ (pc'[e] = "run" => acquired[e])
    BY <1>5, TypeOK DEF Reread, Goto, TypeOK
  <2> QED BY <2>1, <2>2, <2>3, LeaseHeld, NoConcurrentExecution
          DEF LeaseHeld, NoConcurrentExecution, Executing
<1>6. ASSUME NEW e \in Executors, RunNode(e) PROVE LeaseHeld' /\ NoConcurrentExecution'
  <2>1. effect' = effect /\ key' = key /\ acquired' = acquired
    BY <1>6 DEF RunNode, ledger
  <2>2. pc[e] = "run" /\ \A d \in Executors : d # e => pc'[d] = pc[d]
    BY <1>6, TypeOK DEF RunNode, Goto, TypeOK
  <2>3. pc'[e] \in {"complete", "fail"}
    BY <1>6, TypeOK DEF RunNode, Goto, TypeOK
  <2> QED BY <2>1, <2>2, <2>3, LeaseHeld, NoConcurrentExecution
          DEF LeaseHeld, NoConcurrentExecution, Executing
<1>7. ASSUME NEW e \in Executors, Complete(e) PROVE LeaseHeld' /\ NoConcurrentExecution'
  <2> DEFINE k == key[e]
  <2>1. Executing(e)
    BY <1>7, LeaseHeld DEF LeaseHeld, Executing, Complete
  <2>2. \A d \in Executors : d # e /\ key[d] = k /\ k \in PromptKeys => ~Executing(d)
    BY <2>1, NoConcurrentExecution DEF NoConcurrentExecution
  <2>3. \A l \in Keys : l # k => effect'[l] = effect[l]
    BY <1>7, TypeOK DEF Complete, TypeOK, ledger
  <2>4. /\ key' = key /\ acquired' = acquired
        /\ pc'[e] \in {"ok", "error"} /\ \A d \in Executors : d # e => pc'[d] = pc[d]
    BY <1>7, TypeOK DEF Complete, Goto, TypeOK
  <2> QED BY <2>2, <2>3, <2>4, TypeOK, LeaseHeld, NoConcurrentExecution
          DEF LeaseHeld, NoConcurrentExecution, Executing, TypeOK
<1>8. ASSUME NEW e \in Executors, Fail(e) PROVE LeaseHeld' /\ NoConcurrentExecution'
  <2> DEFINE k == key[e]
  <2>1. Executing(e)
    BY <1>8, LeaseHeld DEF LeaseHeld, Executing, Fail
  <2>2. \A d \in Executors : d # e /\ key[d] = k /\ k \in PromptKeys => ~Executing(d)
    BY <2>1, NoConcurrentExecution DEF NoConcurrentExecution
  <2>3. \A l \in Keys : l # k => effect'[l] = effect[l]
    BY <1>8, TypeOK DEF Fail, TypeOK, ledger
  <2>4. /\ key' = key /\ acquired' = acquired
        /\ pc'[e] \in {"ok", "error"} /\ \A d \in Executors : d # e => pc'[d] = pc[d]
    BY <1>8, TypeOK DEF Fail, Goto, TypeOK
  <2> QED BY <2>2, <2>3, <2>4, TypeOK, LeaseHeld, NoConcurrentExecution
          DEF LeaseHeld, NoConcurrentExecution, Executing, TypeOK
<1>9. ASSUME NEW e \in Executors, Crash(e) PROVE LeaseHeld' /\ NoConcurrentExecution'
  BY <1>9, TypeOK, LeaseHeld, NoConcurrentExecution DEF LeaseHeld,
     NoConcurrentExecution, Executing, TypeOK, Crash, Goto, ledger
<1>10. ASSUME NEW k \in Keys, LeaseEnds(k) PROVE LeaseHeld' /\ NoConcurrentExecution'
  BY <1>10, TypeOK, LeasedIsRunning, LeaseHeld, NoConcurrentExecution DEF LeaseHeld,
     NoConcurrentExecution, LeasedIsRunning, Executing, TypeOK, Row, LeaseEnds, ledger
<1>11. CASE UNCHANGED vars
  BY <1>11, LeaseHeld, NoConcurrentExecution DEF LeaseHeld,
     NoConcurrentExecution, Executing, vars, ledger
<1>12. ASSUME NEW e \in Executors, Replay(e) PROVE LeaseHeld' /\ NoConcurrentExecution'
  <2>1. effect' = effect /\ key' = key /\ acquired' = acquired
    BY <1>12 DEF Replay, ledger
  <2>2. /\ pc'[e] \in {"ok", "error"}
        /\ \A d \in Executors : d # e => pc'[d] = pc[d]
    BY <1>12, TypeOK DEF Replay, Goto, TypeOK
  <2> QED BY <2>1, <2>2, LeaseHeld, NoConcurrentExecution
          DEF LeaseHeld, NoConcurrentExecution, Executing
<1>13. ASSUME NEW t \in Tickets, NEW main \in Tickets, Merge(t, main) PROVE LeaseHeld' /\ NoConcurrentExecution'
  BY <1>13, LeaseHeld, NoConcurrentExecution DEF LeaseHeld,
     NoConcurrentExecution, Executing, Merge, ledger
<1> QED BY <1>1, <1>2, <1>3, <1>4, <1>5, <1>6, <1>7, <1>8, <1>9, <1>10, <1>11,
   <1>12, <1>13, [Next]_vars DEF Next

\* An empty ledger and idle executors satisfy the invariant.
LEMMA InitIInv == Init => IInv
BY EffectsAssumption DEF Init, IInv, TypeOK, LeasedIsRunning, ResultsAgree, ReplaysStored,
   AnnouncedIffSucceeded,
   LeaseHeld, NoConcurrentExecution, Executing, Row, NoRow

\* The parts of the invariant support each other across every step.
LEMMA IInvStep == IInv /\ [Next]_vars => IInv' /\ KeepsFinished
<1> SUFFICES ASSUME IInv, [Next]_vars
    PROVE  IInv' /\ KeepsFinished
  OBVIOUS
<1>1. KeepsFinished
  BY FinishedStep DEF IInv
<1>2. TypeOK' /\ LeasedIsRunning'
  BY TypeStep, LeasedStep DEF IInv
<1>3. ResultsAgree' /\ ReplaysStored' /\ AnnouncedIffSucceeded'
  BY <1>1, ResultsStep, AnnouncedStep DEF IInv
<1>4. LeaseHeld' /\ NoConcurrentExecution'
  BY ExclusiveStep DEF IInv
<1> QED BY <1>1, <1>2, <1>3, <1>4 DEF IInv

\* The invariant holds in every reachable state.
THEOREM LedgerInvariant == Spec => []IInv
BY InitIInv, IInvStep, PTL DEF Spec

\* Rows, copies and outputs of the workflow effect store are well-typed.
THEOREM TypeCorrect == Spec => []TypeOK
<1>1. IInv => TypeOK
  BY DEF IInv
<1> QED BY <1>1, LedgerInvariant, PTL

\* Whoever goes on with the result of a node goes on with the one Complete
\* stored or, for a ticket, with the ticket executeNode resolved it to: the
\* one it was merged into.  For any number of executors, any answers of their
\* nodes and any merges.
THEOREM AllRunsAgree == Spec => []ResultsAgree
<1>1. IInv => ResultsAgree
  BY DEF IInv
<1> QED BY <1>1, LedgerInvariant, PTL

\* The event Complete stores and the row it marks never contradict each other.
THEOREM AnnouncementsAreTrue == Spec => []AnnouncedIffSucceeded
<1>1. IInv => AnnouncedIffSucceeded
  BY DEF IInv
<1> QED BY <1>1, LedgerInvariant, PTL

\* The lease of Acquire excludes a second executor while executors are prompt.
THEOREM LeaseExcludes == Spec => []NoConcurrentExecution
<1>1. IInv => NoConcurrentExecution
  BY DEF IInv
<1> QED BY <1>1, LedgerInvariant, PTL

\* No TryAcquire, MarkSucceeded or MarkFailed changes a finished row.
THEOREM FinishedStaysFinished == Spec => SucceededIsFinal
<1>1. IInv /\ [Next]_vars =>
         [\A k \in Keys : effect[k].status = "succeeded" => effect'[k] = effect[k]]_vars
  BY IInvStep DEF KeepsFinished
<1> QED BY <1>1, LedgerInvariant, PTL DEF Spec, SucceededIsFinal

============================================================================
