------------------------- MODULE EventOutboxProofs -------------------------
(***************************************************************************)
(* Proofs about EventOutbox, for every set of events and relays, every     *)
(* retry limit and every length of the lease.                              *)
(***************************************************************************)
EXTENDS EventOutbox, TLAPS

\* A relay that is processing a record holds a copy of a real row.
RelayType == \A w \in Workers : Busy(w) => record[w] \in Copy

\* Writing a row keeps the table well typed.
LEMMA WrittenType ==
    ASSUME TypeOK, NEW e \in Events, NEW s \in Statuses, NEW n \in Nat, NEW t \in Nat, NEW l \in Nat
    PROVE  Written(e, s, n, t, l) \in [Events -> Row]
BY DEF TypeOK, Written, Row

\* Clocks never run below zero.
LEMMA MonusType == ASSUME NEW a \in Nat, NEW b \in Nat PROVE Monus(a, b) \in Nat
BY DEF Monus

\* Initially everything is well typed.
LEMMA TypeInit == Init => TypeOK /\ RelayType
BY OutboxAssumption DEF Init, TypeOK, RelayType, Busy, Row, NoRow, NoCopy, Workers

\* Every step keeps the types.
LEMMA TypeStep == TypeOK /\ RelayType /\ [Next]_vars => TypeOK' /\ RelayType'
<1> SUFFICES ASSUME TypeOK, RelayType, [Next]_vars PROVE TypeOK' /\ RelayType'
  OBVIOUS
<1> USE OutboxAssumption
<1>1. ASSUME NEW e \in Events, EnqueueTx(e) PROVE TypeOK' /\ RelayType'
  <2>1. CASE \E m \in RetryLimits : EnqueueNew(e, m)
    BY <2>1 DEF EnqueueNew, NewRow, Row, Statuses, relayVars, TypeOK, RelayType, Busy
  <2>2. CASE EnqueueReplay(e)
    <3>1. outbox' \in [Events -> Row]
      BY <2>2, WrittenType DEF EnqueueReplay, Statuses
    <3> QED BY <2>2, <3>1 DEF EnqueueReplay, relayVars, TypeOK, RelayType, Busy
  <2> QED BY <1>1, <2>1, <2>2 DEF EnqueueTx
<1>2. ASSUME NEW w \in Publishers, NEW e \in Events, Publish(w, e) PROVE TypeOK' /\ RelayType'
  <2>1. w \in Workers BY DEF Workers
  <2>2. outbox' \in [Events -> Row]
    BY <1>2 DEF Publish, NewRow, Row, Statuses, TypeOK
  <2>3. batch' \in [Workers -> SUBSET Copy]
    BY <1>2, <2>1 DEF Publish, Copy, TypeOK
  <2> QED BY <1>2, <2>2, <2>3 DEF Publish, TypeOK, RelayType, Busy
<1>3. ASSUME NEW w \in Pollers, Poll(w) PROVE TypeOK' /\ RelayType'
  <2>1. w \in Workers BY DEF Workers
  <2>2. \A e \in Events : CopyOf(e) \in Copy
    BY DEF CopyOf, Copy, Row, TypeOK
  <2>3. batch' \in [Workers -> SUBSET Copy]
    BY <1>3, <2>1, <2>2 DEF Poll, TypeOK
  <2> QED BY <1>3, <2>3 DEF Poll, TypeOK, RelayType, Busy, rowVars, historyVars
<1>4. ASSUME NEW w \in Workers, NEW copy \in batch[w], Claim(w, copy) PROVE TypeOK' /\ RelayType'
  <2>1. copy \in Copy BY DEF TypeOK
  <2>2. copy.event \in Events BY <2>1 DEF Copy
  <2>3. outbox[copy.event] \in Row BY <2>2 DEF TypeOK
  <2>4. Written(copy.event, "publishing", outbox[copy.event].retry_count,
                outbox[copy.event].next_retry, Minute) \in [Events -> Row]
    BY <2>2, <2>3, WrittenType DEF Statuses, Row
  <2>5. outbox' \in [Events -> Row]
    BY <1>4, <2>4 DEF Claim, TypeOK
  <2>6. servedBy' \in [Workers -> 0..MaxRequests]
    BY <1>4, <2>2 DEF Claim, TypeOK
  <2>7. record' \in [Workers -> Copy \cup {NoCopy}] /\ RelayType'
    BY <1>4, <2>1 DEF Claim, TypeOK, RelayType, Busy
  <2>8. batch' \in [Workers -> SUBSET Copy] /\ age' \in [Workers -> 0..AgeCap]
    BY <1>4 DEF Claim, TypeOK
  <2>9. pc' \in [Workers -> {"idle", "dispatching", "delivered", "marked", "failing"}]
    BY <1>4 DEF Claim, TypeOK
  <2>10. UNCHANGED <<published_at, faults, requested, served, failures>>
    BY <1>4 DEF Claim
  <2> QED BY <2>5, <2>6, <2>7, <2>8, <2>9, <2>10 DEF TypeOK
<1>5. ASSUME NEW w \in Workers, DispatchOK(w) PROVE TypeOK' /\ RelayType'
  BY <1>5 DEF DispatchOK, rowVars, TypeOK, RelayType, Busy, Copy
<1>6. ASSUME NEW w \in Workers, DispatchError(w) PROVE TypeOK' /\ RelayType'
  BY <1>6 DEF DispatchError, rowVars, TypeOK, RelayType, Busy, Copy
<1>7. ASSUME NEW w \in Workers, MarkEvent(w) PROVE TypeOK' /\ RelayType'
  BY <1>7 DEF MarkEvent, historyVars, TypeOK, RelayType, Busy, Copy
<1>8. ASSUME NEW w \in Workers, SavePublished(w) PROVE TypeOK' /\ RelayType'
  <2>1. record[w] \in Copy BY <1>8 DEF SavePublished, RelayType, Busy
  <2>2. SavedPublished(record[w]) \in [Events -> Row]
    BY <2>1, WrittenType DEF SavedPublished, Copy, Statuses
  <2> QED BY <1>8, <2>2 DEF SavePublished, Finish, TypeOK, RelayType, Busy
<1>9. ASSUME NEW w \in Workers, SaveFailed(w) PROVE TypeOK' /\ RelayType'
  <2>1. record[w] \in Copy BY <1>9 DEF SaveFailed, RelayType, Busy
  <2>2. age[w] \in Nat BY DEF TypeOK
  <2>3. RetryDelay(record[w].retry_count + 1) \in Nat
    BY <2>1 DEF RetryDelay, Copy
  <2> DEFINE n == record[w].retry_count + 1
             t == Monus(RetryDelay(n), age[w])
  <2>4. /\ record[w].event \in Events /\ n \in Nat
        /\ t \in Nat
    <3>1. record[w].event \in Events /\ n \in Nat BY <2>1 DEF Copy
    <3>2. \A d \in Nat : Monus(d, age[w]) \in Nat BY <2>2, MonusType
    <3> QED BY <2>3, <3>1, <3>2
  <2>5. /\ Written(record[w].event, "dead", n, 0, 0) \in [Events -> Row]
        /\ Written(record[w].event, "pending", n, t, 0) \in [Events -> Row]
    <3> HIDE DEF n, t
    <3> QED BY <2>4, WrittenType DEF Statuses
  <2>6. failRecord(record[w], age[w]) \in [Events -> Row]
    BY <2>5 DEF failRecord, failRecordWhen
  <2> QED BY <1>9, <2>6 DEF SaveFailed, Finish, TypeOK, RelayType, Busy
<1>10. ASSUME NEW w \in Workers, Crash(w) PROVE TypeOK' /\ RelayType'
  BY <1>10 DEF Crash, rowVars, TypeOK, RelayType, Busy
<1>11. CASE Tick
  <2>1. \A e \in Events : Later(outbox[e]) \in Row
    BY MonusType DEF Later, TypeOK, Row
  <2>2. outbox' \in [Events -> Row]
    BY <1>11, <2>1 DEF Tick
  <2>3. age' \in [Workers -> 0..AgeCap]
    BY <1>11 DEF Tick, TypeOK
  <2> QED BY <1>11, <2>2, <2>3 DEF Tick, historyVars, TypeOK, RelayType, Busy
<1>12. CASE UNCHANGED vars
  BY <1>12 DEF vars, rowVars, relayVars, historyVars, TypeOK, RelayType, Busy
<1> QED
  BY <1>1, <1>2, <1>3, <1>4, <1>5, <1>6, <1>7, <1>8, <1>9, <1>10, <1>11, <1>12
  DEF Next, Relay

\* The type invariant holds of the relay for every value of the constants.
THEOREM TypeCorrect == Spec => []TypeOK
<1>1. Spec => [](TypeOK /\ RelayType)
  BY TypeInit, TypeStep, PTL DEF Spec
<1> QED BY <1>1, PTL

----------------------------------------------------------------------------
(* Stale copies do no harm to the retry budget *)

\* What every row copy in the hands of a relay satisfies, however stale.
CopyOK(c) ==
    /\ outbox[c.event].status # "none"
    /\ c.retry_count < outbox[c.event].max_retries
    /\ c.retry_count <= failures[c.event]

\* An exhausted row is settled, and retry_count never overstates the failures.
RowOK(e) ==
    /\ outbox[e].status \in {"pending", "publishing"} =>
           outbox[e].retry_count < outbox[e].max_retries
    /\ outbox[e].status # "none" => outbox[e].max_retries > 0
    /\ outbox[e].retry_count <= failures[e]
    /\ outbox[e].status = "dead" => failures[e] >= outbox[e].max_retries

\* The inductive invariant behind OpenRowsCanBeClaimed and DeadAfterMaxRetries.
RetryInv ==
    /\ \A e \in Events : RowOK(e)
    /\ \A w \in Workers : \A c \in batch[w] : CopyOK(c)
    /\ \A w \in Workers : Busy(w) => CopyOK(record[w])
    /\ \A w \in Workers : pc[w] = "failing" =>
           record[w].retry_count < failures[record[w].event]

\* A stored row is never unstored, its limit never changes and failures only
\* accumulate: the facts that keep an old copy meaningful.
RowPersists(e) ==
    /\ outbox[e].status # "none" => /\ outbox'[e].status # "none"
                                    /\ outbox'[e].max_retries = outbox[e].max_retries
    /\ failures'[e] >= failures[e]

\* A write to one row persists it and leaves the other rows alone.
LEMMA WrittenRow ==
    ASSUME TypeOK, NEW e \in Events, NEW s, NEW n, NEW t, NEW l, NEW f \in Events
    PROVE  /\ Written(e, s, n, t, l)[f].max_retries = outbox[f].max_retries
           /\ f # e => Written(e, s, n, t, l)[f] = outbox[f]
           /\ f = e => /\ Written(e, s, n, t, l)[f].status = s
                       /\ Written(e, s, n, t, l)[f].retry_count = n
                       /\ Written(e, s, n, t, l)[f].locked = l
BY DEF TypeOK, Written

\* Every step persists every row.
LEMMA RowsPersist ==
    ASSUME TypeOK, RelayType, [Next]_vars, NEW f \in Events PROVE RowPersists(f)
<1>1. ASSUME NEW e \in Events, EnqueueTx(e) PROVE RowPersists(f)
  <2>1. CASE \E m \in RetryLimits : EnqueueNew(e, m)
    BY <2>1 DEF EnqueueNew, RowPersists, TypeOK
  <2>2. CASE EnqueueReplay(e)
    BY <2>2, WrittenRow DEF EnqueueReplay, RowPersists, TypeOK
  <2> QED BY <1>1, <2>1, <2>2 DEF EnqueueTx
<1>2. ASSUME NEW w \in Publishers, NEW e \in Events, Publish(w, e) PROVE RowPersists(f)
  BY <1>2 DEF Publish, RowPersists, TypeOK
<1>3. ASSUME NEW w \in Pollers, Poll(w) PROVE RowPersists(f)
  BY <1>3 DEF Poll, RowPersists, TypeOK, rowVars, historyVars
<1>4. ASSUME NEW w \in Workers, NEW copy \in batch[w], Claim(w, copy) PROVE RowPersists(f)
  <2>1. copy.event \in Events BY DEF TypeOK, Copy
  <2> QED BY <1>4, <2>1, WrittenRow DEF Claim, RowPersists, TypeOK
<1>5. ASSUME NEW w \in Workers, DispatchOK(w) PROVE RowPersists(f)
  BY <1>5 DEF DispatchOK, rowVars, RowPersists, TypeOK
<1>6. ASSUME NEW w \in Workers, DispatchError(w) PROVE RowPersists(f)
  BY <1>6 DEF DispatchError, rowVars, RowPersists, TypeOK
<1>7. ASSUME NEW w \in Workers, MarkEvent(w) PROVE RowPersists(f)
  BY <1>7 DEF MarkEvent, historyVars, RowPersists, TypeOK
<1>8. ASSUME NEW w \in Workers, SavePublished(w) PROVE RowPersists(f)
  <2>1. record[w].event \in Events BY <1>8 DEF SavePublished, RelayType, Busy, Copy
  <2> QED BY <1>8, <2>1, WrittenRow
          DEF SavePublished, SavedPublished, Finish, RowPersists, TypeOK
<1>9. ASSUME NEW w \in Workers, SaveFailed(w) PROVE RowPersists(f)
  <2>1. record[w].event \in Events BY <1>9 DEF SaveFailed, RelayType, Busy, Copy
  <2> QED BY <1>9, <2>1, WrittenRow
          DEF SaveFailed, failRecord, failRecordWhen, Finish, RowPersists, TypeOK
<1>10. ASSUME NEW w \in Workers, Crash(w) PROVE RowPersists(f)
  BY <1>10 DEF Crash, rowVars, RowPersists, TypeOK
<1>11. CASE Tick
  BY <1>11 DEF Tick, Later, historyVars, RowPersists, TypeOK
<1>12. CASE UNCHANGED vars
  BY <1>12 DEF vars, rowVars, historyVars, RowPersists, TypeOK
<1> QED
  BY <1>1, <1>2, <1>3, <1>4, <1>5, <1>6, <1>7, <1>8, <1>9, <1>10, <1>11, <1>12
  DEF Next, Relay

\* Hence a good copy stays good while other relays move its row.
LEMMA CopyStaysOK ==
    ASSUME TypeOK, TypeOK', RelayType, [Next]_vars, NEW c \in Copy, CopyOK(c) PROVE CopyOK(c)'
<1>1. c.event \in Events BY DEF Copy
<1>2. RowPersists(c.event) BY <1>1, RowsPersist
<1>3. failures[c.event] \in Nat /\ failures'[c.event] \in Nat /\ c.retry_count \in Nat
  BY <1>1 DEF TypeOK, Copy
<1> QED BY <1>1, <1>2, <1>3 DEF CopyOK, RowPersists

\* The retry budget invariant survives every step.
LEMMA RetryStep == TypeOK /\ TypeOK' /\ RelayType /\ RetryInv /\ [Next]_vars => RetryInv'
<1> SUFFICES ASSUME TypeOK, TypeOK', RelayType, RetryInv, [Next]_vars PROVE RetryInv'
  OBVIOUS
<1> USE OutboxAssumption
<1>a. \A w \in Workers : \A c \in batch[w] : c \in Copy
  BY DEF TypeOK
<1>b. \A w \in Workers : \A c \in batch[w] : CopyOK(c)'
  BY <1>a, CopyStaysOK DEF RetryInv
<1>c. \A w \in Workers : Busy(w) => /\ record[w] \in Copy
                                    /\ \A c \in {record[w]} : CopyOK(c)'
  BY CopyStaysOK DEF RetryInv, RelayType
<1>d. \A e \in Events : /\ failures[e] \in Nat
                        /\ failures'[e] \in Nat
                        /\ failures'[e] >= failures[e]
                        /\ outbox[e].retry_count \in Nat
                        /\ outbox[e].max_retries \in Nat
  BY RowsPersist DEF RowPersists, TypeOK, Row
\* A row whose counters and status are unchanged stays in order.
<1>e. ASSUME NEW e \in Events, outbox'[e].status = outbox[e].status,
             outbox'[e].retry_count = outbox[e].retry_count,
             outbox'[e].max_retries = outbox[e].max_retries
      PROVE  RowOK(e)'
  BY <1>e, <1>d DEF RowOK, RetryInv
<1>1. ASSUME NEW e \in Events, EnqueueTx(e) PROVE RetryInv'
  <2>1. ASSUME NEW f \in Events PROVE RowOK(f)'
    <3>1. CASE \E m \in RetryLimits : EnqueueNew(e, m)
      <4>1. PICK m \in RetryLimits : EnqueueNew(e, m) BY <3>1
      <4>2. m \in Nat /\ m > 0 OBVIOUS
      <4>3. CASE f = e
        BY <4>1, <4>2, <4>3, <1>d DEF EnqueueNew, NewRow, RowOK, TypeOK
      <4>4. CASE f # e
        BY <4>1, <4>4, <1>e DEF EnqueueNew, TypeOK
      <4> QED BY <4>3, <4>4
    <3>2. CASE EnqueueReplay(e)
      <4>1. outbox[e].max_retries > 0
        BY <3>2 DEF EnqueueReplay, RetryInv, RowOK
      <4>2. outbox' = Written(e, "pending", 0, 0, 0)
        BY <3>2 DEF EnqueueReplay
      <4>3. CASE f = e
        BY <4>1, <4>2, <4>3, <1>d, WrittenRow DEF RowOK
      <4>4. CASE f # e
        BY <4>2, <4>4, <1>e, WrittenRow
      <4> QED BY <4>3, <4>4
    <3> QED BY <1>1, <3>1, <3>2 DEF EnqueueTx
  <2>2. UNCHANGED <<pc, batch, record>>
    BY <1>1 DEF EnqueueTx, EnqueueNew, EnqueueReplay, relayVars
  <2> QED BY <2>1, <2>2, <1>b, <1>c, <1>d DEF RetryInv, Busy, Copy
<1>2. ASSUME NEW w \in Publishers, NEW e \in Events, Publish(w, e) PROVE RetryInv'
  <2>1. ASSUME NEW f \in Events PROVE RowOK(f)'
    <3>1. CASE f = e
      BY <1>2, <3>1, <1>d DEF Publish, NewRow, RowOK, TypeOK
    <3>2. CASE f # e
      BY <1>2, <3>2, <1>e DEF Publish, TypeOK
    <3> QED BY <3>1, <3>2
  <2>2. w \in Workers BY DEF Workers
  <2>3. UNCHANGED <<pc, record>> BY <1>2 DEF Publish
  <2>4. ASSUME NEW v \in Workers, NEW c \in batch'[v] PROVE CopyOK(c)'
    <3>1. CASE v = w
      <4>1. c = [event |-> e, retry_count |-> 0]
        BY <1>2, <2>2, <3>1 DEF Publish, TypeOK
      <4> QED BY <1>2, <4>1, <1>d DEF Publish, NewRow, CopyOK, TypeOK
    <3>2. CASE v # w
      BY <1>2, <3>2, <1>b DEF Publish, TypeOK
    <3> QED BY <3>1, <3>2
  <2> QED BY <2>1, <2>3, <2>4, <1>c, <1>d DEF RetryInv, Busy, Copy
<1>3. ASSUME NEW w \in Pollers, Poll(w) PROVE RetryInv'
  <2>1. w \in Workers BY DEF Workers
  <2>2. UNCHANGED <<outbox, failures, pc, record>>
    BY <1>3 DEF Poll, rowVars, historyVars
  <2>3. ASSUME NEW v \in Workers, NEW c \in batch'[v] PROVE CopyOK(c)'
    <3>1. CASE v = w
      <4>1. PICK e \in Events : c = CopyOf(e) /\ Claimable(e)
        BY <1>3, <2>1, <3>1 DEF Poll, TypeOK
      <4>2. CopyOK(c)
        BY <4>1 DEF CopyOf, CopyOK, Claimable, RetryInv, RowOK
      <4> QED BY <4>2, <2>2 DEF CopyOK
    <3>2. CASE v # w
      BY <1>3, <3>2, <1>b DEF Poll, TypeOK
    <3> QED BY <3>1, <3>2
  <2> QED BY <2>2, <2>3 DEF RetryInv, Busy, CopyOK, RowOK
<1>4. ASSUME NEW w \in Workers, NEW copy \in batch[w], Claim(w, copy) PROVE RetryInv'
  <2>1. copy.event \in Events BY <1>a DEF Copy
  <2>2. ASSUME NEW f \in Events PROVE RowOK(f)'
    <3>1. CASE Claimable(copy.event)
      <4>1. outbox' = Written(copy.event, "publishing", outbox[copy.event].retry_count,
                              outbox[copy.event].next_retry, Minute)
        BY <1>4, <3>1 DEF Claim
      <4>2. CASE f = copy.event
        BY <2>1, <3>1, <4>1, <4>2, <1>d, WrittenRow DEF Claimable, RowOK, RetryInv
      <4>3. CASE f # copy.event
        BY <2>1, <4>1, <4>3, <1>e, WrittenRow
      <4> QED BY <4>2, <4>3
    <3>2. CASE ~Claimable(copy.event)
      BY <1>4, <3>2, <1>e DEF Claim
    <3> QED BY <3>1, <3>2
  <2>3. \A v \in Workers : batch'[v] \subseteq batch[v]
    BY <1>4 DEF Claim, TypeOK
  <2>4. ASSUME NEW v \in Workers, Busy(v)' PROVE CopyOK(record[v])'
    <3>1. CASE v = w
      <4>1. record'[v] = copy BY <1>4, <2>4, <3>1 DEF Claim, Busy, TypeOK
      <4>2. CopyOK(copy)' BY <1>b
      <4> QED BY <4>1, <4>2 DEF CopyOK
    <3>2. CASE v # w
      <4>1. record'[v] = record[v] /\ Busy(v)
        BY <1>4, <2>4, <3>2 DEF Claim, Busy, TypeOK
      <4> QED BY <4>1, <1>c DEF CopyOK
    <3> QED BY <3>1, <3>2
  <2>5. ASSUME NEW v \in Workers, pc'[v] = "failing"
        PROVE  (record[v].retry_count < failures[record[v].event])'
    BY <1>4, <2>5 DEF Claim, TypeOK, RetryInv
  <2> QED BY <2>2, <2>3, <2>4, <2>5, <1>b DEF RetryInv
<1>5. ASSUME NEW w \in Workers, DispatchOK(w) \/ MarkEvent(w) PROVE RetryInv'
  <2>1. UNCHANGED <<outbox, failures, batch, record>>
    BY <1>5 DEF DispatchOK, MarkEvent, rowVars, historyVars
  <2>2. \A v \in Workers : /\ Busy(v)' => Busy(v)
                           /\ pc'[v] = "failing" => pc[v] = "failing"
    BY <1>5 DEF DispatchOK, MarkEvent, Busy, TypeOK
  <2> QED BY <2>1, <2>2 DEF RetryInv, RowOK, CopyOK
<1>6. ASSUME NEW w \in Workers, DispatchError(w) PROVE RetryInv'
  <2>1. UNCHANGED <<outbox, batch, record>>
    BY <1>6 DEF DispatchError, rowVars
  <2>2. \A e \in Events : RowOK(e)'
    BY <2>1, <1>e
  <2>3. \A v \in Workers : Busy(v)' => Busy(v)
    BY <1>6 DEF DispatchError, Busy, TypeOK
  <2>4. ASSUME NEW v \in Workers, pc'[v] = "failing"
        PROVE  (record[v].retry_count < failures[record[v].event])'
    <3>1. CASE v = w
      <4>1. Busy(w) BY <1>6 DEF DispatchError, Busy
      <4>2. record[w].event \in Events /\ record[w].retry_count \in Nat
        BY <4>1, <1>c DEF Copy
      <4>3. failures'[record[w].event] = failures[record[w].event] + 1
        BY <1>6, <4>2 DEF DispatchError, TypeOK
      <4>4. record[w].retry_count <= failures[record[w].event]
        BY <4>1 DEF RetryInv, CopyOK
      <4> QED BY <2>1, <3>1, <4>2, <4>3, <4>4, <1>d
    <3>2. CASE v # w
      <4>1. pc[v] = "failing" BY <1>6, <2>4, <3>2 DEF DispatchError, TypeOK
      <4>2. record[v].event \in Events /\ record[v].retry_count \in Nat
        BY <4>1, <1>c DEF Copy, Busy
      <4> QED BY <2>1, <4>1, <4>2, <1>d DEF RetryInv
    <3> QED BY <3>1, <3>2
  <2> QED BY <2>1, <2>2, <2>3, <2>4, <1>b, <1>c DEF RetryInv, CopyOK
<1>7. ASSUME NEW w \in Workers, SavePublished(w) PROVE RetryInv'
  <2>1. record[w].event \in Events /\ Busy(w)
    BY <1>7, <1>c DEF SavePublished, Busy, Copy
  <2>2. ASSUME NEW f \in Events PROVE RowOK(f)'
    <3>1. CASE outbox' = SavedPublished(record[w]) /\ f = record[w].event
      <4>1. outbox' = Written(f, "published", record[w].retry_count, 0, 0)
        BY <3>1 DEF SavedPublished
      <4>2. /\ record[w].retry_count \in Nat
            /\ record[w].retry_count <= failures[f]
            /\ record[w].retry_count < outbox[f].max_retries
        BY <2>1, <3>1, <1>c DEF RetryInv, CopyOK, Copy
      <4> QED BY <4>1, <4>2, <1>d, WrittenRow DEF RowOK
    <3>2. CASE outbox' = SavedPublished(record[w]) /\ f # record[w].event
      BY <2>1, <3>2, <1>e, WrittenRow DEF SavedPublished
    <3>3. CASE UNCHANGED outbox
      BY <3>3, <1>e
    <3> QED BY <1>7, <3>1, <3>2, <3>3 DEF SavePublished
  <2>3. \A v \in Workers : Busy(v)' => /\ v # w /\ Busy(v)
                                       /\ record'[v] = record[v] /\ pc'[v] = pc[v]
    BY <1>7 DEF SavePublished, Finish, Busy, TypeOK
  <2>4. UNCHANGED <<batch, failures>>
    BY <1>7 DEF SavePublished, Finish
  <2> QED BY <2>2, <2>3, <2>4, <1>b, <1>c DEF RetryInv, CopyOK, Busy
<1>8. ASSUME NEW w \in Workers, SaveFailed(w) PROVE RetryInv'
  <2>1. record[w].event \in Events /\ record[w].retry_count \in Nat /\ Busy(w)
    BY <1>8, <1>c DEF SaveFailed, Busy, Copy
  <2>2. /\ record[w].retry_count < failures[record[w].event]
        /\ record[w].retry_count < outbox[record[w].event].max_retries
        /\ outbox[record[w].event].status # "none"
    BY <1>8, <2>1 DEF SaveFailed, RetryInv, CopyOK
  <2>3. UNCHANGED <<batch, failures>>
    BY <1>8 DEF SaveFailed, Finish
  <2>4. ASSUME NEW f \in Events PROVE RowOK(f)'
    <3>1. CASE UNCHANGED outbox
      BY <3>1, <1>e
    <3>2. CASE outbox' = failRecord(record[w], age[w])
      <4> DEFINE n == record[w].retry_count + 1
      <4>1. CASE n >= outbox[record[w].event].max_retries
        <5>1. outbox' = Written(record[w].event, "dead", n, 0, 0)
          BY <3>2, <4>1 DEF failRecord, failRecordWhen
        <5>2. /\ outbox'[f].max_retries = outbox[f].max_retries
              /\ f # record[w].event => outbox'[f] = outbox[f]
              /\ f = record[w].event => /\ outbox'[f].status = "dead"
                                        /\ outbox'[f].retry_count = n
          BY <2>1, <5>1, WrittenRow
        <5>3. outbox[f].max_retries \in Nat /\ failures[f] \in Nat /\ n \in Nat
          BY <2>1, <1>d
        <5>4. CASE f # record[w].event
          BY <2>3, <5>2, <5>4, <1>e DEF RowOK
        <5>5. CASE f = record[w].event
          BY <2>1, <2>2, <2>3, <4>1, <5>2, <5>3, <5>5, <1>e DEF RowOK
        <5> QED BY <5>4, <5>5
      <4>2. CASE ~(n >= outbox[record[w].event].max_retries)
        <5>1. outbox' = Written(record[w].event, "pending", n,
                                Monus(RetryDelay(n), age[w]), 0)
          BY <3>2, <4>2 DEF failRecord, failRecordWhen
        <5>2. /\ outbox'[f].max_retries = outbox[f].max_retries
              /\ f # record[w].event => outbox'[f] = outbox[f]
              /\ f = record[w].event => /\ outbox'[f].status = "pending"
                                        /\ outbox'[f].retry_count = n
          BY <2>1, <5>1, WrittenRow
        <5>3. outbox[f].max_retries \in Nat /\ failures[f] \in Nat /\ n \in Nat
          BY <2>1, <1>d
        <5>4. CASE f # record[w].event
          BY <2>3, <5>2, <5>4, <1>e DEF RowOK
        <5>5. CASE f = record[w].event
          BY <2>1, <2>2, <2>3, <4>2, <5>2, <5>3, <5>5, <1>e DEF RowOK
        <5> QED BY <5>4, <5>5
      <4> QED BY <4>1, <4>2
    <3> QED BY <1>8, <3>1, <3>2 DEF SaveFailed
  <2>5. \A v \in Workers : Busy(v)' => /\ v # w /\ Busy(v)
                                       /\ record'[v] = record[v] /\ pc'[v] = pc[v]
    BY <1>8 DEF SaveFailed, Finish, Busy, TypeOK
  <2> QED BY <2>3, <2>4, <2>5, <1>b, <1>c DEF RetryInv, CopyOK, Busy
<1>9. ASSUME NEW w \in Workers, Crash(w) PROVE RetryInv'
  <2>1. UNCHANGED <<outbox, failures>>
    BY <1>9 DEF Crash, rowVars
  <2>2. \A v \in Workers : batch'[v] \subseteq batch[v]
    BY <1>9 DEF Crash, TypeOK
  <2>3. \A v \in Workers : Busy(v)' => /\ Busy(v)
                                       /\ record'[v] = record[v] /\ pc'[v] = pc[v]
    BY <1>9 DEF Crash, Busy, TypeOK
  <2> QED BY <2>1, <2>2, <2>3 DEF RetryInv, RowOK, CopyOK, Busy
<1>10. CASE Tick
  <2>1. \A e \in Events : RowOK(e)'
    BY <1>10, <1>e DEF Tick, Later
  <2>2. UNCHANGED <<pc, batch, record, failures>>
    BY <1>10 DEF Tick, historyVars
  <2> QED BY <2>1, <2>2, <1>b, <1>c DEF RetryInv, Busy
<1>11. CASE UNCHANGED vars
  BY <1>11 DEF vars, rowVars, relayVars, historyVars, RetryInv, RowOK, CopyOK, Busy
<1> QED
  BY <1>1, <1>2, <1>3, <1>4, <1>5, <1>6, <1>7, <1>8, <1>9, <1>10, <1>11
  DEF Next, Relay

\* Types and retry budget hold together in every reachable state.
LEMMA RetryInvariant == Spec => [](TypeOK /\ RelayType /\ RetryInv)
<1>1. Init => RetryInv
  BY OutboxAssumption DEF Init, RetryInv, RowOK, Busy, NoRow
<1> QED BY <1>1, TypeInit, TypeStep, RetryStep, PTL DEF Spec

\* No open row of the outbox is ever exhausted, even when relays write back
\* stale retry counts over rows they no longer own.
THEOREM OpenRowsCanBeClaimedHolds == Spec => []OpenRowsCanBeClaimed
<1>1. RetryInv => OpenRowsCanBeClaimed
  BY DEF RetryInv, RowOK, OpenRowsCanBeClaimed
<1> QED BY <1>1, RetryInvariant, PTL

\* The relay dead-letters an event only after max_retries real failures.
THEOREM DeadAfterMaxRetriesHolds == Spec => []DeadAfterMaxRetries
<1>1. RetryInv => DeadAfterMaxRetries
  BY DEF RetryInv, RowOK, DeadAfterMaxRetries
<1> QED BY <1>1, RetryInvariant, PTL

----------------------------------------------------------------------------
(* A published row was delivered *)

\* The inductive invariant behind PublishedWasDelivered: a claim answers some
\* request, and a relay past the handlers has served one.
ServedInv ==
    /\ \A e \in Events : outbox[e].status # "none" => requested[e] > 0
    /\ \A w \in Workers : Busy(w) => servedBy[w] > 0
    /\ \A w \in Workers : pc[w] \in {"delivered", "marked"} => served[record[w].event] > 0
    /\ PublishedWasDelivered

\* It survives every step: only a relay past the handlers writes "published".
LEMMA ServedStep ==
    TypeOK /\ TypeOK' /\ RelayType /\ RetryInv /\ ServedInv /\ [Next]_vars => ServedInv'
<1> SUFFICES ASSUME TypeOK, TypeOK', RelayType, RetryInv, ServedInv, [Next]_vars
             PROVE  ServedInv'
  OBVIOUS
<1>a. \A w \in Workers : Busy(w) => record[w] \in Copy /\ record[w].event \in Events
  BY DEF RelayType, Copy
<1>b. \A w \in Workers : \A c \in batch[w] :
          c.event \in Events /\ outbox[c.event].status # "none"
  BY DEF TypeOK, Copy, RetryInv, CopyOK
<1>c. \A e \in Events : requested[e] \in Nat /\ served[e] \in Nat
  BY OutboxAssumption DEF TypeOK
<1>1. ASSUME NEW e \in Events, EnqueueTx(e) PROVE ServedInv'
  <2>1. \A f \in Events : /\ requested'[f] = IF f = e THEN requested[f] + 1 ELSE requested[f]
                          /\ f # e => outbox'[f] = outbox[f]
                          /\ f = e => outbox'[f].status = "pending"
    BY <1>1, WrittenRow DEF EnqueueTx, EnqueueNew, EnqueueReplay, NewRow, TypeOK
  <2>2. UNCHANGED <<pc, record, served, servedBy>>
    BY <1>1 DEF EnqueueTx, EnqueueNew, EnqueueReplay, relayVars
  <2> QED BY <2>1, <2>2, <1>c DEF ServedInv, PublishedWasDelivered, Busy
<1>2. ASSUME NEW w \in Publishers, NEW e \in Events, Publish(w, e) PROVE ServedInv'
  <2>1. \A f \in Events : /\ requested'[f] = IF f = e THEN requested[f] + 1 ELSE requested[f]
                          /\ f # e => outbox'[f] = outbox[f]
                          /\ f = e => outbox'[f].status = "pending"
    BY <1>2 DEF Publish, NewRow, TypeOK
  <2>2. UNCHANGED <<pc, record, served, servedBy>>
    BY <1>2 DEF Publish
  <2> QED BY <2>1, <2>2, <1>c DEF ServedInv, PublishedWasDelivered, Busy
<1>3. ASSUME NEW w \in Pollers, Poll(w) PROVE ServedInv'
  BY <1>3 DEF Poll, rowVars, historyVars, ServedInv, PublishedWasDelivered, Busy
<1>4. ASSUME NEW w \in Workers, NEW copy \in batch[w], Claim(w, copy) PROVE ServedInv'
  <2>1. copy.event \in Events /\ requested[copy.event] > 0
    BY <1>b DEF ServedInv
  <2>2. UNCHANGED <<requested, served>> BY <1>4 DEF Claim
  <2>3. \A f \in Events : \/ outbox'[f].status = outbox[f].status
                          \/ f = copy.event /\ outbox'[f].status = "publishing"
    BY <1>4, <2>1, WrittenRow DEF Claim
  <2>4. ASSUME NEW v \in Workers PROVE (Busy(v) => servedBy[v] > 0)'
    BY <1>4, <2>1 DEF Claim, Busy, ServedInv, TypeOK
  <2>5. ASSUME NEW v \in Workers, pc'[v] \in {"delivered", "marked"}
        PROVE  pc'[v] = pc[v] /\ record'[v] = record[v]
    BY <1>4, <2>5 DEF Claim, TypeOK
  <2> QED BY <2>1, <2>2, <2>3, <2>4, <2>5, <1>b DEF ServedInv, PublishedWasDelivered
<1>5. ASSUME NEW w \in Workers, DispatchOK(w) PROVE ServedInv'
  <2>1. UNCHANGED <<outbox, record, requested, servedBy>>
    BY <1>5 DEF DispatchOK, rowVars
  <2>2. Busy(w) BY <1>5 DEF DispatchOK, Busy
  <2>3. servedBy[w] > 0 /\ servedBy[w] \in Nat
    BY <2>2, OutboxAssumption DEF ServedInv, TypeOK
  <2>4. /\ \A f \in Events : served'[f] >= served[f]
        /\ served'[record[w].event] > 0
    BY <1>5, <2>2, <2>3, <1>a, <1>c DEF DispatchOK, TypeOK
  <2>5. \A v \in Workers : v # w => pc'[v] = pc[v]
    BY <1>5 DEF DispatchOK, TypeOK
  <2>6. \A f \in Events : served'[f] \in Nat
    BY OutboxAssumption DEF TypeOK
  <2>7. ASSUME NEW v \in Workers, pc'[v] \in {"delivered", "marked"}
        PROVE  served'[record'[v].event] > 0
    <3>1. CASE v = w
      BY <2>1, <2>4, <3>1
    <3>2. CASE v # w
      <4>1. pc[v] \in {"delivered", "marked"} BY <2>5, <2>7, <3>2
      <4>2. record[v].event \in Events BY <4>1, <1>a DEF Busy
      <4> QED BY <2>1, <2>4, <2>6, <4>1, <4>2, <1>c DEF ServedInv
    <3> QED BY <3>1, <3>2
  <2>8. \A v \in Workers : Busy(v)' => Busy(v)
    BY <2>2, <2>5 DEF Busy
  <2> QED BY <2>1, <2>4, <2>6, <2>7, <2>8, <1>c DEF ServedInv, PublishedWasDelivered
<1>6. ASSUME NEW w \in Workers, DispatchError(w) \/ MarkEvent(w) PROVE ServedInv'
  <2>1. UNCHANGED <<outbox, record, requested, served, servedBy>>
    BY <1>6 DEF DispatchError, MarkEvent, rowVars, historyVars
  <2>2. \A v \in Workers : /\ Busy(v)' => Busy(v)
                           /\ pc'[v] \in {"delivered", "marked"} => pc[v] \in {"delivered", "marked"}
    BY <1>6 DEF DispatchError, MarkEvent, Busy, TypeOK
  <2> QED BY <2>1, <2>2 DEF ServedInv, PublishedWasDelivered
<1>7. ASSUME NEW w \in Workers, SavePublished(w) \/ SaveFailed(w) PROVE ServedInv'
  <2>1. Busy(w) /\ record[w].event \in Events
    BY <1>7, <1>a DEF SavePublished, SaveFailed, Busy
  <2>2. UNCHANGED <<requested, served>>
    BY <1>7 DEF SavePublished, SaveFailed, Finish
  <2>3. \A v \in Workers : Busy(v)' => /\ Busy(v) /\ pc'[v] = pc[v]
                                       /\ record'[v] = record[v] /\ servedBy'[v] = servedBy[v]
    BY <1>7 DEF SavePublished, SaveFailed, Finish, Busy, TypeOK
  <2>4. \A f \in Events : \/ outbox'[f].status = outbox[f].status
                          \/ /\ f = record[w].event /\ outbox[f].status # "none"
                             /\ outbox'[f].status = "published" => pc[w] = "marked"
    BY <1>7, <2>1, WrittenRow
    DEF SavePublished, SavedPublished, SaveFailed, failRecord, failRecordWhen, RetryInv, CopyOK
  <2> QED BY <2>1, <2>2, <2>3, <2>4 DEF ServedInv, PublishedWasDelivered, Busy
<1>8. ASSUME NEW w \in Workers, Crash(w) PROVE ServedInv'
  <2>1. \A v \in Workers : Busy(v)' => /\ Busy(v) /\ pc'[v] = pc[v]
                                       /\ record'[v] = record[v] /\ servedBy'[v] = servedBy[v]
    BY <1>8 DEF Crash, Busy, TypeOK
  <2>2. UNCHANGED <<outbox, requested, served>>
    BY <1>8 DEF Crash, rowVars
  <2> QED BY <2>1, <2>2 DEF ServedInv, PublishedWasDelivered, Busy
<1>9. CASE Tick
  <2>1. \A f \in Events : outbox'[f].status = outbox[f].status
    BY <1>9 DEF Tick, Later
  <2>2. UNCHANGED <<pc, record, requested, served, servedBy>>
    BY <1>9 DEF Tick, historyVars
  <2> QED BY <2>1, <2>2 DEF ServedInv, PublishedWasDelivered, Busy
<1>10. CASE UNCHANGED vars
  BY <1>10 DEF vars, rowVars, relayVars, historyVars, ServedInv, PublishedWasDelivered, Busy
<1> QED
  BY <1>1, <1>2, <1>3, <1>4, <1>5, <1>6, <1>7, <1>8, <1>9, <1>10 DEF Next, Relay

\* The relay marks a row published only after every handler has succeeded.
THEOREM PublishedWasDeliveredHolds == Spec => []PublishedWasDelivered
<1>1. Init => ServedInv
  BY DEF Init, ServedInv, PublishedWasDelivered, Busy, NoRow
<1>2. ServedInv => PublishedWasDelivered
  BY DEF ServedInv
<1>3. Spec => []ServedInv
  BY <1>1, RetryInvariant, ServedStep, PTL DEF Spec
<1> QED BY <1>2, <1>3, PTL

----------------------------------------------------------------------------
(* The lease, as long as no handler outlives it *)

\* What relay w may count on while it is busy: its row is in publication, under
\* a lease that has run for exactly the relay's age, and no replay came in since
\* the claim.
Leased(w) ==
    LET e == record[w].event
    IN  /\ outbox[e].status = "publishing"
        /\ age[w] < Minute
        /\ outbox[e].locked + age[w] = Minute
        /\ servedBy[w] = requested[e]
        /\ pc[w] \in {"delivered", "marked"} => served[e] = requested[e]

\* The inductive invariant behind OnePublisher and ReplayIsServed.
LeaseInv ==
    /\ \A w \in Workers : Busy(w) => Leased(w)
    /\ OnePublisher
    /\ \A e \in Events : served[e] <= requested[e]
    /\ ReplayIsServed

LEMMA LeaseInit == Init => LeaseInv
BY DEF Init, LeaseInv, OnePublisher, ReplayIsServed, Busy, NoRow

\* A step on the row of e that leaves all busy relays and their rows alone.
LEMMA LeaseFrame ==
    ASSUME TypeOK, RelayType, LeaseInv, UNCHANGED <<served, servedBy, record, pc>>,
           \A w \in Workers : Busy(w) => age'[w] = age[w],
           NEW e \in Events, \A w \in Workers : Busy(w) => record[w].event # e,
           \A f \in Events : f # e => outbox'[f] = outbox[f] /\ requested'[f] = requested[f],
           outbox'[e].status # "published", served[e] <= requested'[e]
    PROVE  LeaseInv'
<1>1. \A w \in Workers : Busy(w)' => Busy(w) /\ record[w].event \in Events \ {e}
  BY DEF Busy, RelayType, Copy
<1>2. ASSUME NEW w \in Workers, Busy(w)' PROVE Leased(w)'
  <2>1. record[w].event \in Events \ {e} /\ Leased(w) /\ Busy(w)
    BY <1>1, <1>2 DEF LeaseInv
  <2> QED BY <2>1 DEF Leased
<1>3. OnePublisher'
  BY DEF OnePublisher, LeaseInv, Busy
<1>4. \A f \in Events : served'[f] <= requested'[f]
  BY DEF LeaseInv
<1>5. ReplayIsServed'
  BY DEF ReplayIsServed, LeaseInv
<1> QED BY <1>2, <1>3, <1>4, <1>5 DEF LeaseInv

\* The invariant survives every step: while its lease runs, a row can neither be
\* claimed nor requeued.
LEMMA LeaseStep ==
    ASSUME ~SlowDispatch, TypeOK, TypeOK', RelayType, RetryInv, LeaseInv, [Next]_vars
    PROVE  LeaseInv'
<1> USE OutboxAssumption
<1>a. ASSUME NEW w \in Workers, Busy(w)
      PROVE  /\ record[w] \in Copy /\ record[w].event \in Events
             /\ Leased(w)
             /\ age[w] \in Nat
             /\ outbox[record[w].event].locked \in Nat
             /\ outbox[record[w].event].locked > 0
  <2>1. record[w] \in Copy /\ record[w].event \in Events
    BY <1>a DEF RelayType, Copy
  <2>2. Leased(w) /\ age[w] \in Nat
    BY <1>a DEF LeaseInv, TypeOK
  <2>3. outbox[record[w].event].locked \in Nat
    BY <2>1 DEF TypeOK, Row
  <2> QED BY <2>1, <2>2, <2>3 DEF Leased
<1>b. \A e \in Events : requested[e] \in Nat /\ served[e] \in Nat /\ served[e] <= requested[e]
  BY DEF TypeOK, LeaseInv
<1>c. \A w \in Workers : \A c \in batch[w] : c \in Copy /\ c.event \in Events
  BY DEF TypeOK, Copy
\* A row that is open to a claim or a request is nobody's.
<1>d. ASSUME NEW e \in Events, Claimable(e) \/ Requeueable(e) \/ outbox[e].status = "none",
             NEW w \in Workers, Busy(w)
      PROVE  record[w].event # e
  BY <1>d, <1>a DEF Leased, Claimable, Requeueable
<1>1. ASSUME NEW e \in Events, EnqueueTx(e) PROVE LeaseInv'
  <2>1. outbox[e].status = "none" \/ Requeueable(e)
    BY <1>1 DEF EnqueueTx, EnqueueNew, EnqueueReplay
  <2>2. UNCHANGED <<served, servedBy, record, pc, age>>
    BY <1>1 DEF EnqueueTx, EnqueueNew, EnqueueReplay, relayVars
  <2>3. /\ \A f \in Events : f # e => outbox'[f] = outbox[f] /\ requested'[f] = requested[f]
        /\ requested'[e] = requested[e] + 1
        /\ outbox'[e].status = "pending"
    BY <1>1, WrittenRow DEF EnqueueTx, EnqueueNew, EnqueueReplay, NewRow, TypeOK
  <2> QED BY <2>1, <2>2, <2>3, <1>b, <1>d, LeaseFrame
<1>2. ASSUME NEW w \in Publishers, NEW e \in Events, Publish(w, e) PROVE LeaseInv'
  <2>1. outbox[e].status = "none" /\ UNCHANGED <<served, servedBy, record, pc, age>>
    BY <1>2 DEF Publish
  <2>2. /\ \A f \in Events : f # e => outbox'[f] = outbox[f] /\ requested'[f] = requested[f]
        /\ requested'[e] = requested[e] + 1
        /\ outbox'[e].status = "pending"
    BY <1>2 DEF Publish, NewRow, TypeOK
  <2> QED BY <2>1, <2>2, <1>b, <1>d, LeaseFrame
<1>3. ASSUME NEW w \in Pollers, Poll(w) PROVE LeaseInv'
  BY <1>3 DEF Poll, rowVars, historyVars, LeaseInv, Leased, OnePublisher, ReplayIsServed, Busy
<1>4. ASSUME NEW w \in Workers, NEW copy \in batch[w], Claim(w, copy) PROVE LeaseInv'
  <2> DEFINE e == copy.event
  <2>0. e \in Events /\ UNCHANGED <<served, requested>> /\ ~Busy(w)
    BY <1>4, <1>c DEF Claim, Busy
  <2>1. CASE ~Claimable(e)
    <3>1. UNCHANGED <<outbox, pc, record, servedBy>>
      BY <1>4, <2>1 DEF Claim
    <3>2. \A v \in Workers : Busy(v) => age'[v] = age[v]
      BY <1>4, <2>0 DEF Claim, TypeOK
    <3> QED BY <2>0, <3>1, <3>2 DEF LeaseInv, Leased, OnePublisher, ReplayIsServed, Busy
  <2>2. CASE Claimable(e)
    <3>1. /\ outbox'[e].status = "publishing" /\ outbox'[e].locked = Minute
          /\ \A f \in Events : f # e => outbox'[f] = outbox[f]
      BY <1>4, <2>0, <2>2, WrittenRow DEF Claim
    <3>2. /\ pc'[w] = "dispatching" /\ record'[w] = copy /\ servedBy'[w] = requested[e]
          /\ age'[w] = 0
          /\ \A v \in Workers : v # w => /\ pc'[v] = pc[v] /\ record'[v] = record[v]
                                         /\ servedBy'[v] = servedBy[v] /\ age'[v] = age[v]
      BY <1>4, <2>2 DEF Claim, TypeOK
    <3>3. \A v \in Workers : Busy(v) => record[v].event # e
      BY <2>0, <2>2, <1>d
    <3>4. Leased(w)'
      BY <2>0, <3>1, <3>2 DEF Leased
    <3>5. ASSUME NEW v \in Workers, v # w, Busy(v)'
          PROVE  /\ Leased(v)' /\ Busy(v)
                 /\ record'[v].event = record[v].event /\ record[v].event # e
      <4>1. Busy(v) BY <3>2, <3>5 DEF Busy
      <4> QED BY <2>0, <3>1, <3>2, <3>3, <3>5, <4>1, <1>a DEF Leased
    <3>6. OnePublisher'
      <4> SUFFICES ASSUME NEW u \in Workers, NEW v \in Workers, Busy(u)', Busy(v)', u # v
                   PROVE  record'[u].event # record'[v].event
        BY DEF OnePublisher
      <4>1. CASE u = w BY <3>2, <3>5, <4>1
      <4>2. CASE v = w BY <3>2, <3>5, <4>2
      <4>3. CASE u # w /\ v # w BY <3>5, <4>3 DEF LeaseInv, OnePublisher
      <4> QED BY <4>1, <4>2, <4>3
    <3>7. ReplayIsServed' /\ \A f \in Events : served'[f] <= requested'[f]
      BY <2>0, <3>1 DEF LeaseInv, ReplayIsServed
    <3> QED BY <3>4, <3>5, <3>6, <3>7 DEF LeaseInv
  <2> QED BY <2>1, <2>2
<1>5. ASSUME NEW w \in Workers, DispatchOK(w) PROVE LeaseInv'
  <2> DEFINE e == record[w].event
  <2>1. UNCHANGED <<outbox, record, age, requested, servedBy>>
    BY <1>5 DEF DispatchOK, rowVars
  <2>2. Busy(w) /\ e \in Events /\ Leased(w) /\ servedBy[w] = requested[e]
    BY <1>5, <1>a DEF DispatchOK, Busy, Leased
  <2>3. /\ pc'[w] = "delivered"
        /\ \A v \in Workers : v # w => pc'[v] = pc[v]
        /\ served'[e] = requested[e]
        /\ \A f \in Events : f # e => served'[f] = served[f]
    BY <1>5, <2>2, <1>b DEF DispatchOK, TypeOK
  <2>4. ASSUME NEW v \in Workers, Busy(v)' PROVE Leased(v)' /\ Busy(v)
    <3>1. Busy(v) BY <2>2, <2>3, <2>4 DEF Busy
    <3>2. CASE v = w BY <2>1, <2>2, <2>3, <3>1, <3>2 DEF Leased
    <3>3. CASE v # w
      <4>1. record[v].event # e BY <2>2, <3>1, <3>3 DEF LeaseInv, OnePublisher
      <4> QED BY <2>1, <2>3, <3>1, <3>3, <4>1, <1>a DEF Leased
    <3> QED BY <3>1, <3>2, <3>3
  <2>5. OnePublisher'
    BY <2>1, <2>4 DEF OnePublisher, LeaseInv
  <2>6. ReplayIsServed' /\ \A f \in Events : served'[f] <= requested'[f]
    BY <2>1, <2>2, <2>3, <1>b DEF LeaseInv, ReplayIsServed
  <2> QED BY <2>4, <2>5, <2>6 DEF LeaseInv
<1>6. ASSUME NEW w \in Workers, DispatchError(w) \/ MarkEvent(w) PROVE LeaseInv'
  <2>1. UNCHANGED <<outbox, record, age, requested, served, servedBy>>
    BY <1>6 DEF DispatchError, MarkEvent, rowVars, historyVars
  <2>2. \A v \in Workers : /\ Busy(v)' => Busy(v)
                           /\ pc'[v] \in {"delivered", "marked"} => pc[v] \in {"delivered", "marked"}
    BY <1>6 DEF DispatchError, MarkEvent, Busy, TypeOK
  <2> QED BY <2>1, <2>2 DEF LeaseInv, Leased, OnePublisher, ReplayIsServed
<1>7. ASSUME NEW w \in Workers, SavePublished(w) \/ SaveFailed(w) PROVE LeaseInv'
  <2> DEFINE e == record[w].event
  <2>1. Busy(w) /\ e \in Events /\ Leased(w)
    BY <1>7, <1>a DEF SavePublished, SaveFailed, Busy
  <2>2. UNCHANGED <<requested, served>>
    BY <1>7 DEF SavePublished, SaveFailed, Finish
  <2>3. \A v \in Workers : Busy(v)' => /\ v # w /\ Busy(v) /\ pc'[v] = pc[v] /\ age'[v] = age[v]
                                       /\ record'[v] = record[v] /\ servedBy'[v] = servedBy[v]
    BY <1>7 DEF SavePublished, SaveFailed, Finish, Busy, TypeOK
  <2>4. /\ \A f \in Events : f # e => outbox'[f] = outbox[f]
        /\ outbox'[e].status = "published" => pc[w] = "marked" \/ outbox'[e] = outbox[e]
    BY <1>7, <2>1, WrittenRow
    DEF SavePublished, SavedPublished, SaveFailed, failRecord, failRecordWhen
  <2>5. ASSUME NEW v \in Workers, Busy(v)' PROVE Leased(v)'
    <3>1. record[v].event \in Events \ {e}
      BY <2>1, <2>3, <2>5, <1>a DEF LeaseInv, OnePublisher
    <3> QED BY <2>2, <2>3, <2>4, <2>5, <3>1, <1>a DEF Leased
  <2>6. OnePublisher'
    BY <2>3 DEF LeaseInv, OnePublisher
  <2>7. ReplayIsServed' /\ \A f \in Events : served'[f] <= requested'[f]
    BY <2>1, <2>2, <2>4 DEF LeaseInv, ReplayIsServed, Leased
  <2> QED BY <2>5, <2>6, <2>7 DEF LeaseInv
<1>8. ASSUME NEW w \in Workers, Crash(w) PROVE LeaseInv'
  <2>1. \A v \in Workers : Busy(v)' => /\ Busy(v) /\ pc'[v] = pc[v] /\ age'[v] = age[v]
                                       /\ record'[v] = record[v] /\ servedBy'[v] = servedBy[v]
    BY <1>8 DEF Crash, Busy, TypeOK
  <2>2. UNCHANGED <<outbox, requested, served>>
    BY <1>8 DEF Crash, rowVars
  <2> QED BY <2>1, <2>2 DEF LeaseInv, Leased, OnePublisher, ReplayIsServed
<1>9. CASE Tick
  <2>1. \A f \in Events : /\ outbox'[f].status = outbox[f].status
                          /\ outbox'[f].locked = Monus(outbox[f].locked, 1)
    BY <1>9 DEF Tick, Later
  <2>2. UNCHANGED <<pc, record, requested, served, servedBy>>
    BY <1>9 DEF Tick, historyVars
  <2>3. ASSUME NEW w \in Workers, Busy(w)' PROVE Leased(w)'
    <3>1. Busy(w) BY <2>2, <2>3 DEF Busy
    <3>2. age[w] + 1 < Minute /\ age'[w] = age[w] + 1
      BY <1>9, <3>1, <1>a DEF Tick
    <3>3. outbox'[record[w].event].locked = outbox[record[w].event].locked - 1
      BY <2>1, <3>1, <1>a DEF Monus
    <3> QED BY <2>1, <2>2, <3>1, <3>2, <3>3, <1>a DEF Leased
  <2> QED BY <2>1, <2>2, <2>3 DEF LeaseInv, OnePublisher, ReplayIsServed, Busy
<1>10. CASE UNCHANGED vars
  BY <1>10 DEF vars, rowVars, relayVars, historyVars, LeaseInv, Leased, OnePublisher,
     ReplayIsServed, Busy
<1> QED
  BY <1>1, <1>2, <1>3, <1>4, <1>5, <1>6, <1>7, <1>8, <1>9, <1>10 DEF Next, Relay

LEMMA LeaseInvariant == ASSUME ~SlowDispatch PROVE Spec => []LeaseInv
<1>1. TypeOK /\ TypeOK' /\ RelayType /\ RetryInv /\ LeaseInv /\ [Next]_vars => LeaseInv'
  BY LeaseStep
<1> QED BY <1>1, LeaseInit, RetryInvariant, PTL DEF Spec

\* The lease of processSingleRecord excludes: if no dispatch outlives its minute, two
\* relays never run the handlers of one event at a time.
THEOREM OnePublisherHolds == ASSUME ~SlowDispatch PROVE Spec => []OnePublisher
<1>1. LeaseInv => OnePublisher
  BY DEF LeaseInv
<1> QED BY <1>1, LeaseInvariant, PTL

\* A replay that EnqueueTx accepted is honoured: whatever was in work before it, the
\* row is published only after a dispatch that began later.
THEOREM ReplayIsServedHolds == ASSUME ~SlowDispatch PROVE Spec => []ReplayIsServed
<1>1. LeaseInv => ReplayIsServed
  BY DEF LeaseInv
<1> QED BY <1>1, LeaseInvariant, PTL

----------------------------------------------------------------------------
(* The relay implements EventDelivery *)

\* Steps after which every row is as open, settled or absent as before.
LEMMA DeliveryStutters ==
    ASSUME UNCHANGED <<requested, served>>,
           \A e \in Events : deliveryState'[e] = deliveryState[e]
    PROVE  UNCHANGED Delivery!vars
<1>1. deliveryState' = deliveryState
  BY DEF deliveryState
<1> QED BY <1>1 DEF Delivery!vars

\* Steps that change the state of one row.
LEMMA DeliveryMoves ==
    ASSUME NEW e \in Events, NEW s, deliveryState'[e] = s,
           \A f \in Events : f # e => deliveryState'[f] = deliveryState[f]
    PROVE  deliveryState' = [deliveryState EXCEPT ![e] = s]
BY DEF deliveryState

\* Every step of the relay is a request, a delivery, a settlement or nothing to its
\* callers.
LEMMA DeliveryStep ==
    ASSUME ~SlowDispatch, TypeOK, TypeOK', RelayType, RetryInv, LeaseInv, [Next]_vars
    PROVE  [Delivery!Next]_(Delivery!vars)
<1> USE OutboxAssumption
<1>a. ASSUME NEW w \in Workers, Busy(w)
      PROVE  /\ record[w].event \in Events
             /\ Leased(w)
             /\ deliveryState[record[w].event] = "open"
  <2>1. record[w].event \in Events /\ Leased(w)
    BY <1>a DEF RelayType, Copy, LeaseInv
  <2> QED BY <2>1 DEF Leased, deliveryState
<1>b. ASSUME NEW f \in Events PROVE
         /\ outbox'[f].status = outbox[f].status => deliveryState'[f] = deliveryState[f]
         /\ outbox'[f].status \in {"pending", "publishing"} => deliveryState'[f] = "open"
         /\ outbox'[f].status \in {"published", "dead"} => deliveryState'[f] = outbox'[f].status
  BY DEF deliveryState
<1>1. ASSUME NEW e \in Events,
             \/ EnqueueTx(e)
             \/ \E w \in Publishers : Publish(w, e)
      PROVE  Delivery!Request(e)
  <2>1. UNCHANGED served
    BY <1>1 DEF EnqueueTx, EnqueueNew, EnqueueReplay, Publish
  <2>2. requested' = [requested EXCEPT ![e] = @ + 1]
    BY <1>1 DEF EnqueueTx, EnqueueNew, EnqueueReplay, Publish
  <2>3. /\ outbox'[e].status = "pending"
        /\ \A f \in Events : f # e => outbox'[f] = outbox[f]
    BY <1>1, WrittenRow DEF EnqueueTx, EnqueueNew, EnqueueReplay, Publish, NewRow, TypeOK
  <2>4. deliveryState' = [deliveryState EXCEPT ![e] = "open"]
    BY <2>3, <1>b, DeliveryMoves
  <2> QED BY <2>1, <2>2, <2>4 DEF Delivery!Request
<1>2. ASSUME NEW w \in Workers, NEW copy \in batch[w], Claim(w, copy)
      PROVE  UNCHANGED Delivery!vars
  <2>1. copy.event \in Events BY DEF TypeOK, Copy
  <2>2. \A f \in Events : \/ outbox'[f].status = outbox[f].status
                          \/ /\ outbox[f].status \in {"pending", "failed", "publishing"}
                             /\ outbox'[f].status = "publishing"
    BY <1>2, <2>1, WrittenRow DEF Claim, Claimable
  <2>3. \A f \in Events : deliveryState'[f] = deliveryState[f]
    BY <2>2, <1>b DEF deliveryState
  <2> QED BY <1>2, <2>3, DeliveryStutters DEF Claim
<1>3. ASSUME NEW w \in Workers, DispatchOK(w) PROVE Delivery!Deliver(record[w].event)
  <2> DEFINE e == record[w].event
  <2>1. e \in Events /\ deliveryState[e] = "open" /\ servedBy[w] = requested[e]
    BY <1>3, <1>a DEF DispatchOK, Busy, Leased
  <2>2. requested[e] \in Nat /\ served[e] \in Nat /\ served[e] <= requested[e]
    BY <2>1 DEF TypeOK, LeaseInv
  <2>3. served' = [served EXCEPT ![e] = requested[e]]
    <3>1. (IF servedBy[w] > served[e] THEN servedBy[w] ELSE served[e]) = requested[e]
      BY <2>1, <2>2
    <3> QED BY <1>3, <2>1, <3>1 DEF DispatchOK, TypeOK
  <2>4. UNCHANGED <<requested, outbox>>
    BY <1>3 DEF DispatchOK, rowVars
  <2>5. deliveryState' = deliveryState
    BY <2>4 DEF deliveryState
  <2> QED BY <2>1, <2>3, <2>4, <2>5 DEF Delivery!Deliver
<1>4. ASSUME NEW w \in Workers, SavePublished(w) \/ SaveFailed(w)
      PROVE  Delivery!Settle(record[w].event) \/ UNCHANGED Delivery!vars
  <2> DEFINE e == record[w].event
  <2>1. e \in Events /\ deliveryState[e] = "open" /\ Leased(w)
    BY <1>4, <1>a DEF SavePublished, SaveFailed, Busy
  <2>2. UNCHANGED <<requested, served>>
    BY <1>4 DEF SavePublished, SaveFailed, Finish
  <2>3. \A f \in Events : f # e => outbox'[f] = outbox[f]
    BY <1>4, <2>1, WrittenRow
    DEF SavePublished, SavedPublished, SaveFailed, failRecord, failRecordWhen
  <2>4. \/ outbox' = outbox
        \/ outbox'[e].status = "published" /\ pc[w] = "marked"
        \/ outbox'[e].status \in {"dead", "pending"}
    BY <1>4, <2>1, WrittenRow
    DEF SavePublished, SavedPublished, SaveFailed, failRecord, failRecordWhen
  <2>5. CASE outbox' = outbox \/ outbox'[e].status = "pending"
    BY <2>1, <2>2, <2>3, <2>5, <1>b, DeliveryStutters
  <2>6. CASE outbox'[e].status = "published" /\ pc[w] = "marked"
    <3>1. served[e] = requested[e]
      BY <2>1, <2>6 DEF Leased
    <3>2. deliveryState' = [deliveryState EXCEPT ![e] = "published"]
      BY <2>1, <2>3, <2>6, <1>b, DeliveryMoves
    <3> QED BY <2>1, <2>2, <3>1, <3>2 DEF Delivery!Settle
  <2>7. CASE outbox'[e].status = "dead"
    <3>1. deliveryState' = [deliveryState EXCEPT ![e] = "dead"]
      BY <2>1, <2>3, <2>7, <1>b, DeliveryMoves
    <3> QED BY <2>1, <2>2, <3>1 DEF Delivery!Settle
  <2> QED BY <2>4, <2>5, <2>6, <2>7
<1>5. ASSUME \/ \E w \in Pollers : Poll(w)
             \/ \E w \in Workers : DispatchError(w) \/ MarkEvent(w) \/ Crash(w)
             \/ Tick
             \/ UNCHANGED vars
      PROVE  UNCHANGED Delivery!vars
  <2>1. UNCHANGED <<requested, served>>
    BY <1>5 DEF Poll, DispatchError, MarkEvent, Crash, Tick, vars, historyVars
  <2>2. \A f \in Events : outbox'[f].status = outbox[f].status
    BY <1>5 DEF Poll, DispatchError, MarkEvent, Crash, Tick, Later, vars, rowVars
  <2> QED BY <2>1, <2>2, <1>b, DeliveryStutters
<1>6. CASE Next
  <2>1. CASE \E e \in Events : EnqueueTx(e) \/ \E w \in Publishers : Publish(w, e)
    BY <1>1, <2>1 DEF Delivery!Next
  <2>2. ASSUME NEW w \in Workers, Relay(w) PROVE [Delivery!Next]_(Delivery!vars)
    <3>1. Busy(w) => record[w].event \in Events
      BY <1>a
    <3>2. CASE DispatchOK(w) \/ SavePublished(w) \/ SaveFailed(w)
      <4>1. Busy(w)
        BY <3>2 DEF DispatchOK, SavePublished, SaveFailed, Busy
      <4> QED BY <1>3, <1>4, <3>1, <3>2, <4>1 DEF Delivery!Next
    <3> QED BY <1>2, <1>5, <2>2, <3>2 DEF Relay
  <2> QED BY <1>5, <1>6, <2>1, <2>2 DEF Next
<1> QED BY <1>5, <1>6

LEMMA DeliveryInit == Init => Delivery!Init
BY DEF Init, Delivery!Init, deliveryState, NoRow

\* The durable relay keeps the promise of EventDelivery to the callers of EnqueueTx and
\* Publish, if no dispatch outlives its lease: at-least-once delivery of every
\* accepted request, and a settled event stays settled until somebody asks again.
THEOREM RelayImplementsDelivery == ASSUME ~SlowDispatch PROVE Spec => ImplementsDelivery
<1>1. TypeOK /\ TypeOK' /\ RelayType /\ RetryInv /\ LeaseInv /\ [Next]_vars
        => [Delivery!Next]_(Delivery!vars)
  BY DeliveryStep
<1>2. Spec => []LeaseInv
  BY LeaseInvariant
<1> QED BY <1>1, <1>2, DeliveryInit, RetryInvariant, PTL DEF Spec, ImplementsDelivery, Delivery!Spec

\* Polling never publishes a settled row again, if no dispatch outlives its lease.
THEOREM SettledStaysSettled == ASSUME ~SlowDispatch PROVE Spec => SettledIsFinal
<1>1. ASSUME TypeOK, TypeOK', [Delivery!Next]_(Delivery!vars), NEW e \in Events,
             outbox[e].status \in {"published", "dead"}, outbox'[e].status # outbox[e].status
      PROVE  requested'[e] > requested[e]
  <2>1. deliveryState[e] \in {"published", "dead"} /\ deliveryState'[e] # deliveryState[e]
    BY <1>1 DEF deliveryState
  <2>2. requested[e] \in Nat /\ requested \in [Events -> 0..MaxRequests]
    BY <1>1, OutboxAssumption DEF TypeOK
  <2>3. deliveryState = [f \in Events |-> deliveryState[f]]
    BY DEF deliveryState
  <2>4. ~(UNCHANGED Delivery!vars)
    BY <2>1 DEF Delivery!vars
  <2>5. PICK f \in Events : Delivery!Request(f) \/ Delivery!Deliver(f) \/ Delivery!Settle(f)
    BY <1>1, <2>4 DEF Delivery!Next
  <2>6. Delivery!Request(f) /\ f = e
    BY <2>1, <2>3, <2>5 DEF Delivery!Request, Delivery!Deliver, Delivery!Settle
  <2> QED BY <2>2, <2>6 DEF Delivery!Request
<1>2. TypeOK /\ TypeOK' /\ RelayType /\ RetryInv /\ LeaseInv /\ [Next]_vars
        => [\A e \in Events :
              outbox[e].status \in {"published", "dead"} /\ outbox'[e].status # outbox[e].status
                  => requested'[e] > requested[e]]_vars
  BY <1>1, DeliveryStep
<1>3. Spec => []LeaseInv
  BY LeaseInvariant
<1> QED BY <1>2, <1>3, RetryInvariant, PTL DEF Spec, SettledIsFinal

============================================================================
