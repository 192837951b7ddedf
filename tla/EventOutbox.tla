---------------------------- MODULE EventOutbox ----------------------------
(***************************************************************************)
(* The durable domain-event relay of internal/pkg/eventbus.                *)
(*                                                                         *)
(* A business transaction stores a domain event and its outbox row         *)
(* together (EnqueueTx, Publish).  Any number of application instances     *)
(* relay the rows: a polling loop per instance (Start) and one goroutine   *)
(* per immediate Publish.  A relay reads row COPIES, claims a row with a   *)
(* one-minute lease, runs the subscribed handlers, and then writes its     *)
(* in-memory copy back over the row (gorm Save), whoever owns the row by   *)
(* then.                                                                   *)
(*                                                                         *)
(* Time is kept as countdowns: next_retry and locked hold the ticks that   *)
(* are left until next_retry_at and locked_until; 0 stands for NULL and    *)
(* for a time that has passed, which every query of the code treats alike. *)
(***************************************************************************)
EXTENDS Naturals, FiniteSets

CONSTANTS
    Events,         \* idempotency keys
    Pollers,        \* the Start loops, one per application instance
    Publishers,     \* goroutines started by Publish
    RetryLimits,    \* values callers give DurableEvent.MaxRetries
    PublishRetries, \* MaxRetries of rows created by Publish (3 in the code)
    BatchLimit,     \* rows one poll reads (100 in the code)
    Minute,         \* ticks per minute: the unit of the lease and the backoff
    SlowDispatch,   \* may handlers outlive the lease of their relay?
    AgeCap,         \* bound: ticks since a claim that are told apart
    MaxRequests,    \* bound: delivery requests per event
    MaxFaults       \* bound: crashes and failed writes in a behaviour

ASSUME OutboxAssumption ==
    /\ Pollers \cap Publishers = {}
    /\ RetryLimits \subseteq Nat \ {0}
    /\ PublishRetries \in Nat \ {0}
    /\ BatchLimit \in Nat \ {0}
    /\ Minute \in Nat \ {0}
    /\ SlowDispatch \in BOOLEAN
    /\ AgeCap \in Nat /\ AgeCap >= Minute
    /\ MaxRequests \in Nat
    /\ MaxFaults \in Nat

VARIABLES
    outbox,       \* outbox_records, one row per event
    published_at, \* the domain_events whose published_at is set
    pc,           \* where each relay stands in processSingleRecord
    batch,        \* the copies a relay has read and not yet processed
    record,       \* the copy a relay is processing
    age,          \* ticks since the relay claimed its record
    faults,       \* crashes and failed writes so far
    \* History, read by the properties only:
    requested,    \* accepted delivery requests (creation and replays)
    served,       \* the newest request a successful dispatch answered
    servedBy,     \* the request a relay's claim answers
    failures      \* calls of failRecord per event

rowVars     == <<outbox, published_at>>
relayVars   == <<pc, batch, record, age>>
historyVars == <<requested, served, servedBy, failures>>
vars        == <<rowVars, relayVars, faults, historyVars>>

----------------------------------------------------------------------------
(* Rows, copies and the predicates of the queries *)

Workers  == Pollers \cup Publishers
Statuses == {"pending", "publishing", "published", "failed", "dead"}

\* models.OutboxRecord; "none" is an event nobody has stored yet.
Row == [status : Statuses \cup {"none"}, retry_count : Nat, max_retries : Nat,
        next_retry : Nat, locked : Nat]

NoRow == [status |-> "none", retry_count |-> 0, max_retries |-> 0,
          next_retry |-> 0, locked |-> 0]

NewRow(maxRetries) ==
    [status |-> "pending", retry_count |-> 0, max_retries |-> maxRetries,
     next_retry |-> 0, locked |-> 0]

\* A copy keeps what a later Save can bring back: every other column is
\* overwritten before the Save or is not read in the status that is saved.
Copy == [event : Events, retry_count : Nat]

NoCopy == [event |-> "none", retry_count |-> 0]

CopyOf(e) == [event |-> e, retry_count |-> outbox[e].retry_count]

\* Mutant: the lease column is not consulted.
ClaimableIgnoringLease(e) ==
    /\ outbox[e].retry_count < outbox[e].max_retries
    /\ \/ outbox[e].status \in {"pending", "failed"} /\ outbox[e].next_retry = 0
       \/ outbox[e].status = "publishing"

\* Mutant: an expired lease is never taken over.
ClaimableWithoutRecovery(e) ==
    /\ outbox[e].retry_count < outbox[e].max_retries
    /\ outbox[e].status \in {"pending", "failed"} /\ outbox[e].next_retry = 0

\* Mutant: a row is claimed by id and timers, without looking at its status.
ClaimableInAnyStatus(e) ==
    /\ outbox[e].retry_count < outbox[e].max_retries
    /\ outbox[e].next_retry = 0 /\ outbox[e].locked = 0

\* The WHERE clause shared by the poll and the claim.
Claimable(e) ==
    /\ outbox[e].retry_count < outbox[e].max_retries
    /\ \/ outbox[e].status \in {"pending", "failed"} /\ outbox[e].next_retry = 0
       \/ outbox[e].status = "publishing" /\ outbox[e].locked = 0

\* Mutant: a replay also resets a row whose lease is still running.
RequeueableWhileLeased(e) ==
    outbox[e].status \in {"published", "failed", "dead", "publishing"}

\* The WHERE clause of the requeue in EnqueueTx.
Requeueable(e) ==
    \/ outbox[e].status \in {"published", "failed", "dead"}
    \/ outbox[e].status = "publishing" /\ outbox[e].locked = 0

\* outbox after the columns of e's row, all but the limit, are written.
Written(e, status, retryCount, nextRetry, locked) ==
    [outbox EXCEPT ![e] = [status |-> status, retry_count |-> retryCount,
                           max_retries |-> @.max_retries,
                           next_retry |-> nextRetry, locked |-> locked]]

\* Backoff after the n-th failure: n * n minutes.
RetryDelay(n) == n * n * Minute

Monus(a, b) == IF a > b THEN a - b ELSE 0

\* A relay between a successful claim and the write that ends it.
Busy(w) == pc[w] # "idle"

----------------------------------------------------------------------------
Init ==
    /\ outbox = [e \in Events |-> NoRow]
    /\ published_at = {}
    /\ pc = [w \in Workers |-> "idle"]
    /\ batch = [w \in Workers |-> {}]
    /\ record = [w \in Workers |-> NoCopy]
    /\ age = [w \in Workers |-> 0]
    /\ faults = 0
    /\ requested = [e \in Events |-> 0]
    /\ served = [e \in Events |-> 0]
    /\ servedBy = [w \in Workers |-> 0]
    /\ failures = [e \in Events |-> 0]

----------------------------------------------------------------------------
(* Producers *)

\* EnqueueTx for a key that is not stored: event and row in one transaction.
EnqueueNew(e, maxRetries) ==
    /\ outbox[e].status = "none"
    /\ requested[e] < MaxRequests
    /\ outbox' = [outbox EXCEPT ![e] = NewRow(maxRetries)]
    /\ requested' = [requested EXCEPT ![e] = @ + 1]
    /\ UNCHANGED <<published_at, relayVars, faults, served, servedBy, failures>>

\* EnqueueTx with ReplayIfExists for a stored key.  Without the flag, or when
\* the row is not requeueable, nothing is written and FALSE is returned.
EnqueueReplay(e) ==
    /\ outbox[e].status # "none"
    /\ requested[e] < MaxRequests
    /\ Requeueable(e)
    /\ outbox' = Written(e, "pending", 0, 0, 0)
    /\ requested' = [requested EXCEPT ![e] = @ + 1]
    /\ UNCHANGED <<published_at, relayVars, faults, served, servedBy, failures>>

EnqueueTx(e) ==
    \/ \E maxRetries \in RetryLimits : EnqueueNew(e, maxRetries)
    \/ EnqueueReplay(e)

\* Publish: persist, then a goroutine processes the record just created.  A
\* key that is already stored is skipped.
Publish(w, e) ==
    /\ pc[w] = "idle" /\ batch[w] = {}
    /\ outbox[e].status = "none"
    /\ requested[e] < MaxRequests
    /\ outbox' = [outbox EXCEPT ![e] = NewRow(PublishRetries)]
    /\ batch' = [batch EXCEPT ![w] = {[event |-> e, retry_count |-> 0]}]
    /\ requested' = [requested EXCEPT ![e] = @ + 1]
    /\ UNCHANGED <<published_at, pc, record, age, faults, served, servedBy, failures>>

----------------------------------------------------------------------------
(* The relay *)

\* processPendingOutbox: one unordered, limited SELECT; the copies are then
\* processed one after the other while other relays go on.
Poll(w) ==
    LET due == {e \in Events : Claimable(e)}
    IN  /\ pc[w] = "idle" /\ batch[w] = {}
        /\ due # {}
        /\ \E rows \in SUBSET due :
              /\ rows # {}
              /\ Cardinality(rows) <= BatchLimit
              /\ rows = due \/ Cardinality(rows) = BatchLimit
              /\ batch' = [batch EXCEPT ![w] = {CopyOf(e) : e \in rows}]
        /\ UNCHANGED <<rowVars, pc, record, age, faults, historyVars>>

\* The claim of processSingleRecord.  When the UPDATE matches no row the relay
\* drops the copy.
Claim(w, copy) ==
    /\ pc[w] = "idle"
    /\ copy \in batch[w]
    /\ batch' = [batch EXCEPT ![w] = @ \ {copy}]
    /\ LET e == copy.event
       IN  IF Claimable(e)
           THEN /\ outbox' = Written(e, "publishing", outbox[e].retry_count,
                                     outbox[e].next_retry, Minute)
                /\ pc' = [pc EXCEPT ![w] = "dispatching"]
                /\ record' = [record EXCEPT ![w] = copy]
                /\ servedBy' = [servedBy EXCEPT ![w] = requested[e]]
           ELSE UNCHANGED <<outbox, pc, record, servedBy>>
    /\ age' = [age EXCEPT ![w] = 0]
    /\ UNCHANGED <<published_at, faults, requested, served, failures>>

\* Every handler of the event returned nil.
DispatchOK(w) ==
    LET e == record[w].event
    IN  /\ pc[w] = "dispatching"
        /\ pc' = [pc EXCEPT ![w] = "delivered"]
        /\ served' = [served EXCEPT ![e] = IF servedBy[w] > @ THEN servedBy[w] ELSE @]
        /\ UNCHANGED <<rowVars, batch, record, age, faults, requested, servedBy, failures>>

\* Mutant: handler errors are swallowed.
DispatchErrorSwallowed(w) ==
    LET e == record[w].event
    IN  /\ pc[w] = "dispatching"
        /\ pc' = [pc EXCEPT ![w] = "delivered"]
        /\ failures' = [failures EXCEPT ![e] = @ + 1]
        /\ UNCHANGED <<rowVars, batch, record, age, faults, requested, served, servedBy>>

\* The event could not be loaded or decoded, or some handler failed or
\* panicked (the others have run all the same).
DispatchError(w) ==
    LET e == record[w].event
    IN  /\ pc[w] = "dispatching"
        /\ pc' = [pc EXCEPT ![w] = "failing"]
        /\ failures' = [failures EXCEPT ![e] = @ + 1]
        /\ UNCHANGED <<rowVars, batch, record, age, faults, requested, served, servedBy>>

\* domain_events.published_at, a statement of its own whose error is ignored.
MarkEvent(w) ==
    /\ pc[w] = "delivered"
    /\ pc' = [pc EXCEPT ![w] = "marked"]
    /\ \/ published_at' = published_at \cup {record[w].event} /\ UNCHANGED faults
       \/ faults < MaxFaults /\ faults' = faults + 1 /\ UNCHANGED published_at
    /\ UNCHANGED <<outbox, batch, record, age, historyVars>>

\* The relay is done with its record.
Finish(w) ==
    /\ pc' = [pc EXCEPT ![w] = "idle"]
    /\ record' = [record EXCEPT ![w] = NoCopy]
    /\ age' = [age EXCEPT ![w] = 0]
    /\ servedBy' = [servedBy EXCEPT ![w] = 0]
    /\ UNCHANGED <<published_at, batch, requested, served, failures>>

\* Save of the published copy: by primary key, whatever the row holds now.
SavedPublished(copy) == Written(copy.event, "published", copy.retry_count, 0, 0)

\* The row failRecord saves, given whether the copy is exhausted.  The backoff
\* counts from the claim, elapsed ticks ago.
failRecordWhen(copy, elapsed, exhausted) ==
    LET n == copy.retry_count + 1
    IN  IF exhausted
        THEN Written(copy.event, "dead", n, 0, 0)
        ELSE Written(copy.event, "pending", n, Monus(RetryDelay(n), elapsed), 0)

\* Mutants: dead one failure too late, one failure too early.
failRecordLate(copy, elapsed) ==
    failRecordWhen(copy, elapsed, copy.retry_count + 1 > outbox[copy.event].max_retries)

failRecordEarly(copy, elapsed) ==
    failRecordWhen(copy, elapsed, copy.retry_count + 2 >= outbox[copy.event].max_retries)

\* failRecord: one more failure of the copy, then its Save.
failRecord(copy, elapsed) ==
    failRecordWhen(copy, elapsed, copy.retry_count + 1 >= outbox[copy.event].max_retries)

\* Either Save may fail; the error is only logged.
SavePublished(w) ==
    /\ pc[w] = "marked"
    /\ \/ outbox' = SavedPublished(record[w]) /\ UNCHANGED faults
       \/ faults < MaxFaults /\ faults' = faults + 1 /\ UNCHANGED outbox
    /\ Finish(w)

SaveFailed(w) ==
    /\ pc[w] = "failing"
    /\ \/ outbox' = failRecord(record[w], age[w]) /\ UNCHANGED faults
       \/ faults < MaxFaults /\ faults' = faults + 1 /\ UNCHANGED outbox
    /\ Finish(w)

----------------------------------------------------------------------------
(* The environment *)

\* The process of a relay dies and restarts: its copies are gone.
Crash(w) ==
    /\ Busy(w) \/ batch[w] # {}
    /\ faults < MaxFaults
    /\ faults' = faults + 1
    /\ pc' = [pc EXCEPT ![w] = "idle"]
    /\ batch' = [batch EXCEPT ![w] = {}]
    /\ record' = [record EXCEPT ![w] = NoCopy]
    /\ age' = [age EXCEPT ![w] = 0]
    /\ servedBy' = [servedBy EXCEPT ![w] = 0]
    /\ UNCHANGED <<rowVars, requested, served, failures>>

\* A row one tick later.
Later(row) ==
    [status |-> row.status, retry_count |-> row.retry_count,
     max_retries |-> row.max_retries,
     next_retry |-> Monus(row.next_retry, 1), locked |-> Monus(row.locked, 1)]

\* Time passes.  Unless dispatches may be slow, a busy relay always writes
\* its record back before its lease runs out.
Tick ==
    /\ \/ \E e \in Events : outbox[e].next_retry > 0 \/ outbox[e].locked > 0
       \/ \E w \in Workers : Busy(w) /\ age[w] < AgeCap
    /\ SlowDispatch \/ \A w \in Workers : Busy(w) => age[w] + 1 < Minute
    /\ outbox' = [e \in Events |-> Later(outbox[e])]
    /\ age' = [w \in Workers |->
                 IF Busy(w) /\ age[w] < AgeCap THEN age[w] + 1 ELSE age[w]]
    /\ UNCHANGED <<published_at, pc, batch, record, faults, historyVars>>

----------------------------------------------------------------------------
Relay(w) ==
    \/ \E copy \in batch[w] : Claim(w, copy)
    \/ DispatchOK(w)
    \/ DispatchError(w)
    \/ MarkEvent(w)
    \/ SavePublished(w)
    \/ SaveFailed(w)

Next ==
    \/ \E e \in Events : EnqueueTx(e)
    \/ \E w \in Publishers, e \in Events : Publish(w, e)
    \/ \E w \in Pollers : Poll(w)
    \/ \E w \in Workers : Relay(w)
    \/ \E w \in Workers : Crash(w)
    \/ Tick

Spec == Init /\ [][Next]_vars

\* The poll ticker, the wall clock and a started relay go on; producers and
\* faults are never obliged to happen, and handlers are assumed to return.
Fairness ==
    /\ \A w \in Pollers : WF_vars(Poll(w))
    /\ \A w \in Workers : WF_vars(Relay(w))
    /\ WF_vars(Tick)

FairSpec == Spec /\ Fairness

----------------------------------------------------------------------------
(* Properties *)

\* Rows, copies and processes keep their types: whatever order relays, replays
\* and crashes come in, no row gets a status the relay does not know.
TypeOK ==
    /\ outbox \in [Events -> Row]
    /\ published_at \subseteq Events
    /\ pc \in [Workers -> {"idle", "dispatching", "delivered", "marked", "failing"}]
    /\ batch \in [Workers -> SUBSET Copy]
    /\ record \in [Workers -> Copy \cup {NoCopy}]
    /\ age \in [Workers -> 0..AgeCap]
    /\ faults \in 0..MaxFaults
    /\ requested \in [Events -> 0..MaxRequests]
    /\ served \in [Events -> 0..MaxRequests]
    /\ servedBy \in [Workers -> 0..MaxRequests]
    /\ failures \in [Events -> Nat]

\* No row is lost in silence: a row the health probe does not count as dead
\* and that is not published can still be claimed, now or when its timer ends.
\* Relays that save stale retry counts must not leave an open row exhausted.
OpenRowsCanBeClaimed ==
    \A e \in Events : outbox[e].status \in {"pending", "publishing"} =>
                          outbox[e].retry_count < outbox[e].max_retries

\* A row is marked published only after all handlers succeeded for the event,
\* however leases, stale saves, crashes and replays interleave.
PublishedWasDelivered ==
    \A e \in Events : outbox[e].status = "published" => served[e] > 0

\* A delivery is given up only after max_retries real failures: no interleaving
\* of stale copies invents a failure.
DeadAfterMaxRetries ==
    \A e \in Events : outbox[e].status = "dead" => failures[e] >= outbox[e].max_retries

\* The lease: two relays never run the handlers of one record at a time.
OnePublisher ==
    \A v, w \in Workers : Busy(v) /\ Busy(w) /\ v # w => record[v].event # record[w].event

\* A published or dead row stays so until a replay is requested: polling never
\* publishes it again.
SettledIsFinal ==
    [][\A e \in Events :
          outbox[e].status \in {"published", "dead"} /\ outbox'[e].status # outbox[e].status
              => requested'[e] > requested[e]]_vars

\* An accepted replay is honoured: the row is published again only after a
\* dispatch that began after the replay was requested.
ReplayIsServed ==
    \A e \in Events : outbox[e].status = "published" => served[e] = requested[e]

\* The promise of module EventDelivery, kept while no handler outlives a lease.
deliveryState ==
    [e \in Events |-> IF outbox[e].status \in {"pending", "publishing", "failed"}
                      THEN "open" ELSE outbox[e].status]

Delivery == INSTANCE EventDelivery WITH
                state <- deliveryState, requested <- requested, delivered <- served

ImplementsDelivery == Delivery!Spec

\* Every stored event is eventually published or dead-lettered, although
\* crashes leave rows leased and stale saves move retry counts back.
EventuallySettled ==
    \A e \in Events : outbox[e].status # "none" ~> outbox[e].status \in {"published", "dead"}

============================================================================
