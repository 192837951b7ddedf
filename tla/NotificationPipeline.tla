------------------------ MODULE NotificationPipeline ------------------------
(***************************************************************************)
(* A notification on its way to a mailbox or a phone: the Redis stream of  *)
(* jobs and its consumer group, the notification and its delivery row, and *)
(* the scan that sends what is due.                                        *)
(*                                                                         *)
(* E-mail notifications come from jobs of the stream; a push notification  *)
(* is created by the request that sends a chat message.  Both are created  *)
(* and scheduled in separate writes.  A consumer works through a batch of  *)
(* messages and a scan through a batch of rows, one after the other; here  *)
(* a worker is a place in the batch of a consumer (or such a request), a   *)
(* sender a place in the batch of a scan.                                  *)
(*                                                                         *)
(* Time is kept as what the code asks of it: idle (a message was delivered *)
(* to its consumer more than reclaimIdle ago), due (next_attempt_at has    *)
(* passed), stale (updated_at of a row in work is older than leaseTTL).    *)
(* The mail and push providers, and who may be notified, are inputs.       *)
(***************************************************************************)
EXTENDS Naturals, FiniteSets

CONSTANTS
    Keys,            \* idempotency keys: one notification each, with one delivery
    Workers, Senders,
    MaxDeliveries,   \* maxDeliveries (3 in the code)
    MaxRetries,      \* max_retries of a delivery (0, 1 or 3 for mail, 3 for push)
    MaxJobs,         \* bound: messages of the stream
    MaxFaults        \* bound: crashes, failed reads or writes, scans that take too long

ASSUME PipelineAssumption ==
    /\ MaxDeliveries \in Nat \ {0}
    /\ MaxRetries \in Nat /\ MaxJobs \in Nat /\ MaxFaults \in Nat
    /\ "none" \notin Keys

VARIABLES
    channel,         \* the external channel of each notification; never changes
    job,             \* the messages of the stream
    dead,            \* the dead letter stream
    worker,
    notification,    \* t_notification
    delivery,        \* delivery_logs
    device,          \* whether the recipient has an active push token
    sender,
    faults,
    \* History, read by the properties only:
    rejected,        \* jobs whose notification must not be created
    sends,           \* times the provider has accepted a notification
    failures,        \* failed attempts
    refused,         \* deliveries given up without retries
    overrun          \* whether some scan was still at work when its lease ended

queueVars    == <<job, dead, worker, rejected>>
deliveryVars == <<delivery, sender, sends, failures, refused>>
vars         == <<channel, overrun, queueVars, notification, deliveryVars, device, faults>>

----------------------------------------------------------------------------
Jobs == 1..MaxJobs

MaxSends == MaxFaults + 2   \* bound: more sends than this are not told apart

Job == [key : Keys \cup {"none"}, status : {"none", "queued", "pending", "acked"},
        count : 0..MaxDeliveries, idle : BOOLEAN]

ExternalStatus == {"", "email_pending", "email_retrying", "email_sent", "email_failed",
                   "email_unavailable", "email_skipped", "push_unavailable"}

Notification == [exists : BOOLEAN, external : ExternalStatus]

Delivery == [status : {"none", "pending", "processing", "waiting_retry",
                       "sent", "failed", "skipped"},
             retries : Nat, due : BOOLEAN, stale : BOOLEAN]

\* What a consumer holds while it handles a message, a scan while it sends a row.
WorkerState == [job : 0..MaxJobs, key : Keys \cup {"none"}, external : ExternalStatus,
                pc : {"free", "claimed", "created", "scheduled", "handled", "failed", "dead"}]

SenderState == [key : Keys \cup {"none"}, retries : Nat,
                pc : {"free", "claimed", "read", "loaded", "sent", "error", "refused",
                      "unreadable", "skipped"}]

NoDelivery   == [status |-> "none", retries |-> 0, due |-> FALSE, stale |-> FALSE]
IdleWorker   == [job |-> 0, key |-> "none", pc |-> "free", external |-> ""]
IdleSender   == [key |-> "none", pc |-> "free", retries |-> 0]

Settled(k)   == delivery[k].status \in {"sent", "failed", "skipped"}
Scheduled(k) == delivery[k].status # "none"
Email(k)     == channel[k] = "email"

Plus(n, bound) == IF n < bound THEN n + 1 ELSE n

----------------------------------------------------------------------------
Init ==
    /\ channel \in [Keys -> {"email", "push"}]
    /\ job = [j \in Jobs |-> [key |-> "none", status |-> "none", count |-> 0, idle |-> FALSE]]
    /\ dead = {}
    /\ worker = [w \in Workers |-> IdleWorker]
    /\ notification = [k \in Keys |-> [exists |-> FALSE, external |-> ""]]
    /\ delivery = [k \in Keys |-> NoDelivery]
    /\ device \in [Keys -> BOOLEAN]
    /\ sender = [s \in Senders |-> IdleSender]
    /\ faults = 0
    /\ rejected = {}
    /\ sends = [k \in Keys |-> 0]
    /\ failures = [k \in Keys |-> 0]
    /\ refused = {}
    /\ overrun = FALSE

Fault == faults < MaxFaults /\ faults' = faults + 1

----------------------------------------------------------------------------
(* The stream *)

\* Enqueue.  A handler that the event outbox runs again enqueues its key again.
Enqueue(j, k) ==
    /\ Email(k)
    /\ job[j].status = "none" /\ \A i \in 1..(j - 1) : job[i].status # "none"
    /\ job' = [job EXCEPT ![j] = [key |-> k, status |-> "queued", count |-> 0, idle |-> FALSE]]
    /\ UNCHANGED <<channel, overrun, dead, worker, rejected, notification, deliveryVars, device,
                   faults>>

Begin(w, j) ==
    /\ worker[w].pc = "free"
    /\ job' = [job EXCEPT ![j].status = "pending", ![j].idle = FALSE,
                          ![j].count = Plus(@, MaxDeliveries)]
    /\ worker' = [worker EXCEPT ![w] = [job |-> j, key |-> job[j].key, pc |-> "claimed",
                                        external |-> ""]]
    /\ UNCHANGED <<channel, overrun, dead, rejected, notification, deliveryVars, device, faults>>

\* consume: XREADGROUP hands out new messages in their order.
ReadGroup(w, j) ==
    /\ job[j].status = "queued" /\ \A i \in 1..(j - 1) : job[i].status # "queued"
    /\ Begin(w, j)

\* Mutant: only messages that were delivered once are claimed again.
ReclaimOnce(w, j) == job[j].status = "pending" /\ job[j].idle /\ job[j].count < 2 /\ Begin(w, j)

\* reclaimPending: XCLAIM takes a message over that is still idle.
ReclaimPending(w, j) == job[j].status = "pending" /\ job[j].idle /\ Begin(w, j)

\* reclaimIdle passes, whether or not the consumer is still at work.
BecomeIdle(j) ==
    /\ job[j].status = "pending" /\ ~job[j].idle
    /\ job' = [job EXCEPT ![j].idle = TRUE]
    /\ UNCHANGED <<channel, overrun, dead, worker, rejected, notification, deliveryVars, device,
                   faults>>

\* XACK: of a message that is acknowledged already it is ignored.
Acked(j) == [job EXCEPT ![j].status = "acked", ![j].idle = FALSE]

----------------------------------------------------------------------------
(* The handler of notification.create *)

\* CreateAndPush: finds the notification of its key or creates it, for a
\* recipient who may have it.  An invalid request fails, again and again.
CreateAndPush(w) ==
    LET k == worker[w].key
    IN  /\ worker[w].pc = "claimed"
        /\ \/ /\ notification' = [notification EXCEPT ![k].exists = TRUE]
              /\ worker' = [worker EXCEPT ![w].pc = "created",
                                          ![w].external = notification[k].external]
              /\ UNCHANGED rejected
           \/ /\ rejected' = rejected \cup {worker[w].job}
              /\ worker' = [worker EXCEPT ![w].pc = "handled"]
              /\ UNCHANGED notification
           \/ /\ worker' = [worker EXCEPT ![w].pc = "failed"]
              /\ UNCHANGED <<notification, rejected>>
        /\ UNCHANGED <<channel, overrun, job, dead, deliveryVars, device, faults>>

\* ScheduleReply: a chat message finds its push notification or creates it.
ScheduleReply(w, k) ==
    /\ ~Email(k)
    /\ worker[w].pc = "free"
    /\ notification' = [notification EXCEPT ![k].exists = TRUE]
    /\ worker' = [worker EXCEPT ![w] = [job |-> 0, key |-> k, pc |-> "created",
                                        external |-> notification[k].external]]
    /\ UNCHANGED <<channel, overrun, job, dead, rejected, deliveryVars, device, faults>>

\* The row of a new delivery.
Create(k) == [delivery EXCEPT ![k] = [NoDelivery EXCEPT !.status = "pending", !.due = TRUE]]

\* scheduleEmail: the row, and in a second write the status of the notification.
ScheduleEmail(w) ==
    LET k == worker[w].key
        final == {"email_sent", "email_failed", "email_unavailable", "email_skipped"}
    IN  /\ worker[w].pc = "created" /\ Email(k)
        /\ \/ /\ worker[w].external \in final \/ Scheduled(k)
              /\ worker' = [worker EXCEPT ![w].pc = "handled"]
              /\ UNCHANGED <<delivery, faults>>
           \/ /\ worker[w].external \notin final /\ ~Scheduled(k)
              /\ delivery' = Create(k)
              /\ worker' = [worker EXCEPT ![w].pc = "scheduled"]
              /\ UNCHANGED faults
           \/ /\ Fault
              /\ worker' = [worker EXCEPT ![w].pc = "failed"]
              /\ UNCHANGED delivery
        /\ UNCHANGED <<channel, overrun, job, dead, rejected, notification, sender, sends,
                       failures, refused, device>>

MarkPending(w) ==
    /\ worker[w].pc = "scheduled"
    /\ \/ /\ notification' = [notification EXCEPT ![worker[w].key].external = "email_pending"]
          /\ worker' = [worker EXCEPT ![w].pc = "handled"]
          /\ UNCHANGED faults
       \/ /\ Fault
          /\ worker' = [worker EXCEPT ![w].pc = "failed"]
          /\ UNCHANGED notification
    /\ UNCHANGED <<channel, overrun, job, dead, rejected, deliveryVars, device>>

\* schedulePush, for a notification whose status was read as external.
PushScheduled(k, external) ==
    CASE external = "push_unavailable" \/ Scheduled(k) -> UNCHANGED <<notification, delivery>>
      [] external # "push_unavailable" /\ ~Scheduled(k) /\ device[k] ->
            delivery' = Create(k) /\ UNCHANGED notification
      [] external # "push_unavailable" /\ ~Scheduled(k) /\ ~device[k] ->
            /\ notification' = [notification EXCEPT ![k].external = "push_unavailable"]
            /\ UNCHANGED delivery

SchedulePush(w) ==
    LET k == worker[w].key
    IN  /\ worker[w].pc = "created" /\ ~Email(k)
        /\ \/ PushScheduled(k, worker[w].external) /\ UNCHANGED faults
           \/ Fault /\ UNCHANGED <<notification, delivery>>
        /\ worker' = [worker EXCEPT ![w] = IdleWorker]
        /\ UNCHANGED <<channel, overrun, job, dead, rejected, sender, sends, failures, refused,
                       device>>

\* Mutant: a message is acknowledged whatever became of it.
AcknowledgeAny(w) ==
    /\ worker[w].pc \in {"handled", "failed"}
    /\ job' = Acked(worker[w].job)
    /\ worker' = [worker EXCEPT ![w] = IdleWorker]
    /\ UNCHANGED <<channel, overrun, dead, rejected, notification, deliveryVars, device, faults>>

\* processMessage after the handler: success is acknowledged ...
Acknowledge(w) ==
    /\ worker[w].pc = "handled"
    /\ \/ job' = Acked(worker[w].job) /\ UNCHANGED faults
       \/ Fault /\ UNCHANGED job
    /\ worker' = [worker EXCEPT ![w] = IdleWorker]
    /\ UNCHANGED <<channel, overrun, dead, rejected, notification, deliveryVars, device>>

\* ... a failure stays pending, or goes to the dead letters once the message was
\* delivered often enough.  A message that is pending no more counts as once.
JobFailed(w) ==
    LET j == worker[w].job
        count == IF job[j].status = "pending" THEN job[j].count ELSE 1
    IN  /\ worker[w].pc = "failed"
        /\ \/ /\ count >= MaxDeliveries
              /\ dead' = dead \cup {j}
              /\ worker' = [worker EXCEPT ![w].pc = "dead"]
              /\ UNCHANGED faults
           \/ /\ count < MaxDeliveries
              /\ worker' = [worker EXCEPT ![w] = IdleWorker]
              /\ UNCHANGED <<dead, faults>>
           \/ /\ Fault
              /\ worker' = [worker EXCEPT ![w] = IdleWorker]
              /\ UNCHANGED dead
        /\ UNCHANGED <<channel, overrun, job, rejected, notification, deliveryVars, device>>

\* deadLetterAndAck: the acknowledgement.
AcknowledgeDead(w) ==
    /\ worker[w].pc = "dead"
    /\ \/ job' = Acked(worker[w].job) /\ UNCHANGED faults
       \/ Fault /\ UNCHANGED job
    /\ worker' = [worker EXCEPT ![w] = IdleWorker]
    /\ UNCHANGED <<channel, overrun, dead, rejected, notification, deliveryVars, device>>

WorkerCrash(w) ==
    /\ worker[w].pc # "free"
    /\ Fault
    /\ worker' = [worker EXCEPT ![w] = IdleWorker]
    /\ UNCHANGED <<channel, overrun, job, dead, rejected, notification, deliveryVars, device>>

----------------------------------------------------------------------------
(* The scan *)

\* recoverPushSchedules, at the start of every scan.
RecoverPushSchedules(k) ==
    /\ notification[k].exists /\ ~Email(k)
    /\ notification[k].external # "push_unavailable" /\ ~Scheduled(k)
    /\ PushScheduled(k, notification[k].external)
    /\ UNCHANGED <<channel, overrun, queueVars, sender, sends, failures, refused, device, faults>>

\* Mutant: the claim does not ask how old the claim of another scan is.
ClaimableAnytime(k) ==
    \/ delivery[k].status \in {"pending", "waiting_retry"} /\ delivery[k].due
    \/ delivery[k].status = "processing"

\* The WHERE clause of ClaimDue.
Claimable(k) ==
    \/ delivery[k].status \in {"pending", "waiting_retry"} /\ delivery[k].due
    \/ delivery[k].status = "processing" /\ delivery[k].stale

\* ClaimDue: one row after the other, each by a conditional update ...
ClaimDue(s, k) ==
    /\ sender[s].pc = "free"
    /\ Claimable(k)
    /\ delivery' = [delivery EXCEPT ![k].status = "processing", ![k].stale = FALSE]
    /\ sender' = [sender EXCEPT ![s] = [key |-> k, pc |-> "claimed", retries |-> 0]]
    /\ UNCHANGED <<channel, overrun, queueVars, notification, sends, failures, refused, device,
                   faults>>

\* ... that is read again, without looking at the claim.
ReadClaimed(s) ==
    /\ sender[s].pc = "claimed"
    /\ sender' = [sender EXCEPT ![s].pc = "read", ![s].retries = delivery[sender[s].key].retries]
    /\ UNCHANGED <<channel, overrun, queueVars, notification, delivery, sends, failures, refused,
                   device, faults>>

\* Mutant: a mail that is on record as pending counts as sent.
LoadTrusting(s) ==
    LET k == sender[s].key
    IN  /\ sender[s].pc = "read"
        /\ sender' = [sender EXCEPT ![s].pc =
             IF notification[k].external \in {"email_sent", "email_pending"} THEN "sent"
             ELSE "loaded"]
        /\ UNCHANGED <<channel, overrun, queueVars, notification, delivery, sends, failures,
                       refused, device, faults>>

\* processEmailDelivery and processPushDelivery up to the call of the provider.
\* A mail may be pointless (no address, blocked by the content rules) or unwanted
\* (an SLA warning before the breach); a push needs a token.  A notification that
\* cannot be read is taken for one that no longer exists, a token for an error.
Load(s) ==
    LET k == sender[s].key
        Go(pc) == sender' = [sender EXCEPT ![s].pc = pc]
    IN  /\ sender[s].pc = "read"
        /\ \/ /\ Email(k)
              /\ \E pc \in IF notification[k].external = "email_sent" THEN {"sent"}
                          ELSE {"loaded", "refused", "skipped"} :
                    /\ Go(pc)
                    /\ refused' = IF pc = "refused" THEN refused \cup {k} ELSE refused
              /\ UNCHANGED faults
           \/ /\ ~Email(k)
              /\ Go(IF device[k] THEN "loaded" ELSE "skipped")
              /\ UNCHANGED <<refused, faults>>
           \/ Fault /\ Go("error") /\ UNCHANGED refused
           \/ Fault /\ Go("unreadable") /\ refused' = refused \cup {k}
        /\ UNCHANGED <<channel, overrun, queueVars, notification, delivery, sends, failures,
                       device>>

\* The provider accepts the notification, fails, or says of all tokens that
\* they are invalid (they are revoked) or of the message that it never will.
Send(s) ==
    LET k == sender[s].key
    IN  /\ sender[s].pc = "loaded"
        /\ \/ /\ sends' = [sends EXCEPT ![k] = Plus(@, MaxSends)]
              /\ sender' = [sender EXCEPT ![s].pc = "sent"]
              /\ UNCHANGED <<refused, device>>
           \/ /\ sender' = [sender EXCEPT ![s].pc = "error"]
              /\ UNCHANGED <<sends, refused, device>>
           \/ /\ ~Email(k)
              /\ refused' = refused \cup {k}
              /\ sender' = [sender EXCEPT ![s].pc = "refused"]
              /\ \E active \in BOOLEAN : device' = [device EXCEPT ![k] = @ /\ active]
              /\ UNCHANGED sends
        /\ UNCHANGED <<channel, overrun, queueVars, notification, delivery, failures, faults>>

\* Mutant: the attempt that uses up the retries is the last but one.
RowAfterEarly(pc, retries) ==
    CASE pc = "error" /\ retries + 1 < MaxRetries ->
            [status |-> "waiting_retry", retries |-> retries + 1, due |-> FALSE, stale |-> FALSE]
      [] pc = "error" /\ retries + 1 >= MaxRetries ->
            [status |-> "failed", retries |-> retries + 1, due |-> FALSE, stale |-> FALSE]
      [] pc = "sent" ->
            [status |-> "sent", retries |-> retries, due |-> FALSE, stale |-> FALSE]
      [] pc \in {"refused", "unreadable"} ->
            [status |-> "failed", retries |-> retries, due |-> FALSE, stale |-> FALSE]
      [] pc = "skipped" ->
            [status |-> "skipped", retries |-> retries, due |-> FALSE, stale |-> FALSE]

\* The row that retryOrFail and finishDelivery write, from the retry count of
\* the sender's copy.
RowAfter(pc, retries) ==
    CASE pc = "error" /\ retries + 1 <= MaxRetries ->
            [status |-> "waiting_retry", retries |-> retries + 1, due |-> FALSE, stale |-> FALSE]
      [] pc = "error" /\ retries + 1 > MaxRetries ->
            [status |-> "failed", retries |-> retries + 1, due |-> FALSE, stale |-> FALSE]
      [] pc = "sent" ->
            [status |-> "sent", retries |-> retries, due |-> FALSE, stale |-> FALSE]
      [] pc \in {"refused", "unreadable"} ->
            [status |-> "failed", retries |-> retries, due |-> FALSE, stale |-> FALSE]
      [] pc = "skipped" ->
            [status |-> "skipped", retries |-> retries, due |-> FALSE, stale |-> FALSE]

\* What they write to the notification: of a push only that there is no device.
ExternalAfter(k, pc, retries) ==
    CASE Email(k) /\ pc = "error" ->
            IF retries + 1 <= MaxRetries THEN "email_retrying" ELSE "email_failed"
      [] Email(k) /\ pc = "sent" -> "email_sent"
      [] Email(k) /\ pc = "refused" -> "email_unavailable"
      [] Email(k) /\ pc = "skipped" -> "email_skipped"
      [] ~Email(k) /\ pc = "skipped" -> "push_unavailable"
      [] OTHER -> notification[k].external

\* retryOrFail, finishDelivery, skipPushDelivery: one transaction, by id alone.
Settle(s) ==
    LET k == sender[s].key
        pc == sender[s].pc
    IN  /\ pc \in {"sent", "error", "refused", "unreadable", "skipped"}
        /\ \/ /\ delivery' = [delivery EXCEPT ![k] = RowAfter(pc, sender[s].retries)]
              /\ notification' = [notification EXCEPT ![k].external =
                                    ExternalAfter(k, pc, sender[s].retries)]
              /\ UNCHANGED faults
           \/ Fault /\ UNCHANGED <<delivery, notification>>
        /\ failures' = [failures EXCEPT ![k] = IF pc = "error" THEN Plus(@, MaxRetries + 1) ELSE @]
        /\ sender' = [sender EXCEPT ![s] = IdleSender]
        /\ UNCHANGED <<channel, overrun, queueVars, sends, refused, device>>

SenderCrash(s) ==
    /\ sender[s].pc # "free"
    /\ Fault
    /\ sender' = [sender EXCEPT ![s] = IdleSender]
    /\ UNCHANGED <<channel, overrun, queueVars, notification, delivery, sends, failures, refused,
                   device>>

\* leaseTTL passes since the claim, its scan having ended ...
LeaseEnds(k) ==
    /\ delivery[k].status = "processing" /\ ~delivery[k].stale
    /\ \A s \in Senders : sender[s].key # k
    /\ delivery' = [delivery EXCEPT ![k].stale = TRUE]
    /\ UNCHANGED <<channel, overrun, queueVars, notification, sender, sends, failures, refused,
                   device, faults>>

\* ... or while it has not come to the end of its batch.
LeaseOverrun(k) ==
    /\ delivery[k].status = "processing" /\ ~delivery[k].stale
    /\ \E s \in Senders : sender[s].key = k
    /\ Fault
    /\ overrun' = TRUE
    /\ delivery' = [delivery EXCEPT ![k].stale = TRUE]
    /\ UNCHANGED <<channel, queueVars, notification, sender, sends, failures, refused, device>>

RetryDue(k) ==
    /\ delivery[k].status = "waiting_retry" /\ ~delivery[k].due
    /\ delivery' = [delivery EXCEPT ![k].due = TRUE]
    /\ UNCHANGED <<channel, overrun, queueVars, notification, sender, sends, failures, refused,
                   device, faults>>

\* The recipient registers a device, or gives it up.
Devices(k) ==
    /\ ~Email(k)
    /\ device' = [device EXCEPT ![k] = ~@]
    /\ UNCHANGED <<channel, overrun, queueVars, notification, deliveryVars, faults>>

----------------------------------------------------------------------------
WorkerStep(w) ==
    \/ CreateAndPush(w) \/ ScheduleEmail(w) \/ MarkPending(w) \/ SchedulePush(w)
    \/ Acknowledge(w) \/ JobFailed(w) \/ AcknowledgeDead(w)

SenderStep(s) == ReadClaimed(s) \/ Load(s) \/ Send(s) \/ Settle(s)

Next ==
    \/ \E j \in Jobs, k \in Keys : Enqueue(j, k)
    \/ \E w \in Workers, j \in Jobs : ReadGroup(w, j) \/ ReclaimPending(w, j)
    \/ \E j \in Jobs : BecomeIdle(j)
    \/ \E w \in Workers, k \in Keys : ScheduleReply(w, k)
    \/ \E w \in Workers : WorkerStep(w) \/ WorkerCrash(w)
    \/ \E s \in Senders, k \in Keys : ClaimDue(s, k)
    \/ \E s \in Senders : SenderStep(s) \/ SenderCrash(s)
    \/ \E k \in Keys : \/ RecoverPushSchedules(k) \/ LeaseEnds(k) \/ LeaseOverrun(k)
                      \/ RetryDue(k) \/ Devices(k)

Spec == Init /\ [][Next]_vars

\* Consumers poll, reclaim every ten seconds and finish what they began; the scan
\* runs every fifteen seconds; time passes.
Fairness ==
    /\ \A j \in Jobs : WF_vars(BecomeIdle(j))
    /\ \A j \in Jobs : WF_vars(\E w \in Workers : ReadGroup(w, j) \/ ReclaimPending(w, j))
    /\ \A w \in Workers : WF_vars(WorkerStep(w))
    /\ \A k \in Keys : /\ WF_vars(RecoverPushSchedules(k))
                       /\ WF_vars(\E s \in Senders : ClaimDue(s, k))
                       /\ WF_vars(LeaseEnds(k))
                       /\ WF_vars(RetryDue(k))
    /\ \A s \in Senders : WF_vars(SenderStep(s))

FairSpec == Spec /\ Fairness

----------------------------------------------------------------------------
(* Properties *)

\* Messages, rows and processes keep their types.
TypeOK ==
    /\ channel \in [Keys -> {"email", "push"}]
    /\ job \in [Jobs -> Job]
    /\ dead \subseteq Jobs /\ rejected \subseteq Jobs
    /\ worker \in [Workers -> WorkerState]
    /\ notification \in [Keys -> Notification]
    /\ delivery \in [Keys -> Delivery]
    /\ device \in [Keys -> BOOLEAN]
    /\ sender \in [Senders -> SenderState]
    /\ faults \in 0..MaxFaults
    /\ sends \in [Keys -> 0..MaxSends] /\ failures \in [Keys -> 0..(MaxRetries + 1)]
    /\ refused \subseteq Keys
    /\ overrun \in BOOLEAN

\* No message is lost between the stream and the mail: what is acknowledged is
\* scheduled, unless it is among the dead letters or was not to be sent.  Several
\* consumers may hold the message, some of them having crashed or failed half-way.
AckedIsScheduled ==
    \A j \in Jobs :
        job[j].status = "acked" => j \in dead \cup rejected \/ Scheduled(job[j].key)

\* Nothing is reported as sent that no provider has accepted, however many
\* scans work on a row.
SentWasAccepted ==
    \A k \in Keys :
        delivery[k].status = "sent" \/ notification[k].external = "email_sent" => sends[k] > 0

\* A delivery that was not refused is given up only after all its attempts have
\* failed, although a scan counts them from a copy that may be old.
FailedAfterMaxRetries ==
    \A k \in Keys :
        delivery[k].status = "failed" => k \in refused \/ failures[k] > MaxRetries

\* As long as scans keep within their lease, only a crash or a failed write can
\* make a notification go out twice.
DuplicateNeedsFault == ~overrun => \A k \in Keys : sends[k] <= 1 + faults

\* ... and a settled delivery is never taken up again.
SettledIsFinal ==
    [][~overrun => \A k \in Keys : Settled(k) => delivery'[k] = delivery[k]]_vars

\* A mail that was sent is shown as sent, once its consumer has written both the
\* delivery and the notification.
ReportedAsSent ==
    \A k \in Keys :
        /\ Email(k) /\ delivery[k].status = "sent"
        /\ \A w \in Workers : worker[w].pc # "scheduled"
        => notification[k].external = "email_sent"

\* Something is still to be done for a key: a message is not acknowledged, a
\* delivery not settled, or a push neither settled nor known to have no device.
Open(k) ==
    \/ \E j \in Jobs : job[j].key = k /\ job[j].status # "acked"
    \/ Scheduled(k) /\ ~Settled(k)
    \/ /\ notification[k].exists /\ ~Email(k)
       /\ ~Settled(k) /\ notification[k].external # "push_unavailable"

\* Everything comes to an end: messages are acknowledged, and what was created
\* is sent, given up, or known to have no device to go to.
EventuallySettled == \A k \in Keys : Open(k) ~> ~Open(k)

=============================================================================
