-------------------- MODULE NotificationPipelineProofs --------------------
(***************************************************************************)
(* Proofs about NotificationPipeline, for any keys, consumers, scans and   *)
(* bounds.  All but the last section holds whether or not scans keep       *)
(* within their lease; the last says what they gain when they do.          *)
(***************************************************************************)
EXTENDS NotificationPipeline, TLAPS

----------------------------------------------------------------------------
(* Types *)

WorkerPc == {"free", "claimed", "created", "scheduled", "handled", "failed", "dead"}

SenderPc == {"free", "claimed", "read", "loaded", "sent", "error", "refused",
             "unreadable", "skipped"}

Result == {"sent", "error", "refused", "unreadable", "skipped"}

\* A message is about a mail.
JobsHaveKeys ==
    \A j \in Jobs : job[j].status # "none" => job[j].key \in Keys /\ Email(job[j].key)

\* A busy worker has a key, and, unless it is a request that schedules a push,
\* the message that the key came from.
WorkersHaveJobs ==
    \A w \in Workers :
        /\ worker[w].pc # "free" => worker[w].key \in Keys
        /\ \/ worker[w].pc \in {"claimed", "scheduled", "handled", "failed", "dead"}
           \/ worker[w].pc = "created" /\ Email(worker[w].key)
           => /\ worker[w].job \in Jobs
              /\ job[worker[w].job].status # "none"
              /\ job[worker[w].job].key = worker[w].key

SendersHaveKeys == \A s \in Senders : sender[s].pc # "free" => sender[s].key \in Keys

TypeInv == TypeOK /\ JobsHaveKeys /\ WorkersHaveJobs /\ SendersHaveKeys

LEMMA TypeInit == Init => TypeInv
  <1> SUFFICES ASSUME Init PROVE TypeInv
    OBVIOUS
  <1> USE PipelineAssumption
  <1>1. [key |-> "none", status |-> "none", count |-> 0, idle |-> FALSE] \in Job
    BY DEF Job
  <1>2. IdleWorker \in WorkerState /\ IdleSender \in SenderState
    BY DEF WorkerState, SenderState, IdleWorker, IdleSender, ExternalStatus
  <1>3. [exists |-> FALSE, external |-> ""] \in Notification /\ NoDelivery \in Delivery
    BY DEF Notification, Delivery, NoDelivery, ExternalStatus
  <1>4. 0 \in 0..MaxFaults /\ 0 \in 0..MaxSends /\ 0 \in 0..(MaxRetries + 1)
    BY DEF MaxSends
  <1>5. TypeOK
    BY <1>1, <1>2, <1>3, <1>4 DEF Init, TypeOK
  <1>6. JobsHaveKeys /\ WorkersHaveJobs /\ SendersHaveKeys
    BY DEF Init, JobsHaveKeys, WorkersHaveJobs, SendersHaveKeys, IdleWorker, IdleSender
  <1> QED BY <1>5, <1>6 DEF TypeInv

\* The records that the actions write.
LEMMA Records ==
    /\ IdleWorker \in WorkerState
    /\ IdleSender \in SenderState
    /\ \A m \in WorkerState, pc \in WorkerPc :
          LET n == [m EXCEPT !.pc = pc]
          IN  n \in WorkerState /\ n.pc = pc /\ n.key = m.key /\ n.job = m.job
    /\ \A m \in SenderState, pc \in SenderPc :
          LET n == [m EXCEPT !.pc = pc]
          IN  n \in SenderState /\ n.pc = pc /\ n.key = m.key /\ n.retries = m.retries
  <1> USE PipelineAssumption
  <1>1. IdleWorker \in WorkerState /\ IdleSender \in SenderState
    BY DEF IdleWorker, IdleSender, WorkerState, SenderState, ExternalStatus
  <1>2. ASSUME NEW m \in WorkerState, NEW pc \in WorkerPc
        PROVE  LET n == [m EXCEPT !.pc = pc]
               IN  n \in WorkerState /\ n.pc = pc /\ n.key = m.key /\ n.job = m.job
    BY <1>2 DEF WorkerState, WorkerPc
  <1>3. ASSUME NEW m \in SenderState, NEW pc \in SenderPc
        PROVE  LET n == [m EXCEPT !.pc = pc]
               IN  n \in SenderState /\ n.pc = pc /\ n.key = m.key /\ n.retries = m.retries
    BY <1>3 DEF SenderState, SenderPc
  <1> QED BY <1>1, <1>2, <1>3

\* The rows that the actions write.
LEMMA RowsWritten ==
    ASSUME TypeOK, NEW k \in Keys
    PROVE  /\ Create(k) \in [Keys -> Delivery]
           /\ [notification EXCEPT ![k].exists = TRUE] \in [Keys -> Notification]
           /\ \A x \in ExternalStatus :
                 [notification EXCEPT ![k].external = x] \in [Keys -> Notification]
           /\ \A pc \in Result, n \in Nat : RowAfter(pc, n) \in Delivery
           /\ \A pc \in Result, n \in Nat : ExternalAfter(k, pc, n) \in ExternalStatus
  <1> USE PipelineAssumption DEF Result
  <1>1. [NoDelivery EXCEPT !.status = "pending", !.due = TRUE] \in Delivery
    BY DEF NoDelivery, Delivery
  <1>2. Create(k) \in [Keys -> Delivery]
    BY <1>1 DEF Create, TypeOK
  <1>3. notification[k] \in Notification
    BY DEF TypeOK
  <1>4. [notification EXCEPT ![k].exists = TRUE] \in [Keys -> Notification]
    BY <1>3 DEF Notification, TypeOK
  <1>5. ASSUME NEW x \in ExternalStatus
        PROVE  [notification EXCEPT ![k].external = x] \in [Keys -> Notification]
    BY <1>3, <1>5 DEF Notification, TypeOK
  <1>6. ASSUME NEW pc \in Result, NEW n \in Nat
        PROVE  RowAfter(pc, n) \in Delivery
    BY <1>6 DEF RowAfter, Delivery
  <1>7. ASSUME NEW pc \in Result, NEW n \in Nat
        PROVE  ExternalAfter(k, pc, n) \in ExternalStatus
    BY <1>3, <1>7 DEF ExternalAfter, ExternalStatus, Notification
  <1> QED BY <1>2, <1>4, <1>5, <1>6, <1>7

\* schedulePush keeps the types of both rows.
LEMMA PushTypes ==
    ASSUME TypeOK, NEW k \in Keys, NEW external,
           PushScheduled(k, external) \/ UNCHANGED <<notification, delivery>>
    PROVE  notification' \in [Keys -> Notification] /\ delivery' \in [Keys -> Delivery]
  <1>1. "push_unavailable" \in ExternalStatus
    BY DEF ExternalStatus
  <1>2. \/ UNCHANGED <<notification, delivery>>
        \/ delivery' = Create(k) /\ UNCHANGED notification
        \/ /\ notification' = [notification EXCEPT ![k].external = "push_unavailable"]
           /\ UNCHANGED delivery
    BY DEF PushScheduled, TypeOK
  <1>3. /\ Create(k) \in [Keys -> Delivery]
        /\ [notification EXCEPT ![k].external = "push_unavailable"] \in [Keys -> Notification]
    BY <1>1, RowsWritten
  <1>4. notification \in [Keys -> Notification] /\ delivery \in [Keys -> Delivery]
    BY DEF TypeOK
  <1> QED BY <1>2, <1>3, <1>4

\* Steps on the stream.
LEMMA StreamTypes ==
    ASSUME TypeInv,
           \/ \E j \in Jobs, k \in Keys : Enqueue(j, k)
           \/ \E w \in Workers, j \in Jobs : ReadGroup(w, j) \/ ReclaimPending(w, j)
           \/ \E j \in Jobs : BecomeIdle(j)
    PROVE  TypeInv'
  <1> USE PipelineAssumption DEF TypeInv
  <1>1. ASSUME NEW j \in Jobs, NEW k \in Keys, Enqueue(j, k) PROVE TypeInv'
    <2>1. [key |-> k, status |-> "queued", count |-> 0, idle |-> FALSE] \in Job
      BY DEF Job
    <2>2. TypeOK'
      BY <1>1, <2>1 DEF TypeOK, Enqueue, deliveryVars
    <2>3. JobsHaveKeys'
      BY <1>1 DEF TypeOK, Enqueue, JobsHaveKeys, Email
    <2>4. WorkersHaveJobs'
      BY <1>1 DEF TypeOK, Enqueue, WorkersHaveJobs, Email
    <2>5. SendersHaveKeys'
      BY <1>1 DEF Enqueue, SendersHaveKeys, deliveryVars
    <2> QED BY <2>2, <2>3, <2>4, <2>5
  <1>2. ASSUME NEW w \in Workers, NEW j \in Jobs, Begin(w, j), job[j].status # "none"
        PROVE  TypeInv'
    <2> DEFINE m == [job |-> j, key |-> job[j].key, pc |-> "claimed", external |-> ""]
               n == [job[j] EXCEPT !.status = "pending", !.idle = FALSE,
                                   !.count = Plus(@, MaxDeliveries)]
    <2>1. job[j] \in Job
      BY DEF TypeOK
    <2>11. Plus(job[j].count, MaxDeliveries) \in 0..MaxDeliveries
      BY <2>1 DEF Job, Plus
    <2>2. n \in Job /\ n.key = job[j].key /\ n.status = "pending"
      BY <2>1, <2>11 DEF Job
    <2>3. m \in WorkerState
      BY <2>1 DEF WorkerState, ExternalStatus, Jobs, Job
    <2>4. job' = [job EXCEPT ![j] = n] /\ worker' = [worker EXCEPT ![w] = m]
      BY <1>2 DEF Begin
    <2>5. m.job = j /\ m.key = job[j].key /\ m.pc = "claimed"
      OBVIOUS
    <2> HIDE DEF m, n
    <2>7. UNCHANGED <<channel, overrun, dead, rejected, notification, deliveryVars, device, faults>>
      BY <1>2 DEF Begin
    <2>6. TypeOK'
      BY <2>2, <2>3, <2>4, <2>7 DEF TypeOK, deliveryVars
    <2>8. JobsHaveKeys'
      BY <1>2, <2>2, <2>4, <2>7 DEF TypeOK, JobsHaveKeys, Email
    <2>9. WorkersHaveJobs'
      BY <1>2, <2>2, <2>4, <2>5, <2>7 DEF TypeOK, JobsHaveKeys, WorkersHaveJobs, Email
    <2>10. SendersHaveKeys'
      BY <1>2 DEF Begin, SendersHaveKeys, deliveryVars
    <2> QED BY <2>6, <2>8, <2>9, <2>10
  <1>3. ASSUME NEW j \in Jobs, BecomeIdle(j) PROVE TypeInv'
    <2>1. [job[j] EXCEPT !.idle = TRUE] \in Job
      <3>1. job[j] \in Job
        BY DEF TypeOK
      <3> QED BY <3>1 DEF Job
    <2>2. TypeOK'
      BY <1>3, <2>1 DEF TypeOK, BecomeIdle, deliveryVars
    <2>3. \A i \in Jobs : job'[i].key = job[i].key /\ job'[i].status = job[i].status
      BY <1>3 DEF TypeOK, BecomeIdle, Job
    <2>4. JobsHaveKeys' /\ WorkersHaveJobs' /\ SendersHaveKeys'
      BY <1>3, <2>3 DEF BecomeIdle, JobsHaveKeys, WorkersHaveJobs, SendersHaveKeys, Email,
         deliveryVars
    <2> QED BY <2>2, <2>4
  <1>4. ASSUME NEW j \in Jobs, job[j].status \in {"queued", "pending"}
        PROVE  job[j].status # "none"
    BY <1>4
  <1> QED BY <1>1, <1>2, <1>3, <1>4 DEF ReadGroup, ReclaimPending

\* A worker that stops, or moves on with the message it has.
LEMMA WorkerMoves ==
    ASSUME TypeInv, NEW w \in Workers, NEW pc \in WorkerPc,
           worker[w].pc # "free", UNCHANGED <<channel, overrun, sender>>,
           job' \in [Jobs -> Job],
           \A j \in Jobs : job'[j].key = job[j].key /\ (job[j].status # "none" <=> job'[j].status # "none"),
           \/ worker' = [worker EXCEPT ![w] = IdleWorker]
           \/ /\ worker' = [worker EXCEPT ![w].pc = pc]
              /\ worker[w].pc = "created" => Email(worker[w].key)
    PROVE  /\ worker' \in [Workers -> WorkerState]
           /\ JobsHaveKeys' /\ WorkersHaveJobs' /\ SendersHaveKeys'
  <1> USE DEF TypeInv
  <1>1. worker' \in [Workers -> WorkerState]
    BY Records DEF TypeOK
  <1>2. JobsHaveKeys' /\ SendersHaveKeys'
    BY DEF JobsHaveKeys, SendersHaveKeys, Email
  <1>3. worker[w].pc \in WorkerPc /\ worker[w] \in WorkerState
    BY DEF TypeOK, WorkerState, WorkerPc
  <1>4. \/ worker'[w].pc = "free"
        \/ /\ worker'[w].key = worker[w].key /\ worker'[w].job = worker[w].job
           /\ worker[w].pc = "created" => Email(worker[w].key)
    <2>1. CASE worker' = [worker EXCEPT ![w] = IdleWorker]
      BY <2>1 DEF IdleWorker, TypeOK
    <2>2. CASE /\ worker' = [worker EXCEPT ![w].pc = pc]
               /\ worker[w].pc = "created" => Email(worker[w].key)
      <3>1. worker'[w] = [worker[w] EXCEPT !.pc = pc]
        BY <2>2 DEF TypeOK
      <3> QED BY <2>2, <3>1, <1>3, Records
    <2> QED BY <2>1, <2>2
  <1>5. \A v \in Workers : v # w => worker'[v] = worker[v]
    BY DEF TypeOK
  <1>6. worker[w].key \in Keys /\ (worker'[w].pc # "free" => /\ worker[w].job \in Jobs
           /\ job[worker[w].job].status # "none" /\ job[worker[w].job].key = worker[w].key)
    BY <1>3, <1>4 DEF WorkersHaveJobs, WorkerPc
  <1>7. WorkersHaveJobs'
    BY <1>4, <1>5, <1>6 DEF WorkersHaveJobs, Email
  <1> QED BY <1>1, <1>2, <1>7

\* A sender that stops, or moves on with the row it has.
LEMMA SenderMoves ==
    ASSUME TypeInv, NEW s \in Senders, NEW pc \in SenderPc, sender[s].key \in Keys,
           \/ sender' = [sender EXCEPT ![s] = IdleSender]
           \/ sender' = [sender EXCEPT ![s].pc = pc]
    PROVE  sender' \in [Senders -> SenderState] /\ SendersHaveKeys'
  <1> USE DEF TypeInv
  <1>1. sender[s] \in SenderState
    BY DEF TypeOK
  <1>2. CASE sender' = [sender EXCEPT ![s] = IdleSender]
    BY <1>2, Records DEF TypeOK, SendersHaveKeys, IdleSender
  <1>3. CASE sender' = [sender EXCEPT ![s].pc = pc]
    <2>1. sender'[s] = [sender[s] EXCEPT !.pc = pc] /\ \A t \in Senders \ {s} : sender'[t] = sender[t]
      BY <1>3 DEF TypeOK
    <2>2. sender'[s] \in SenderState /\ sender'[s].key = sender[s].key
      BY <1>1, <2>1, Records
    <2> QED BY <1>3, <2>1, <2>2 DEF TypeOK, SendersHaveKeys
  <1> QED BY <1>2, <1>3

\* What a failed step leaves behind.
LEMMA FaultType ==
    ASSUME TypeOK, Fault \/ UNCHANGED faults
    PROVE  faults' \in 0..MaxFaults
  BY PipelineAssumption DEF TypeOK, Fault

\* Steps of consumers.
LEMMA WorkerTypes ==
    ASSUME TypeInv, NEW w \in Workers, WorkerStep(w) \/ WorkerCrash(w)
    PROVE  TypeInv'
  <1> USE PipelineAssumption DEF TypeInv
  <1> DEFINE k == worker[w].key
             j == worker[w].job
  <1>1. CASE CreateAndPush(w)
    <2>1. worker[w].pc = "claimed" /\ k \in Keys /\ j \in Jobs
      BY <1>1 DEF CreateAndPush, WorkersHaveJobs
    <2>2. rejected' \subseteq Jobs
      BY <1>1, <2>1 DEF CreateAndPush, TypeOK
    <2>3. notification' \in [Keys -> Notification]
      <3>1. notification' = notification \/ notification' = [notification EXCEPT ![k].exists = TRUE]
        BY <1>1 DEF CreateAndPush
      <3>2. [notification EXCEPT ![k].exists = TRUE] \in [Keys -> Notification]
        BY <2>1, RowsWritten
      <3> QED BY <3>1, <3>2 DEF TypeOK
    <2>4. notification[k].external \in ExternalStatus
      BY <2>1 DEF TypeOK, Notification
    <2>5. PICK m \in WorkerState : /\ worker' = [worker EXCEPT ![w] = m]
                                   /\ m.key = k /\ m.job = j
      <3>1. worker[w] \in WorkerState
        BY DEF TypeOK
      <3>2. \A x \in ExternalStatus : /\ [worker[w] EXCEPT !.pc = "created", !.external = x] \in WorkerState
               /\ [worker[w] EXCEPT !.pc = "created", !.external = x].key = k
               /\ [worker[w] EXCEPT !.pc = "created", !.external = x].job = j
        BY <3>1 DEF WorkerState
      <3>3. \/ worker' = [worker EXCEPT ![w].pc = "created", ![w].external = notification[k].external]
            \/ worker' = [worker EXCEPT ![w].pc = "handled"]
            \/ worker' = [worker EXCEPT ![w].pc = "failed"]
        BY <1>1 DEF CreateAndPush
      <3>5. \/ worker' = [worker EXCEPT ![w] = [worker[w] EXCEPT !.pc = "created", !.external = notification[k].external]]
            \/ worker' = [worker EXCEPT ![w] = [worker[w] EXCEPT !.pc = "handled"]]
            \/ worker' = [worker EXCEPT ![w] = [worker[w] EXCEPT !.pc = "failed"]]
        BY <3>1, <3>3 DEF TypeOK, WorkerState
      <3>4. \A pc \in {"handled", "failed"} : /\ [worker[w] EXCEPT !.pc = pc] \in WorkerState
               /\ [worker[w] EXCEPT !.pc = pc].key = k /\ [worker[w] EXCEPT !.pc = pc].job = j
        BY <3>1 DEF WorkerState
      <3> QED BY <2>4, <3>2, <3>5, <3>4
    <2>6. UNCHANGED <<channel, overrun, job, dead, deliveryVars, device, faults>>
      BY <1>1 DEF CreateAndPush
    <2>7. TypeOK'
      BY <2>2, <2>3, <2>5, <2>6 DEF TypeOK, deliveryVars
    <2>8. JobsHaveKeys' /\ SendersHaveKeys'
      BY <2>6 DEF JobsHaveKeys, SendersHaveKeys, Email, deliveryVars
    <2>9. j \in Jobs /\ job[j].status # "none" /\ job[j].key = k
      BY <2>1 DEF WorkersHaveJobs
    <2>10. WorkersHaveJobs'
      BY <2>1, <2>5, <2>6, <2>9 DEF WorkersHaveJobs, Email, TypeOK
    <2> QED BY <2>7, <2>8, <2>10
  <1>2. CASE ScheduleEmail(w)
    <2>1. worker[w].pc = "created" /\ Email(k) /\ k \in Keys
      BY <1>2 DEF ScheduleEmail, WorkersHaveJobs
    <2>2. PICK pc \in WorkerPc : worker' = [worker EXCEPT ![w].pc = pc]
      BY <1>2 DEF ScheduleEmail, WorkerPc
    <2>3. delivery' \in [Keys -> Delivery]
      <3>1. delivery' = delivery \/ delivery' = Create(k)
        BY <1>2 DEF ScheduleEmail
      <3>2. Create(k) \in [Keys -> Delivery]
        BY <2>1, RowsWritten
      <3> QED BY <3>1, <3>2 DEF TypeOK
    <2>4. UNCHANGED <<channel, overrun, job, dead, rejected, notification, sender, sends, failures, refused, device>>
      BY <1>2 DEF ScheduleEmail
    <2>5. faults' \in 0..MaxFaults
      BY <1>2, FaultType DEF ScheduleEmail
    <2>6. /\ worker' \in [Workers -> WorkerState]
          /\ JobsHaveKeys' /\ WorkersHaveJobs' /\ SendersHaveKeys'
      BY <2>1, <2>2, <2>4, WorkerMoves DEF TypeOK
    <2> QED BY <2>3, <2>4, <2>5, <2>6 DEF TypeOK
  <1>3. CASE MarkPending(w)
    <2>1. worker[w].pc = "scheduled" /\ k \in Keys
      BY <1>3 DEF MarkPending, WorkersHaveJobs
    <2>2. PICK pc \in WorkerPc : worker' = [worker EXCEPT ![w].pc = pc]
      BY <1>3 DEF MarkPending, WorkerPc
    <2>3. notification' \in [Keys -> Notification]
      <3>1. "email_pending" \in ExternalStatus
        BY DEF ExternalStatus
      <3>2. \/ notification' = notification
            \/ notification' = [notification EXCEPT ![k].external = "email_pending"]
        BY <1>3 DEF MarkPending
      <3>3. [notification EXCEPT ![k].external = "email_pending"] \in [Keys -> Notification]
        BY <2>1, <3>1, RowsWritten
      <3> QED BY <3>2, <3>3 DEF TypeOK
    <2>4. UNCHANGED <<channel, overrun, job, dead, rejected, deliveryVars, device>>
      BY <1>3 DEF MarkPending
    <2>5. faults' \in 0..MaxFaults
      BY <1>3, FaultType DEF MarkPending
    <2>6. /\ worker' \in [Workers -> WorkerState]
          /\ JobsHaveKeys' /\ WorkersHaveJobs' /\ SendersHaveKeys'
      BY <2>1, <2>2, <2>4, WorkerMoves DEF TypeOK, deliveryVars
    <2> QED BY <2>3, <2>4, <2>5, <2>6 DEF TypeOK, deliveryVars
  <1>4. CASE SchedulePush(w)
    <2>1. worker[w].pc = "created" /\ k \in Keys
      BY <1>4 DEF SchedulePush, WorkersHaveJobs
    <2>2. \/ PushScheduled(k, worker[w].external)
          \/ UNCHANGED <<notification, delivery>>
      BY <1>4 DEF SchedulePush
    <2>3. notification' \in [Keys -> Notification] /\ delivery' \in [Keys -> Delivery]
      BY <2>1, <2>2, PushTypes
    <2>4. UNCHANGED <<channel, overrun, job, dead, rejected, sender, sends, failures, refused, device>>
          /\ worker' = [worker EXCEPT ![w] = IdleWorker]
      BY <1>4 DEF SchedulePush
    <2>5. faults' \in 0..MaxFaults
      BY <1>4, FaultType DEF SchedulePush
    <2>6. /\ worker' \in [Workers -> WorkerState]
          /\ JobsHaveKeys' /\ WorkersHaveJobs' /\ SendersHaveKeys'
      BY <2>1, <2>4, WorkerMoves DEF TypeOK, WorkerPc
    <2> QED BY <2>3, <2>4, <2>5, <2>6 DEF TypeOK
  <1>5. CASE Acknowledge(w) \/ AcknowledgeDead(w)
    <2>1. worker[w].pc \in {"handled", "dead"} /\ j \in Jobs
      BY <1>5 DEF Acknowledge, AcknowledgeDead, WorkersHaveJobs
    <2>2. job[j] \in Job
      BY <2>1 DEF TypeOK
    <2>3. job[j].status # "none"
      BY <2>1 DEF WorkersHaveJobs
    <2>4. job' = job \/ job' = Acked(j)
      BY <1>5 DEF Acknowledge, AcknowledgeDead
    <2>5. /\ job' \in [Jobs -> Job]
          /\ \A i \in Jobs : job'[i].key = job[i].key
                             /\ (job[i].status # "none" <=> job'[i].status # "none")
      <3> DEFINE done == [job[j] EXCEPT !.status = "acked", !.idle = FALSE]
      <3>1. done \in Job /\ done.key = job[j].key /\ done.status # "none"
        BY <2>2 DEF Job
      <3>2. job' = job \/ job' = [job EXCEPT ![j] = done]
        BY <2>1, <2>4 DEF Acked, TypeOK
      <3>3. job \in [Jobs -> Job]
        BY DEF TypeOK
      <3> HIDE DEF done
      <3> QED BY <2>1, <2>3, <3>1, <3>2, <3>3
    <2>6. UNCHANGED <<channel, overrun, dead, rejected, notification, deliveryVars, device>>
          /\ worker' = [worker EXCEPT ![w] = IdleWorker]
      BY <1>5 DEF Acknowledge, AcknowledgeDead
    <2>7. faults' \in 0..MaxFaults
      BY <1>5, FaultType DEF Acknowledge, AcknowledgeDead
    <2>8. /\ worker' \in [Workers -> WorkerState]
          /\ JobsHaveKeys' /\ WorkersHaveJobs' /\ SendersHaveKeys'
      BY <2>1, <2>5, <2>6, WorkerMoves DEF WorkerPc, deliveryVars
    <2> QED BY <2>5, <2>6, <2>7, <2>8 DEF TypeOK, deliveryVars
  <1>6. CASE JobFailed(w)
    <2>1. worker[w].pc = "failed" /\ j \in Jobs
      BY <1>6 DEF JobFailed, WorkersHaveJobs
    <2>2. dead' \subseteq Jobs
      BY <1>6, <2>1 DEF JobFailed, TypeOK
    <2>3. UNCHANGED <<channel, overrun, job, rejected, notification, deliveryVars, device>>
      BY <1>6 DEF JobFailed
    <2>4. \/ worker' = [worker EXCEPT ![w] = IdleWorker]
          \/ worker' = [worker EXCEPT ![w].pc = "dead"]
      BY <1>6 DEF JobFailed
    <2>5. faults' \in 0..MaxFaults
      BY <1>6, FaultType DEF JobFailed
    <2>6. /\ worker' \in [Workers -> WorkerState]
          /\ JobsHaveKeys' /\ WorkersHaveJobs' /\ SendersHaveKeys'
      BY <2>1, <2>3, <2>4, WorkerMoves DEF WorkerPc, deliveryVars, TypeOK
    <2> QED BY <2>2, <2>3, <2>5, <2>6 DEF TypeOK, deliveryVars
  <1>7. CASE WorkerCrash(w)
    <2>1. UNCHANGED <<channel, overrun, job, dead, rejected, notification, deliveryVars, device>>
          /\ worker' = [worker EXCEPT ![w] = IdleWorker]
          /\ worker[w].pc # "free" /\ faults' \in 0..MaxFaults
      BY <1>7, FaultType DEF WorkerCrash
    <2>2. /\ worker' \in [Workers -> WorkerState]
          /\ JobsHaveKeys' /\ WorkersHaveJobs' /\ SendersHaveKeys'
      BY <2>1, WorkerMoves DEF WorkerPc, deliveryVars, TypeOK
    <2> QED BY <2>1, <2>2 DEF TypeOK, deliveryVars
  <1> QED BY <1>1, <1>2, <1>3, <1>4, <1>5, <1>6, <1>7 DEF WorkerStep

\* Steps of scans.
LEMMA SenderTypes ==
    ASSUME TypeInv, NEW s \in Senders, SenderStep(s) \/ SenderCrash(s)
    PROVE  TypeInv'
  <1> USE PipelineAssumption DEF TypeInv
  <1> DEFINE k == sender[s].key
             n == sender[s].retries
  <1>1. sender[s].pc # "free" /\ k \in Keys
    BY DEF SenderStep, ReadClaimed, Load, Send, Settle, SenderCrash, SendersHaveKeys
  <1>2. sender[s] \in SenderState /\ n \in Nat /\ sender[s].pc \in SenderPc
    BY DEF TypeOK, SenderState, SenderPc
  <1>3. UNCHANGED <<channel, overrun, job, dead, worker, rejected>>
    BY DEF SenderStep, ReadClaimed, Load, Send, Settle, SenderCrash, queueVars
  <1>4. JobsHaveKeys' /\ WorkersHaveJobs'
    BY <1>3 DEF JobsHaveKeys, WorkersHaveJobs, Email
  <1>5. CASE ReadClaimed(s)
    <2> DEFINE m == [sender[s] EXCEPT !.pc = "read", !.retries = delivery[k].retries]
    <2>1. delivery[k].retries \in Nat
      BY <1>1 DEF TypeOK, Delivery
    <2>2. m \in SenderState /\ m.key = k
      BY <1>2, <2>1 DEF SenderState
    <2>3. sender' = [sender EXCEPT ![s] = m]
      BY <1>2, <1>5 DEF ReadClaimed, TypeOK, SenderState
    <2>4. UNCHANGED <<notification, delivery, sends, failures, refused, device, faults>>
      BY <1>5 DEF ReadClaimed
    <2> HIDE DEF m
    <2>5. SendersHaveKeys'
      BY <1>1, <2>2, <2>3 DEF SendersHaveKeys, TypeOK
    <2>6. TypeOK'
      BY <1>3, <2>2, <2>3, <2>4 DEF TypeOK
    <2> QED BY <1>4, <2>5, <2>6
  <1>6. CASE Load(s)
    <2>1. PICK pc \in SenderPc : sender' = [sender EXCEPT ![s].pc = pc]
      BY <1>6 DEF Load, SenderPc
    <2>2. refused' \subseteq Keys
      BY <1>1, <1>6 DEF Load, TypeOK
    <2>3. faults' \in 0..MaxFaults
      BY <1>6, FaultType DEF Load
    <2>4. UNCHANGED <<notification, delivery, sends, failures, device>>
      BY <1>6 DEF Load
    <2>5. sender' \in [Senders -> SenderState] /\ SendersHaveKeys'
      BY <1>1, <1>2, <2>1, SenderMoves
    <2> QED BY <1>3, <1>4, <2>2, <2>3, <2>4, <2>5 DEF TypeOK
  <1>7. CASE Send(s)
    <2>1. PICK pc \in SenderPc : sender' = [sender EXCEPT ![s].pc = pc]
      BY <1>7 DEF Send, SenderPc
    <2>2. refused' \subseteq Keys
      BY <1>1, <1>7 DEF Send, TypeOK
    <2>3. sends' \in [Keys -> 0..MaxSends]
      <3>1. sends' = sends \/ sends' = [sends EXCEPT ![k] = Plus(sends[k], MaxSends)]
        BY <1>7 DEF Send
      <3>2. Plus(sends[k], MaxSends) \in 0..MaxSends
        BY <1>1 DEF Plus, TypeOK, MaxSends
      <3> QED BY <3>1, <3>2 DEF TypeOK
    <2>4. device' \in [Keys -> BOOLEAN]
      <3>1. device' = device \/ \E active \in BOOLEAN : device' = [device EXCEPT ![k] = device[k] /\ active]
        BY <1>7 DEF Send
      <3>2. \A active \in BOOLEAN : (device[k] /\ active) \in BOOLEAN
        OBVIOUS
      <3> QED BY <3>1, <3>2 DEF TypeOK
    <2>5. UNCHANGED <<notification, delivery, failures, faults>>
      BY <1>7 DEF Send
    <2>6. sender' \in [Senders -> SenderState] /\ SendersHaveKeys'
      BY <1>1, <1>2, <2>1, SenderMoves
    <2> QED BY <1>3, <1>4, <2>2, <2>3, <2>4, <2>5, <2>6 DEF TypeOK
  <1>8. CASE Settle(s)
    <2> DEFINE pc == sender[s].pc
    <2>1. pc \in Result
      BY <1>8 DEF Settle, Result
    <2>2. \/ UNCHANGED <<delivery, notification>>
          \/ /\ delivery' = [delivery EXCEPT ![k] = RowAfter(pc, n)]
             /\ notification' = [notification EXCEPT ![k].external = ExternalAfter(k, pc, n)]
      BY <1>8 DEF Settle
    <2>3. RowAfter(pc, n) \in Delivery
      BY <1>1, <1>2, <2>1, RowsWritten
    <2>4. [notification EXCEPT ![k].external = ExternalAfter(k, pc, n)] \in [Keys -> Notification]
      <3>1. ExternalAfter(k, pc, n) \in ExternalStatus
        BY <1>1, <1>2, <2>1, RowsWritten
      <3> QED BY <1>1, <3>1, RowsWritten
    <2>5. delivery' \in [Keys -> Delivery] /\ notification' \in [Keys -> Notification]
      BY <2>2, <2>3, <2>4 DEF TypeOK
    <2>6. failures' \in [Keys -> 0..(MaxRetries + 1)]
      <3>1. failures' = failures \/ failures' = [failures EXCEPT ![k] = Plus(failures[k], MaxRetries + 1)]
        BY <1>8 DEF Settle, TypeOK
      <3>2. Plus(failures[k], MaxRetries + 1) \in 0..(MaxRetries + 1)
        BY <1>1 DEF Plus, TypeOK
      <3> QED BY <3>1, <3>2 DEF TypeOK
    <2>7. faults' \in 0..MaxFaults
      BY <1>8, FaultType DEF Settle
    <2>8. UNCHANGED <<sends, refused, device>> /\ sender' = [sender EXCEPT ![s] = IdleSender]
      BY <1>8 DEF Settle
    <2>9. sender' \in [Senders -> SenderState] /\ SendersHaveKeys'
      BY <1>1, <1>2, <2>8, SenderMoves DEF SenderPc
    <2> QED BY <1>3, <1>4, <2>5, <2>6, <2>7, <2>8, <2>9 DEF TypeOK
  <1>9. CASE SenderCrash(s)
    <2>1. UNCHANGED <<notification, delivery, sends, failures, refused, device>>
          /\ sender' = [sender EXCEPT ![s] = IdleSender] /\ faults' \in 0..MaxFaults
      BY <1>9, FaultType DEF SenderCrash
    <2>2. sender' \in [Senders -> SenderState] /\ SendersHaveKeys'
      BY <1>1, <1>2, <2>1, SenderMoves DEF SenderPc
    <2> QED BY <1>3, <1>4, <2>1, <2>2 DEF TypeOK
  <1> QED BY <1>5, <1>6, <1>7, <1>8, <1>9 DEF SenderStep

\* Steps of requests, of time and of devices, and the claim.
LEMMA OtherTypes ==
    ASSUME TypeInv, NEW k \in Keys,
           \/ \E w \in Workers : ScheduleReply(w, k)
           \/ \E s \in Senders : ClaimDue(s, k)
           \/ RecoverPushSchedules(k) \/ LeaseEnds(k) \/ LeaseOverrun(k)
           \/ RetryDue(k) \/ Devices(k)
    PROVE  TypeInv'
  <1> USE PipelineAssumption DEF TypeInv
  <1>1. ASSUME NEW w \in Workers, ScheduleReply(w, k) PROVE TypeInv'
    <2> DEFINE m == [job |-> 0, key |-> k, pc |-> "created",
                     external |-> notification[k].external]
    <2>0. notification[k].external \in ExternalStatus
      BY DEF TypeOK, Notification
    <2>1. m \in WorkerState /\ m.key = k /\ m.pc = "created"
      BY <2>0 DEF WorkerState
    <2>2. /\ worker' = [worker EXCEPT ![w] = m]
          /\ notification' = [notification EXCEPT ![k].exists = TRUE]
          /\ UNCHANGED <<channel, overrun, job, dead, rejected, deliveryVars, device, faults>>
          /\ ~Email(k)
      BY <1>1 DEF ScheduleReply
    <2>3. notification' \in [Keys -> Notification]
      BY <2>2, RowsWritten
    <2> HIDE DEF m
    <2>4. TypeOK'
      BY <2>1, <2>2, <2>3 DEF TypeOK, deliveryVars
    <2>5. JobsHaveKeys' /\ SendersHaveKeys'
      BY <2>2 DEF JobsHaveKeys, SendersHaveKeys, Email, deliveryVars
    <2>6. WorkersHaveJobs'
      BY <2>1, <2>2 DEF WorkersHaveJobs, Email, TypeOK
    <2> QED BY <2>4, <2>5, <2>6
  <1>2. ASSUME NEW s \in Senders, ClaimDue(s, k) PROVE TypeInv'
    <2> DEFINE m == [key |-> k, pc |-> "claimed", retries |-> 0]
    <2>1. m \in SenderState /\ m.key = k
      BY DEF SenderState
    <2>8. delivery[k] \in Delivery
      BY DEF TypeOK
    <2>2. [delivery[k] EXCEPT !.status = "processing", !.stale = FALSE] \in Delivery
      BY <2>8 DEF Delivery
    <2>3. /\ sender' = [sender EXCEPT ![s] = m]
          /\ UNCHANGED <<channel, overrun, job, dead, worker, rejected, notification, sends, failures,
                         refused, device, faults>>
      BY <1>2 DEF ClaimDue, queueVars
    <2>4. delivery' \in [Keys -> Delivery]
      BY <1>2, <2>2 DEF ClaimDue, TypeOK
    <2> HIDE DEF m
    <2>5. TypeOK'
      BY <2>1, <2>3, <2>4 DEF TypeOK
    <2>6. JobsHaveKeys' /\ WorkersHaveJobs'
      BY <2>3 DEF JobsHaveKeys, WorkersHaveJobs, Email
    <2>7. SendersHaveKeys'
      BY <2>1, <2>3 DEF SendersHaveKeys, TypeOK
    <2> QED BY <2>5, <2>6, <2>7
  <1>3. CASE RecoverPushSchedules(k)
    <2>1. notification' \in [Keys -> Notification] /\ delivery' \in [Keys -> Delivery]
      BY <1>3, PushTypes DEF RecoverPushSchedules
    <2>2. UNCHANGED <<channel, overrun, job, dead, worker, rejected, sender, sends, failures, refused,
                      device, faults>>
      BY <1>3 DEF RecoverPushSchedules, queueVars
    <2>3. JobsHaveKeys' /\ WorkersHaveJobs' /\ SendersHaveKeys'
      BY <2>2 DEF JobsHaveKeys, WorkersHaveJobs, SendersHaveKeys, Email
    <2> QED BY <2>1, <2>2, <2>3 DEF TypeOK
  <1>4. CASE LeaseEnds(k) \/ LeaseOverrun(k) \/ RetryDue(k)
    <2>1. /\ [delivery[k] EXCEPT !.stale = TRUE] \in Delivery
          /\ [delivery[k] EXCEPT !.due = TRUE] \in Delivery
      <3>1. delivery[k] \in Delivery
        BY DEF TypeOK
      <3>2. [delivery[k] EXCEPT !.stale = TRUE] \in Delivery
        BY <3>1 DEF Delivery
      <3>3. [delivery[k] EXCEPT !.due = TRUE] \in Delivery
        BY <3>1 DEF Delivery
      <3> QED BY <3>2, <3>3
    <2>2. delivery' \in [Keys -> Delivery]
      BY <1>4, <2>1 DEF LeaseEnds, LeaseOverrun, RetryDue, TypeOK
    <2>3. UNCHANGED <<channel, job, dead, worker, rejected, notification, sender, sends,
                      failures, refused, device>>
      BY <1>4 DEF LeaseEnds, LeaseOverrun, RetryDue, queueVars
    <2>5. overrun' \in BOOLEAN
      <3>1. UNCHANGED overrun \/ overrun' = TRUE
        BY <1>4 DEF LeaseEnds, LeaseOverrun, RetryDue
      <3>2. overrun \in BOOLEAN
        BY DEF TypeOK
      <3> QED BY <3>1, <3>2
    <2>6. faults' \in 0..MaxFaults
      <3>1. UNCHANGED faults \/ Fault
        BY <1>4 DEF LeaseEnds, LeaseOverrun, RetryDue
      <3> QED BY <3>1, FaultType DEF TypeOK
    <2>4. JobsHaveKeys' /\ WorkersHaveJobs' /\ SendersHaveKeys'
      BY <2>3 DEF JobsHaveKeys, WorkersHaveJobs, SendersHaveKeys, Email
    <2> QED BY <2>2, <2>3, <2>4, <2>5, <2>6 DEF TypeOK
  <1>5. CASE Devices(k)
    <2>1. device' \in [Keys -> BOOLEAN]
      BY <1>5 DEF Devices, TypeOK
    <2>2. UNCHANGED <<channel, overrun, job, dead, worker, rejected, notification, delivery, sender,
                      sends, failures, refused, faults>>
      BY <1>5 DEF Devices, queueVars, deliveryVars
    <2>3. JobsHaveKeys' /\ WorkersHaveJobs' /\ SendersHaveKeys'
      BY <2>2 DEF JobsHaveKeys, WorkersHaveJobs, SendersHaveKeys, Email
    <2> QED BY <2>1, <2>2, <2>3 DEF TypeOK
  <1> QED BY <1>1, <1>2, <1>3, <1>4, <1>5

LEMMA TypeStep == TypeInv /\ [Next]_vars => TypeInv'
  <1> SUFFICES ASSUME TypeInv, [Next]_vars PROVE TypeInv'
    OBVIOUS
  <1>1. CASE UNCHANGED vars
    BY <1>1 DEF TypeInv, TypeOK, JobsHaveKeys, WorkersHaveJobs, SendersHaveKeys, Email, vars,
       queueVars, deliveryVars
  <1>2. CASE Next
    BY <1>2, StreamTypes, WorkerTypes, SenderTypes, OtherTypes DEF Next
  <1> QED BY <1>1, <1>2

LEMMA TypeInvariant == Spec => []TypeInv
  BY TypeInit, TypeStep, PTL DEF Spec

\* Messages, rows and processes of NotificationPipeline keep their types, whatever
\* the number of consumers, scans and faults.
THEOREM TypeCorrect == Spec => []TypeOK
  <1>1. TypeInv => TypeOK
    BY DEF TypeInv
  <1> QED BY <1>1, TypeInvariant, PTL

----------------------------------------------------------------------------
(* No message is lost *)

\* What becomes of a delivery row: it is created once and then rewritten by the
\* claim, by a sender of its key, or by time.
RowChange ==
    \/ UNCHANGED delivery
    \/ \E k \in Keys : ~Scheduled(k) /\ delivery' = Create(k)
    \/ \E k \in Keys, s \in Senders : ClaimDue(s, k)
    \/ \E k \in Keys : LeaseEnds(k) \/ LeaseOverrun(k) \/ RetryDue(k)
    \/ \E s \in Senders :
          /\ sender[s].pc \in Result
          /\ delivery' = [delivery EXCEPT ![sender[s].key] =
                              RowAfter(sender[s].pc, sender[s].retries)]

LEMMA RowChanges ==
    ASSUME TypeInv, [Next]_vars
    PROVE  RowChange
  <1>1. CASE UNCHANGED vars
    BY <1>1 DEF RowChange, vars, deliveryVars
  <1>2. ASSUME NEW j \in Jobs, NEW k \in Keys, Enqueue(j, k) PROVE RowChange
    BY <1>2 DEF RowChange, Enqueue, deliveryVars
  <1>3. ASSUME NEW w \in Workers, NEW j \in Jobs, ReadGroup(w, j) \/ ReclaimPending(w, j)
        PROVE  RowChange
    BY <1>3 DEF RowChange, ReadGroup, ReclaimPending, Begin, deliveryVars
  <1>4. ASSUME NEW j \in Jobs, BecomeIdle(j) PROVE RowChange
    BY <1>4 DEF RowChange, BecomeIdle, deliveryVars
  <1>5. ASSUME NEW w \in Workers, NEW k \in Keys, ScheduleReply(w, k) PROVE RowChange
    BY <1>5 DEF RowChange, ScheduleReply, deliveryVars
  <1>6. ASSUME NEW w \in Workers, WorkerStep(w) \/ WorkerCrash(w) PROVE RowChange
    <2>1. CASE ScheduleEmail(w)
      <3>1. worker[w].key \in Keys
        BY <2>1 DEF ScheduleEmail, TypeInv, WorkersHaveJobs
      <3>2. \/ delivery' = delivery
            \/ ~Scheduled(worker[w].key) /\ delivery' = Create(worker[w].key)
        BY <2>1 DEF ScheduleEmail
      <3> QED BY <3>1, <3>2 DEF RowChange
    <2>2. CASE SchedulePush(w)
      <3>1. worker[w].key \in Keys
        BY <2>2 DEF SchedulePush, TypeInv, WorkersHaveJobs
      <3>2. device[worker[w].key] \in BOOLEAN
        BY <3>1 DEF TypeInv, TypeOK
      <3>3. \/ delivery' = delivery
            \/ ~Scheduled(worker[w].key) /\ delivery' = Create(worker[w].key)
        BY <2>2, <3>2 DEF SchedulePush, PushScheduled
      <3> QED BY <3>1, <3>3 DEF RowChange
    <2>3. CASE CreateAndPush(w) \/ MarkPending(w) \/ Acknowledge(w) \/ JobFailed(w)
               \/ AcknowledgeDead(w) \/ WorkerCrash(w)
      <3>1. UNCHANGED deliveryVars
        BY <2>3 DEF CreateAndPush, MarkPending, Acknowledge, JobFailed, AcknowledgeDead,
           WorkerCrash
      <3> QED BY <3>1 DEF RowChange, deliveryVars
    <2> QED BY <1>6, <2>1, <2>2, <2>3 DEF WorkerStep
  <1>7. ASSUME NEW s \in Senders, NEW k \in Keys, ClaimDue(s, k) PROVE RowChange
    BY <1>7 DEF RowChange
  <1>8. ASSUME NEW s \in Senders, SenderStep(s) \/ SenderCrash(s) PROVE RowChange
    <2>1. CASE Settle(s)
      BY <2>1 DEF Settle, RowChange, Result
    <2>2. CASE ReadClaimed(s) \/ Load(s) \/ Send(s) \/ SenderCrash(s)
      <3>1. UNCHANGED delivery
        BY <2>2 DEF ReadClaimed, Load, Send, SenderCrash
      <3> QED BY <3>1 DEF RowChange
    <2> QED BY <1>8, <2>1, <2>2 DEF SenderStep
  <1>9. ASSUME NEW k \in Keys, RecoverPushSchedules(k) PROVE RowChange
    <2>1. device[k] \in BOOLEAN
      BY DEF TypeInv, TypeOK
    <2>2. \/ delivery' = delivery
          \/ ~Scheduled(k) /\ delivery' = Create(k)
      BY <1>9, <2>1 DEF RecoverPushSchedules, PushScheduled
    <2> QED BY <2>2 DEF RowChange
  <1>10. ASSUME NEW k \in Keys, LeaseEnds(k) \/ LeaseOverrun(k) \/ RetryDue(k) \/ Devices(k)
         PROVE  RowChange
    BY <1>10 DEF RowChange, Devices, deliveryVars
  <1> QED BY <1>1, <1>2, <1>3, <1>4, <1>5, <1>6, <1>7, <1>8, <1>9, <1>10 DEF Next

\* A delivery that exists is never removed.
LEMMA ScheduledStays ==
    ASSUME TypeInv, [Next]_vars
    PROVE  /\ channel' = channel
           /\ \A k \in Keys : Scheduled(k) => Scheduled(k)'
  <1>1. channel' = channel
    BY DEF Next, vars, WorkerStep, SenderStep, Enqueue, ReadGroup, ReclaimPending, Begin,
       BecomeIdle, ScheduleReply, CreateAndPush, ScheduleEmail, MarkPending, SchedulePush,
       Acknowledge, JobFailed, AcknowledgeDead, WorkerCrash, ClaimDue, ReadClaimed, Load, Send,
       Settle, SenderCrash, RecoverPushSchedules, LeaseEnds, LeaseOverrun, RetryDue, Devices
  <1>2. ASSUME NEW k \in Keys, Scheduled(k) PROVE Scheduled(k)'
    <2>1. CASE UNCHANGED delivery
      BY <1>2, <2>1 DEF Scheduled
    <2>2. ASSUME NEW l \in Keys, delivery' = Create(l) PROVE Scheduled(k)'
      BY <1>2, <2>2 DEF Scheduled, Create, NoDelivery, TypeInv, TypeOK
    <2>3. ASSUME NEW l \in Keys, NEW s \in Senders, ClaimDue(s, l) PROVE Scheduled(k)'
      BY <1>2, <2>3 DEF Scheduled, ClaimDue, TypeInv, TypeOK, Delivery
    <2>4. ASSUME NEW l \in Keys, LeaseEnds(l) \/ LeaseOverrun(l) \/ RetryDue(l)
          PROVE  Scheduled(k)'
      <3>1. \/ delivery' = [delivery EXCEPT ![l].stale = TRUE]
            \/ delivery' = [delivery EXCEPT ![l].due = TRUE]
        BY <2>4 DEF LeaseEnds, LeaseOverrun, RetryDue
      <3>2. delivery \in [Keys -> Delivery]
        BY DEF TypeInv, TypeOK
      <3>3. delivery'[k].status = delivery[k].status
        BY <3>1, <3>2 DEF Delivery
      <3> QED BY <1>2, <3>3 DEF Scheduled
    <2>5. ASSUME NEW s \in Senders, sender[s].pc \in Result,
                 delivery' = [delivery EXCEPT ![sender[s].key] =
                                 RowAfter(sender[s].pc, sender[s].retries)]
          PROVE  Scheduled(k)'
      <3>1. sender[s].retries \in Nat
        BY DEF TypeInv, TypeOK, SenderState
      <3>2. RowAfter(sender[s].pc, sender[s].retries).status # "none"
        BY <2>5, <3>1, PipelineAssumption DEF RowAfter, Result
      <3> QED BY <1>2, <2>5, <3>2 DEF Scheduled, TypeInv, TypeOK
    <2> QED BY <2>1, <2>2, <2>3, <2>4, <2>5, RowChanges DEF RowChange
  <1> QED BY <1>1, <1>2

\* How far a consumer has come.  A status in a mail's notification, or in a copy
\* of it, shows that its delivery exists.
HandledBy(w) ==
    /\ worker[w].pc = "scheduled" => Scheduled(worker[w].key)
    /\ worker[w].pc = "handled" => worker[w].job \in rejected \/ Scheduled(worker[w].key)
    /\ worker[w].pc = "dead" => worker[w].job \in dead
    /\ worker[w].pc = "created" /\ Email(worker[w].key) /\ worker[w].external # ""
          => Scheduled(worker[w].key)

Handled == \A w \in Workers : HandledBy(w)

StatusMeansRow == \A k \in Keys : Email(k) /\ notification[k].external # "" => Scheduled(k)

AckInv == AckedIsScheduled /\ Handled /\ StatusMeansRow

LEMMA AckInit == Init => AckInv
  <1> SUFFICES ASSUME Init PROVE AckInv
    OBVIOUS
  <1>1. AckedIsScheduled
    BY DEF Init, AckedIsScheduled
  <1>2. Handled
    BY DEF Init, Handled, HandledBy, IdleWorker
  <1>3. StatusMeansRow
    BY DEF Init, StatusMeansRow
  <1> QED BY <1>1, <1>2, <1>3 DEF AckInv

\* Nobody comes back to before where he was: what is known of a consumer that
\* does not step stays true.
LEMMA HandledStays ==
    ASSUME TypeInv, AckInv, [Next]_vars, dead \subseteq dead', rejected \subseteq rejected',
           NEW w \in Workers, worker'[w] = worker[w]
    PROVE  HandledBy(w)'
  <1>1. channel' = channel /\ \A k \in Keys : Scheduled(k) => Scheduled(k)'
    BY ScheduledStays
  <1>2. HandledBy(w)
    BY DEF AckInv, Handled
  <1>3. worker[w].pc # "free" => worker[w].key \in Keys
    BY DEF TypeInv, WorkersHaveJobs
  <1>4. worker'[w].key = worker[w].key /\ worker'[w].job = worker[w].job
          /\ worker'[w].pc = worker[w].pc /\ worker'[w].external = worker[w].external
    OBVIOUS
  <1>5. Scheduled(worker[w].key)' <=> delivery'[worker[w].key].status # "none"
    BY <1>4 DEF Scheduled
  <1>6. worker[w].pc # "free" /\ Scheduled(worker[w].key) => Scheduled(worker[w].key)'
    BY <1>1, <1>3, <1>5 DEF Scheduled
  <1> QED BY <1>1, <1>2, <1>4, <1>6 DEF HandledBy, Email

\* What a step has to show to keep AckInv: the consumer that steps, if any, knows
\* what it claims to know, and acknowledges and reports only what is scheduled.
LEMMA AckFrame ==
    ASSUME TypeInv, AckInv, [Next]_vars, dead \subseteq dead', rejected \subseteq rejected',
           \A w \in Workers : worker'[w] = worker[w] \/ HandledBy(w)',
           \A j \in Jobs : job'[j].status = "acked" =>
               \/ job[j].status = "acked" /\ job'[j].key = job[j].key
               \/ j \in dead' \cup rejected'
               \/ delivery'[job'[j].key].status # "none",
           \A k \in Keys : Email(k) =>
               \/ notification'[k].external = notification[k].external
               \/ delivery'[k].status # "none"
               \/ notification'[k].external = ""
    PROVE  AckInv'
  <1>1. channel' = channel /\ \A k \in Keys : Scheduled(k) => Scheduled(k)'
    BY ScheduledStays
  <1>2. ASSUME NEW j \in Jobs, job'[j].status = "acked"
        PROVE  j \in dead' \cup rejected' \/ delivery'[job'[j].key].status # "none"
    <2>1. CASE job[j].status = "acked" /\ job'[j].key = job[j].key
      <3>1. j \in dead \cup rejected \/ Scheduled(job[j].key)
        BY <2>1 DEF AckInv, AckedIsScheduled
      <3>2. job[j].key \in Keys
        BY <2>1 DEF TypeInv, JobsHaveKeys
      <3> QED BY <1>1, <2>1, <3>1, <3>2 DEF Scheduled
    <2> QED BY <1>2, <2>1
  <1>3. AckedIsScheduled'
    BY <1>2 DEF AckedIsScheduled, Scheduled, Jobs
  <1>4. Handled'
    BY HandledStays DEF Handled
  <1>5. StatusMeansRow'
    BY <1>1 DEF AckInv, StatusMeansRow, Email, Scheduled
  <1> QED BY <1>3, <1>4, <1>5 DEF AckInv

\* ... by the steps on the stream and by those that hand out its messages,
LEMMA AckStream ==
    ASSUME TypeInv, AckInv, [Next]_vars, NEW j \in Jobs,
           \/ \E k \in Keys : Enqueue(j, k)
           \/ \E w \in Workers : ReadGroup(w, j) \/ ReclaimPending(w, j)
           \/ BecomeIdle(j)
    PROVE  AckInv'
  <1>1. UNCHANGED <<dead, rejected, notification>>
    BY DEF Enqueue, ReadGroup, ReclaimPending, Begin, BecomeIdle
  <1>2. job'[j].status # "acked"
    <2>0. job \in [Jobs -> Job] /\ job[j] \in Job
      BY DEF TypeInv, TypeOK
    <2>1. CASE \E k \in Keys : Enqueue(j, k)
      BY <2>0, <2>1 DEF Enqueue
    <2>2. CASE \E w \in Workers : ReadGroup(w, j) \/ ReclaimPending(w, j)
      <3>1. job' = [job EXCEPT ![j].status = "pending", ![j].idle = FALSE,
                               ![j].count = Plus(@, MaxDeliveries)]
        BY <2>2 DEF ReadGroup, ReclaimPending, Begin
      <3>2. job'[j] = [job[j] EXCEPT !.status = "pending", !.idle = FALSE,
                                     !.count = Plus(@, MaxDeliveries)]
        BY <2>0, <3>1
      <3>3. job'[j].status = "pending"
        BY <2>0, <3>2 DEF Job
      <3> QED BY <3>3
    <2>3. CASE BecomeIdle(j)
      BY <2>0, <2>3 DEF BecomeIdle, Job
    <2> QED BY <2>1, <2>2, <2>3
  <1>3. \A i \in Jobs \ {j} : job'[i] = job[i]
    BY DEF Enqueue, ReadGroup, ReclaimPending, Begin, BecomeIdle, TypeInv, TypeOK
  <1>4. \A w \in Workers : worker'[w] = worker[w] \/ worker'[w].pc = "claimed"
    <2>1. \/ UNCHANGED worker
          \/ \E w \in Workers : worker' = [worker EXCEPT ![w] =
                [job |-> j, key |-> job[j].key, pc |-> "claimed", external |-> ""]]
      BY DEF Enqueue, ReadGroup, ReclaimPending, Begin, BecomeIdle
    <2>2. worker \in [Workers -> WorkerState]
      BY DEF TypeInv, TypeOK
    <2>3. ASSUME NEW w \in Workers, worker' = [worker EXCEPT ![w] =
                [job |-> j, key |-> job[j].key, pc |-> "claimed", external |-> ""]]
          PROVE  \A v \in Workers : worker'[v] = worker[v] \/ worker'[v].pc = "claimed"
      <3>1. worker'[w].pc = "claimed" /\ \A v \in Workers \ {w} : worker'[v] = worker[v]
        BY <2>2, <2>3
      <3> QED BY <3>1
    <2> QED BY <2>1, <2>3
  <1>5. \A w \in Workers : worker'[w] = worker[w] \/ HandledBy(w)'
    BY <1>4 DEF HandledBy
  <1>6. \A i \in Jobs : job'[i].status = "acked" =>
            job[i].status = "acked" /\ job'[i].key = job[i].key
    BY <1>2, <1>3
  <1>7. dead \subseteq dead' /\ rejected \subseteq rejected'
    BY <1>1
  <1> QED BY <1>1, <1>5, <1>6, <1>7, AckFrame

\* ... by the scan,
LEMMA AckSender ==
    ASSUME TypeInv, AckInv, [Next]_vars,
           \/ \E s \in Senders : SenderStep(s) \/ SenderCrash(s)
           \/ \E s \in Senders, k \in Keys : ClaimDue(s, k)
           \/ \E k \in Keys : \/ RecoverPushSchedules(k) \/ LeaseEnds(k)
                              \/ LeaseOverrun(k) \/ RetryDue(k) \/ Devices(k)
    PROVE  AckInv'
  <1>1. UNCHANGED queueVars
    BY DEF SenderStep, SenderCrash, ReadClaimed, Load, Send, Settle, ClaimDue,
       RecoverPushSchedules, LeaseEnds, LeaseOverrun, RetryDue, Devices
  <1>2. \A k \in Keys : Email(k) =>
               \/ notification'[k].external = notification[k].external
               \/ delivery'[k].status # "none"
    <2>1. CASE UNCHANGED notification
      BY <2>1
    <2>2. ASSUME NEW s \in Senders, Settle(s), ~UNCHANGED notification, NEW k \in Keys
          PROVE  \/ notification'[k].external = notification[k].external
                 \/ delivery'[k].status # "none"
      <3>1. sender[s].retries \in Nat
        BY DEF TypeInv, TypeOK, SenderState
      <3>2. RowAfter(sender[s].pc, sender[s].retries).status # "none"
        BY <2>2, <3>1, PipelineAssumption DEF Settle, RowAfter
      <3>3. /\ delivery' = [delivery EXCEPT ![sender[s].key] =
                                RowAfter(sender[s].pc, sender[s].retries)]
            /\ notification' = [notification EXCEPT ![sender[s].key].external =
                 ExternalAfter(sender[s].key, sender[s].pc, sender[s].retries)]
        BY <2>2 DEF Settle
      <3>4. CASE k = sender[s].key
        BY <3>2, <3>3, <3>4 DEF TypeInv, TypeOK
      <3>5. CASE k # sender[s].key
        BY <3>3, <3>5 DEF TypeInv, TypeOK
      <3> QED BY <3>4, <3>5
    <2>3. ASSUME NEW l \in Keys, RecoverPushSchedules(l), NEW k \in Keys, Email(k)
          PROVE  notification'[k].external = notification[k].external
      <3>1. l # k
        BY <2>3 DEF RecoverPushSchedules
      <3>2. \/ UNCHANGED notification
            \/ notification' = [notification EXCEPT ![l].external = "push_unavailable"]
        <4>1. device[l] \in BOOLEAN
          BY DEF TypeInv, TypeOK
        <4> QED BY <2>3, <4>1 DEF RecoverPushSchedules, PushScheduled
      <3> QED BY <3>1, <3>2 DEF TypeInv, TypeOK
    <2>4. \/ UNCHANGED notification
          \/ \E s \in Senders : Settle(s)
          \/ \E l \in Keys : RecoverPushSchedules(l)
      BY DEF SenderStep, SenderCrash, ReadClaimed, Load, Send, ClaimDue, LeaseEnds,
         LeaseOverrun, RetryDue, Devices
    <2> QED BY <2>1, <2>2, <2>3, <2>4
  <1>3. dead \subseteq dead' /\ rejected \subseteq rejected' /\ UNCHANGED <<job, worker>>
    BY <1>1 DEF queueVars
  <1> QED BY <1>2, <1>3, AckFrame

\* ... and by the consumers.
LEMMA AckWorker ==
    ASSUME TypeInv, AckInv, [Next]_vars, NEW w \in Workers,
           WorkerStep(w) \/ WorkerCrash(w) \/ \E k \in Keys : ScheduleReply(w, k)
    PROVE  AckInv'
  <1> DEFINE m == worker[w]
             Free == worker' = [worker EXCEPT ![w] = IdleWorker]
             To(pc) == worker' = [worker EXCEPT ![w].pc = pc]
  <1>0. /\ channel' = channel
        /\ \A k \in Keys : Scheduled(k) => Scheduled(k)'
        /\ HandledBy(w)
        /\ m \in WorkerState
        /\ m.pc # "free" => m.key \in Keys
    <2>1. channel' = channel /\ \A k \in Keys : Scheduled(k) => Scheduled(k)'
      BY ScheduledStays
    <2> QED BY <2>1 DEF AckInv, Handled, TypeInv, TypeOK, WorkersHaveJobs
  <1>1. \A v \in Workers \ {w} : worker'[v] = worker[v]
    BY DEF WorkerStep, WorkerCrash, CreateAndPush, ScheduleEmail, MarkPending, SchedulePush,
       Acknowledge, JobFailed, AcknowledgeDead, ScheduleReply, TypeInv, TypeOK
  <1>2. dead \subseteq dead' /\ rejected \subseteq rejected'
    BY DEF WorkerStep, WorkerCrash, CreateAndPush, ScheduleEmail, MarkPending, SchedulePush,
       Acknowledge, JobFailed, AcknowledgeDead, ScheduleReply
  <1>3. Free => HandledBy(w)'
    <2> SUFFICES ASSUME Free PROVE HandledBy(w)'
      OBVIOUS
    <2>1. worker'[w].pc = "free"
      BY DEF IdleWorker, TypeInv, TypeOK
    <2> QED BY <2>1 DEF HandledBy
  <1>4. To("failed") => HandledBy(w)'
    <2> SUFFICES ASSUME To("failed") PROVE HandledBy(w)'
      OBVIOUS
    <2>1. worker'[w].pc = "failed"
      BY <1>0 DEF TypeInv, TypeOK, WorkerState
    <2> QED BY <2>1 DEF HandledBy
  <1> SUFFICES /\ HandledBy(w)'
               /\ \/ UNCHANGED job
                  \/ /\ job' = Acked(m.job)
                     /\ m.job \in Jobs /\ m.key \in Keys /\ job[m.job].key = m.key
                     /\ m.job \in dead' \cup rejected' \/ Scheduled(m.key)
               /\ \/ \A k \in Keys : notification'[k].external = notification[k].external
                  \/ /\ notification' = [notification EXCEPT ![m.key].external = "email_pending"]
                     /\ m.key \in Keys /\ Scheduled(m.key)
                  \/ /\ notification' = [notification EXCEPT ![m.key].external =
                                            "push_unavailable"]
                     /\ m.key \in Keys /\ ~Email(m.key)
    <2> HIDE DEF m
    <2>1. \A v \in Workers : worker'[v] = worker[v] \/ HandledBy(v)'
      BY <1>1
    <2>2. ASSUME NEW j \in Jobs, job'[j].status = "acked"
          PROVE  \/ job[j].status = "acked" /\ job'[j].key = job[j].key
                 \/ j \in dead' \cup rejected'
                 \/ delivery'[job'[j].key].status # "none"
      <3>1. CASE UNCHANGED job
        BY <2>2, <3>1
      <3>2. CASE /\ job' = Acked(m.job)
                 /\ m.job \in Jobs /\ m.key \in Keys /\ job[m.job].key = m.key
                 /\ m.job \in dead' \cup rejected' \/ Scheduled(m.key)
        <4>1. job'[j].key = job[j].key /\ (j # m.job => job'[j] = job[j])
          BY <3>2 DEF Acked, TypeInv, TypeOK, Job
        <4>2. Scheduled(m.key) => delivery'[m.key].status # "none"
          BY <1>0, <3>2 DEF Scheduled
        <4> QED BY <2>2, <3>2, <4>1, <4>2
      <3> QED BY <3>1, <3>2
    <2>3. ASSUME NEW k \in Keys, Email(k)
          PROVE  \/ notification'[k].external = notification[k].external
                 \/ delivery'[k].status # "none"
      <3>1. Scheduled(k) => delivery'[k].status # "none"
        BY <1>0 DEF Scheduled
      <3> QED BY <2>3, <3>1 DEF TypeInv, TypeOK
    <2> QED BY <1>2, <2>1, <2>2, <2>3, AckFrame
  <1>5. CASE CreateAndPush(w)
    <2>1. UNCHANGED <<job, delivery>>
      BY <1>5 DEF CreateAndPush, deliveryVars
    <2>2. \A k \in Keys : notification'[k].external = notification[k].external
      BY <1>5 DEF CreateAndPush, TypeInv, TypeOK, Notification
    <2>3. HandledBy(w)'
      <3>1. m.key \in Keys
        BY <1>0, <1>5 DEF CreateAndPush
      <3>2. \/ worker' = [worker EXCEPT ![w].pc = "created",
                                        ![w].external = notification[m.key].external]
            \/ To("handled") /\ m.job \in rejected'
            \/ To("failed")
        BY <1>5 DEF CreateAndPush
      <3>3. CASE worker' = [worker EXCEPT ![w].pc = "created",
                                          ![w].external = notification[m.key].external]
        <4>1. /\ worker'[w].pc = "created" /\ worker'[w].key = m.key
              /\ worker'[w].external = notification[m.key].external
          BY <3>3 DEF TypeInv, TypeOK, WorkerState
        <4>2. Email(m.key) /\ notification[m.key].external # "" => Scheduled(m.key)
          BY <3>1 DEF AckInv, StatusMeansRow
        <4> QED BY <1>0, <2>1, <4>1, <4>2 DEF HandledBy, Email, Scheduled
      <3>4. CASE To("handled") /\ m.job \in rejected'
        <4>1. worker'[w].pc = "handled" /\ worker'[w].job = m.job
          BY <1>0, <3>4 DEF TypeInv, TypeOK, WorkerState
        <4> QED BY <3>4, <4>1 DEF HandledBy
      <3> QED BY <1>4, <3>2, <3>3, <3>4
    <2> QED BY <2>1, <2>2, <2>3
  <1>6. CASE ScheduleEmail(w)
    <2>1. UNCHANGED <<job, notification>>
      BY <1>6 DEF ScheduleEmail
    <2>2. m.key \in Keys /\ Email(m.key) /\ m.pc = "created"
      BY <1>0, <1>6 DEF ScheduleEmail
    <2>3. \/ To("handled") /\ (m.external # "" \/ Scheduled(m.key))
          \/ To("scheduled") /\ delivery' = Create(m.key)
          \/ To("failed")
      BY <1>6 DEF ScheduleEmail
    <2>4. CASE To("handled") /\ (m.external # "" \/ Scheduled(m.key))
      <3>1. worker'[w].pc = "handled" /\ worker'[w].key = m.key
        BY <1>0, <2>4 DEF TypeInv, TypeOK, WorkerState
      <3>2. Scheduled(m.key)
        BY <1>0, <2>2, <2>4 DEF HandledBy
      <3>3. delivery'[m.key].status # "none"
        BY <1>0, <2>2, <3>2 DEF Scheduled
      <3> QED BY <2>1, <3>1, <3>3 DEF HandledBy, Scheduled
    <2>5. CASE To("scheduled") /\ delivery' = Create(m.key)
      <3>1. worker'[w].pc = "scheduled" /\ worker'[w].key = m.key
        BY <1>0, <2>5 DEF TypeInv, TypeOK, WorkerState
      <3>2. delivery'[m.key].status # "none"
        BY <2>2, <2>5 DEF Create, NoDelivery, TypeInv, TypeOK
      <3> QED BY <2>1, <3>1, <3>2 DEF HandledBy, Scheduled
    <2> QED BY <1>4, <2>1, <2>3, <2>4, <2>5
  <1>7. CASE MarkPending(w)
    <2>1. UNCHANGED <<job, delivery>> /\ m.key \in Keys /\ Scheduled(m.key)
      BY <1>0, <1>7 DEF MarkPending, deliveryVars, HandledBy
    <2>2. \/ /\ To("handled")
             /\ notification' = [notification EXCEPT ![m.key].external = "email_pending"]
          \/ To("failed") /\ UNCHANGED notification
      BY <1>7 DEF MarkPending
    <2>3. To("handled") => HandledBy(w)'
      <3> SUFFICES ASSUME To("handled") PROVE HandledBy(w)'
        OBVIOUS
      <3>1. worker'[w].pc = "handled" /\ worker'[w].key = m.key
        BY <1>0 DEF TypeInv, TypeOK, WorkerState
      <3> QED BY <2>1, <3>1 DEF HandledBy, Scheduled
    <2> QED BY <1>4, <2>1, <2>2, <2>3
  <1>8. CASE SchedulePush(w)
    <2>1. UNCHANGED job /\ Free /\ m.key \in Keys /\ ~Email(m.key)
      BY <1>0, <1>8 DEF SchedulePush
    <2>2. device[m.key] \in BOOLEAN
      BY <2>1 DEF TypeInv, TypeOK
    <2>3. \/ UNCHANGED notification
          \/ notification' = [notification EXCEPT ![m.key].external = "push_unavailable"]
      BY <1>8, <2>2 DEF SchedulePush, PushScheduled
    <2> QED BY <1>3, <2>1, <2>3
  <1>9. CASE Acknowledge(w) \/ AcknowledgeDead(w)
    <2>1. UNCHANGED <<notification, dead, rejected>> /\ Free
      BY <1>9 DEF Acknowledge, AcknowledgeDead
    <2>2. m.job \in Jobs /\ m.key \in Keys /\ job[m.job].key = m.key
      BY <1>9 DEF Acknowledge, AcknowledgeDead, TypeInv, WorkersHaveJobs
    <2>3. m.job \in dead \cup rejected \/ Scheduled(m.key)
      BY <1>0, <1>9 DEF Acknowledge, AcknowledgeDead, HandledBy
    <2>4. UNCHANGED job \/ job' = Acked(m.job)
      BY <1>9 DEF Acknowledge, AcknowledgeDead
    <2> QED BY <1>3, <2>1, <2>2, <2>3, <2>4
  <1>10. CASE JobFailed(w)
    <2>1. UNCHANGED <<job, notification>>
      BY <1>10 DEF JobFailed
    <2>2. Free \/ (To("dead") /\ m.job \in dead')
      BY <1>10 DEF JobFailed
    <2>3. CASE To("dead") /\ m.job \in dead'
      <3>1. worker'[w].pc = "dead" /\ worker'[w].job = m.job
        BY <1>0, <2>3 DEF TypeInv, TypeOK, WorkerState
      <3> QED BY <2>1, <2>3, <3>1 DEF HandledBy
    <2> QED BY <1>3, <2>1, <2>2, <2>3
  <1>11. CASE WorkerCrash(w)
    BY <1>3, <1>11 DEF WorkerCrash
  <1>12. ASSUME NEW k \in Keys, ScheduleReply(w, k)
         PROVE  /\ UNCHANGED job /\ HandledBy(w)'
                /\ \A l \in Keys : notification'[l].external = notification[l].external
    <2>1. UNCHANGED job /\ \A l \in Keys : notification'[l].external = notification[l].external
      <3>1. UNCHANGED job /\ notification' = [notification EXCEPT ![k].exists = TRUE]
        BY <1>12 DEF ScheduleReply
      <3>2. notification \in [Keys -> Notification]
        BY DEF TypeInv, TypeOK
      <3> QED BY <3>1, <3>2 DEF Notification
    <2>2. worker'[w].pc = "created" /\ worker'[w].key = k
      BY <1>12 DEF ScheduleReply, TypeInv, TypeOK
    <2>3. ~Email(k)'
      BY <1>12 DEF ScheduleReply, Email
    <2> QED BY <2>1, <2>2, <2>3 DEF HandledBy, Email
  <1> QED BY <1>5, <1>6, <1>7, <1>8, <1>9, <1>10, <1>11, <1>12 DEF WorkerStep

LEMMA AckStep == TypeInv /\ AckInv /\ [Next]_vars => AckInv'
  <1> SUFFICES ASSUME TypeInv, AckInv, [Next]_vars PROVE AckInv'
    OBVIOUS
  <1>1. CASE UNCHANGED vars
    BY <1>1 DEF vars, queueVars, deliveryVars, AckInv, AckedIsScheduled, Handled, HandledBy,
       StatusMeansRow, Scheduled, Email
  <1>2. CASE Next
    BY <1>2, AckStream, AckSender, AckWorker DEF Next
  <1> QED BY <1>1, <1>2

\* No message is lost between the stream and the mail, whatever crashes and however
\* many consumers hold a message at once: what processMessage acknowledges is
\* scheduled, rejected, or among the dead letters.
THEOREM NoMessageLost == Spec => []AckedIsScheduled
  <1>1. AckInv => AckedIsScheduled
    BY DEF AckInv
  <1> QED BY <1>1, AckInit, AckStep, TypeInvariant, PTL DEF Spec

----------------------------------------------------------------------------
(* The steps, as the scan sees them *)

\* What becomes of a row while nobody claims or settles it: it is created, or time
\* passes.
Quiet(k) ==
    \/ delivery'[k] = delivery[k]
    \/ ~Scheduled(k) /\ delivery'[k].status = "pending" /\ delivery'[k].retries = 0
    \/ /\ delivery'[k].status = delivery[k].status
       /\ delivery'[k].retries = delivery[k].retries
       /\ \/ delivery[k].status = "waiting_retry"
          \/ /\ delivery[k].status = "processing"
             /\ ~overrun' => \A s \in Senders : sender[s].key # k

ScanSteps ==
    \/ \E s \in Senders, k \in Keys : ClaimDue(s, k)
    \/ \E s \in Senders : SenderStep(s) \/ SenderCrash(s)

\* Consumers, requests and time leave the scan alone, and none of them reports that
\* a mail was sent.
LEMMA QuietSteps ==
    ASSUME TypeInv, [Next]_vars, ~ScanSteps
    PROVE  /\ UNCHANGED <<sender, sends, failures, refused>>
           /\ faults' = faults \/ faults' = faults + 1
           /\ \A k \in Keys : Quiet(k)
           /\ \A k \in Keys : notification'[k].external = "email_sent" =>
                                  notification[k].external = "email_sent"
  <1>1. UNCHANGED <<sender, sends, failures, refused>>
    BY DEF ScanSteps, Next, vars, deliveryVars, WorkerStep, Enqueue, ReadGroup, ReclaimPending,
       Begin, BecomeIdle, ScheduleReply, CreateAndPush, ScheduleEmail, MarkPending, SchedulePush,
       Acknowledge, JobFailed, AcknowledgeDead, WorkerCrash, RecoverPushSchedules, LeaseEnds,
       LeaseOverrun, RetryDue, Devices
  <1>2. faults' = faults \/ faults' = faults + 1
    BY DEF ScanSteps, Next, vars, WorkerStep, Enqueue, ReadGroup, ReclaimPending, Begin,
       BecomeIdle, ScheduleReply, CreateAndPush, ScheduleEmail, MarkPending, SchedulePush,
       Acknowledge, JobFailed, AcknowledgeDead, WorkerCrash, RecoverPushSchedules, LeaseEnds,
       LeaseOverrun, RetryDue, Devices, Fault
  <1>3. ASSUME NEW k \in Keys PROVE Quiet(k)
    <2>0. delivery \in [Keys -> Delivery]
      BY DEF TypeInv, TypeOK
    <2>1. CASE UNCHANGED delivery
      BY <2>1 DEF Quiet
    <2>2. ASSUME NEW l \in Keys, ~Scheduled(l), delivery' = Create(l) PROVE Quiet(k)
      <3>1. CASE k = l
        <4>1. delivery'[k] = [NoDelivery EXCEPT !.status = "pending", !.due = TRUE]
          BY <2>0, <2>2, <3>1 DEF Create
        <4> QED BY <2>2, <3>1, <4>1 DEF Quiet, NoDelivery
      <3>2. CASE k # l
        BY <2>0, <2>2, <3>2 DEF Create, Quiet
      <3> QED BY <3>1, <3>2
    <2>3. ASSUME NEW l \in Keys, LeaseEnds(l) \/ LeaseOverrun(l) PROVE Quiet(k)
      <3>1. delivery' = [delivery EXCEPT ![l].stale = TRUE]
        BY <2>3 DEF LeaseEnds, LeaseOverrun
      <3>2. /\ delivery'[k].status = delivery[k].status
            /\ delivery'[k].retries = delivery[k].retries
            /\ k # l => delivery'[k] = delivery[k]
        BY <2>0, <3>1 DEF Delivery
      <3> QED BY <2>3, <3>2 DEF LeaseEnds, LeaseOverrun, Quiet
    <2>4. ASSUME NEW l \in Keys, RetryDue(l) PROVE Quiet(k)
      <3>1. delivery' = [delivery EXCEPT ![l].due = TRUE]
        BY <2>4 DEF RetryDue
      <3>2. /\ delivery'[k].status = delivery[k].status
            /\ delivery'[k].retries = delivery[k].retries
            /\ k # l => delivery'[k] = delivery[k]
        BY <2>0, <3>1 DEF Delivery
      <3> QED BY <2>4, <3>2 DEF RetryDue, Quiet
    <2>5. ASSUME NEW w \in Workers, ScheduleEmail(w) \/ SchedulePush(w) PROVE Quiet(k)
      <3>1. worker[w].key \in Keys
        BY <2>5 DEF ScheduleEmail, SchedulePush, TypeInv, WorkersHaveJobs
      <3>2. device[worker[w].key] \in BOOLEAN
        BY <3>1 DEF TypeInv, TypeOK
      <3>3. \/ delivery' = delivery
            \/ ~Scheduled(worker[w].key) /\ delivery' = Create(worker[w].key)
        BY <2>5, <3>2 DEF ScheduleEmail, SchedulePush, PushScheduled
      <3> QED BY <2>1, <2>2, <3>1, <3>3
    <2>6. ASSUME NEW l \in Keys, RecoverPushSchedules(l) PROVE Quiet(k)
      <3>1. device[l] \in BOOLEAN
        BY DEF TypeInv, TypeOK
      <3>2. \/ delivery' = delivery
            \/ ~Scheduled(l) /\ delivery' = Create(l)
        BY <2>6, <3>1 DEF RecoverPushSchedules, PushScheduled
      <3> QED BY <2>1, <2>2, <3>2
    <2>7. \/ UNCHANGED delivery
          \/ \E l \in Keys : LeaseEnds(l) \/ LeaseOverrun(l) \/ RetryDue(l)
                              \/ RecoverPushSchedules(l)
          \/ \E w \in Workers : ScheduleEmail(w) \/ SchedulePush(w)
      BY DEF ScanSteps, Next, vars, deliveryVars, WorkerStep, Enqueue, ReadGroup,
         ReclaimPending, Begin, BecomeIdle, ScheduleReply, CreateAndPush, MarkPending,
         Acknowledge, JobFailed, AcknowledgeDead, WorkerCrash, Devices
    <2> QED BY <2>1, <2>3, <2>4, <2>5, <2>6, <2>7
  <1>4. ASSUME NEW k \in Keys, notification'[k].external = "email_sent"
        PROVE  notification[k].external = "email_sent"
    <2>0. notification \in [Keys -> Notification]
      BY DEF TypeInv, TypeOK
    <2>1. ASSUME NEW l, NEW x, x # "email_sent",
                 notification' = [notification EXCEPT ![l].external = x]
          PROVE  notification[k].external = "email_sent"
      BY <1>4, <2>0, <2>1 DEF Notification
    <2>2. ASSUME NEW l, notification' = [notification EXCEPT ![l].exists = TRUE]
          PROVE  notification[k].external = "email_sent"
      BY <1>4, <2>0, <2>2 DEF Notification
    <2>3. \/ UNCHANGED notification
          \/ \E l \in Keys : RecoverPushSchedules(l)
          \/ \E l \in Keys, w \in Workers : ScheduleReply(w, l)
          \/ \E w \in Workers : SchedulePush(w) \/ MarkPending(w) \/ CreateAndPush(w)
      BY DEF ScanSteps, Next, vars, WorkerStep, Enqueue, ReadGroup, ReclaimPending, Begin,
         BecomeIdle, ScheduleEmail, Acknowledge, JobFailed, AcknowledgeDead, WorkerCrash,
         LeaseEnds, LeaseOverrun, RetryDue, Devices
    <2>4. ASSUME NEW w \in Workers, SchedulePush(w) PROVE notification[k].external = "email_sent"
      <3>1. worker[w].key \in Keys
        BY <2>4 DEF SchedulePush, TypeInv, WorkersHaveJobs
      <3>2. device[worker[w].key] \in BOOLEAN
        BY <3>1 DEF TypeInv, TypeOK
      <3>3. \/ UNCHANGED notification
            \/ notification' = [notification EXCEPT ![worker[w].key].external =
                                   "push_unavailable"]
        BY <2>4, <3>2 DEF SchedulePush, PushScheduled
      <3> QED BY <1>4, <2>1, <3>3
    <2>5. ASSUME NEW l \in Keys, RecoverPushSchedules(l)
          PROVE  notification[k].external = "email_sent"
      <3>1. device[l] \in BOOLEAN
        BY DEF TypeInv, TypeOK
      <3>2. \/ UNCHANGED notification
            \/ notification' = [notification EXCEPT ![l].external = "push_unavailable"]
        BY <2>5, <3>1 DEF RecoverPushSchedules, PushScheduled
      <3> QED BY <1>4, <2>1, <3>2
    <2>6. ASSUME NEW w \in Workers, MarkPending(w) PROVE notification[k].external = "email_sent"
      <3>1. \/ UNCHANGED notification
            \/ notification' = [notification EXCEPT ![worker[w].key].external = "email_pending"]
        BY <2>6 DEF MarkPending
      <3> QED BY <1>4, <2>1, <3>1
    <2>7. ASSUME NEW w \in Workers,
                 CreateAndPush(w) \/ \E l \in Keys : ScheduleReply(w, l)
          PROVE  notification[k].external = "email_sent"
      <3>1. \/ UNCHANGED notification
            \/ \E l : notification' = [notification EXCEPT ![l].exists = TRUE]
        BY <2>7 DEF CreateAndPush, ScheduleReply
      <3> QED BY <1>4, <2>2, <3>1
    <2> QED BY <1>4, <2>3, <2>4, <2>5, <2>6, <2>7
  <1> QED BY <1>1, <1>2, <1>3, <1>4

\* Claiming a row.
LEMMA ClaimEffect ==
    ASSUME TypeInv, NEW s \in Senders, NEW k \in Keys, ClaimDue(s, k)
    PROVE  /\ sender'[s] = [key |-> k, pc |-> "claimed", retries |-> 0]
           /\ \A v \in Senders : v # s => sender'[v] = sender[v]
           /\ sender[s].pc = "free"
           /\ delivery'[k].status = "processing" /\ ~delivery'[k].stale
           /\ delivery'[k].retries = delivery[k].retries
           /\ \A l \in Keys : l # k => delivery'[l] = delivery[l]
           /\ UNCHANGED <<notification, sends, failures, refused, faults>>
  <1>1. delivery' = [delivery EXCEPT ![k].status = "processing", ![k].stale = FALSE]
    BY DEF ClaimDue
  <1>2. delivery \in [Keys -> Delivery] /\ sender \in [Senders -> SenderState]
    BY DEF TypeInv, TypeOK
  <1>3. /\ delivery'[k].status = "processing" /\ ~delivery'[k].stale
        /\ delivery'[k].retries = delivery[k].retries
        /\ \A l \in Keys : l # k => delivery'[l] = delivery[l]
    <2>1. delivery'[k] = [delivery[k] EXCEPT !.status = "processing", !.stale = FALSE]
      BY <1>1, <1>2
    <2> QED BY <1>1, <1>2, <2>1 DEF Delivery
  <1>4. /\ sender'[s] = [key |-> k, pc |-> "claimed", retries |-> 0]
        /\ \A v \in Senders : v # s => sender'[v] = sender[v]
    BY <1>2 DEF ClaimDue
  <1> QED BY <1>3, <1>4 DEF ClaimDue

\* A sender moves on: what it will report it has seen.
LEMMA AdvanceEffect ==
    ASSUME TypeInv, NEW s \in Senders, ReadClaimed(s) \/ Load(s) \/ Send(s)
    PROVE  LET k == sender[s].key
           IN  /\ k \in Keys
               /\ sender[s].pc \in {"claimed", "read", "loaded"}
               /\ sender'[s].key = k /\ sender'[s].pc # "free"
               /\ sender'[s].retries \in {sender[s].retries, delivery[k].retries}
               /\ \A v \in Senders : v # s => sender'[v] = sender[v]
               /\ UNCHANGED <<delivery, notification, failures>>
               /\ refused \subseteq refused'
               /\ sender'[s].pc \in {"refused", "unreadable"} => k \in refused'
               /\ \/ /\ UNCHANGED sends
                     /\ sender'[s].pc = "sent" => notification[k].external = "email_sent"
                  \/ sends' = [sends EXCEPT ![k] = Plus(@, MaxSends)] /\ sender'[s].pc = "sent"
               /\ faults' = faults \/ faults' = faults + 1
  <1> DEFINE k == sender[s].key
             Go(pc) == sender' = [sender EXCEPT ![s].pc = pc]
  <1>0. sender \in [Senders -> SenderState] /\ sender[s] \in SenderState
    BY DEF TypeInv, TypeOK
  <1>1. sender[s].pc \in {"claimed", "read", "loaded"} /\ k \in Keys
    BY DEF ReadClaimed, Load, Send, TypeInv, SendersHaveKeys
  <1>2. UNCHANGED <<delivery, notification, failures>> /\ refused \subseteq refused'
    BY DEF ReadClaimed, Load, Send
  <1>3. faults' = faults \/ faults' = faults + 1
    BY DEF ReadClaimed, Load, Send, Fault
  <1>4. ASSUME NEW pc, Go(pc)
        PROVE  /\ sender'[s].key = k /\ sender'[s].retries = sender[s].retries
               /\ sender'[s].pc = pc
               /\ \A v \in Senders : v # s => sender'[v] = sender[v]
    <2>1. sender'[s] = [sender[s] EXCEPT !.pc = pc]
      BY <1>0, <1>4
    <2> QED BY <1>0, <1>4, <2>1 DEF SenderState
  <1>5. CASE ReadClaimed(s)
    <2>1. sender' = [sender EXCEPT ![s].pc = "read", ![s].retries = delivery[k].retries]
      BY <1>5 DEF ReadClaimed
    <2>2. sender'[s] = [sender[s] EXCEPT !.pc = "read", !.retries = delivery[k].retries]
      BY <1>0, <2>1
    <2>3. /\ sender'[s].key = k /\ sender'[s].retries = delivery[k].retries
          /\ sender'[s].pc = "read"
          /\ \A v \in Senders : v # s => sender'[v] = sender[v]
      BY <1>0, <2>1, <2>2 DEF SenderState
    <2>4. UNCHANGED sends
      BY <1>5 DEF ReadClaimed
    <2> QED BY <1>1, <1>2, <1>3, <2>3, <2>4
  <1>6. CASE Load(s)
    <2>1. UNCHANGED sends
      BY <1>6 DEF Load
    <2>2. PICK pc \in {"sent", "loaded", "refused", "skipped", "error", "unreadable"} :
             /\ Go(pc)
             /\ pc = "sent" => notification[k].external = "email_sent"
             /\ pc \in {"refused", "unreadable"} => k \in refused'
      BY <1>6 DEF Load
    <2>3. /\ sender'[s].key = k /\ sender'[s].retries = sender[s].retries
          /\ sender'[s].pc = pc
          /\ \A v \in Senders : v # s => sender'[v] = sender[v]
      BY <1>4, <2>2
    <2> QED BY <1>1, <1>2, <1>3, <2>1, <2>2, <2>3
  <1>7. CASE Send(s)
    <2>1. PICK pc \in {"sent", "error", "refused"} :
             /\ Go(pc)
             /\ \/ sends' = [sends EXCEPT ![k] = Plus(@, MaxSends)] /\ pc = "sent"
                \/ UNCHANGED sends /\ pc # "sent"
             /\ pc = "refused" => k \in refused'
      BY <1>7 DEF Send
    <2>2. /\ sender'[s].key = k /\ sender'[s].retries = sender[s].retries
          /\ sender'[s].pc = pc
          /\ \A v \in Senders : v # s => sender'[v] = sender[v]
      BY <1>4, <2>1
    <2> QED BY <1>1, <1>2, <1>3, <2>1, <2>2
  <1> QED BY <1>5, <1>6, <1>7

\* A sender is done with its row, or fails to say so.
LEMMA EndEffect ==
    ASSUME TypeInv, NEW s \in Senders, Settle(s) \/ SenderCrash(s)
    PROVE  LET k == sender[s].key
               pc == sender[s].pc
           IN  /\ k \in Keys /\ pc # "free"
               /\ sender'[s] = IdleSender
               /\ \A v \in Senders : v # s => sender'[v] = sender[v]
               /\ UNCHANGED <<sends, refused>>
               /\ \A l \in Keys : failures'[l] >= failures[l]
               /\ \/ /\ UNCHANGED faults /\ pc \in Result
                     /\ delivery'[k] = RowAfter(pc, sender[s].retries)
                     /\ notification'[k].external = ExternalAfter(k, pc, sender[s].retries)
                     /\ \A l \in Keys : l # k => /\ delivery'[l] = delivery[l]
                                                 /\ notification'[l] = notification[l]
                     /\ pc = "error" => failures'[k] = Plus(failures[k], MaxRetries + 1)
                  \/ faults' = faults + 1 /\ UNCHANGED <<delivery, notification>>
  <1> DEFINE k == sender[s].key
             pc == sender[s].pc
  <1>0. /\ sender \in [Senders -> SenderState] /\ delivery \in [Keys -> Delivery]
        /\ notification \in [Keys -> Notification] /\ failures \in [Keys -> 0..(MaxRetries + 1)]
    BY DEF TypeInv, TypeOK
  <1>1. k \in Keys /\ pc # "free"
    BY DEF Settle, SenderCrash, TypeInv, SendersHaveKeys
  <1>2. sender'[s] = IdleSender /\ \A v \in Senders : v # s => sender'[v] = sender[v]
    BY <1>0 DEF Settle, SenderCrash
  <1>3. UNCHANGED <<sends, refused>>
    BY DEF Settle, SenderCrash
  <1>4. CASE SenderCrash(s)
    <2>1. /\ faults' = faults + 1 /\ UNCHANGED <<delivery, notification, failures>>
      BY <1>4 DEF SenderCrash, Fault
    <2>2. \A l \in Keys : failures'[l] >= failures[l]
      BY <1>0, <2>1, PipelineAssumption
    <2> QED BY <1>1, <1>2, <1>3, <2>1, <2>2
  <1>5. CASE Settle(s)
    <2>1. pc \in Result
      BY <1>5 DEF Settle, Result
    <2>2. /\ \A l \in Keys : failures'[l] >= failures[l]
          /\ pc = "error" => failures'[k] = Plus(failures[k], MaxRetries + 1)
      BY <1>0, <1>1, <1>5, PipelineAssumption DEF Settle, Plus
    <2>3. CASE faults' = faults + 1 /\ UNCHANGED <<delivery, notification>>
      BY <1>1, <1>2, <1>3, <2>2, <2>3
    <2>4. CASE /\ delivery' = [delivery EXCEPT ![k] = RowAfter(pc, sender[s].retries)]
               /\ notification' = [notification EXCEPT ![k].external =
                                     ExternalAfter(k, pc, sender[s].retries)]
               /\ UNCHANGED faults
      <3>1. /\ delivery'[k] = RowAfter(pc, sender[s].retries)
            /\ notification'[k].external = ExternalAfter(k, pc, sender[s].retries)
            /\ \A l \in Keys : l # k => /\ delivery'[l] = delivery[l]
                                        /\ notification'[l] = notification[l]
        BY <1>0, <1>1, <2>4 DEF Notification
      <3> QED BY <1>1, <1>2, <1>3, <2>1, <2>2, <2>4, <3>1
    <2> QED BY <1>5, <2>3, <2>4 DEF Settle, Fault
  <1> QED BY <1>4, <1>5

----------------------------------------------------------------------------
(* What the scan reports is true *)

\* A count of attempts that does not overstate the failures (which are counted up
\* to MaxRetries + 1).
Justified(n, k) == n <= failures[k] \/ failures[k] > MaxRetries

\* A sender knows what it is about to report ...
Honest(s) ==
    LET k == sender[s].key
    IN  /\ sender[s].pc = "sent" => sends[k] > 0
        /\ sender[s].pc \in {"refused", "unreadable"} => k \in refused
        /\ Justified(sender[s].retries, k)

\* ... and so do the rows.
ReportInv ==
    /\ SentWasAccepted
    /\ FailedAfterMaxRetries
    /\ \A s \in Senders : sender[s].pc # "free" => Honest(s)
    /\ \A k \in Keys : Justified(delivery[k].retries, k)

LEMMA ReportInit == Init => ReportInv
  <1> SUFFICES ASSUME Init PROVE ReportInv
    OBVIOUS
  <1>1. SentWasAccepted /\ FailedAfterMaxRetries
    BY DEF Init, SentWasAccepted, FailedAfterMaxRetries, NoDelivery
  <1>2. \A s \in Senders : sender[s].pc = "free"
    BY DEF Init, IdleSender
  <1>3. ASSUME NEW k \in Keys PROVE Justified(delivery[k].retries, k)
    <2>1. delivery[k].retries = 0 /\ failures[k] = 0
      BY DEF Init, NoDelivery
    <2> QED BY <2>1 DEF Justified
  <1> QED BY <1>1, <1>2, <1>3 DEF ReportInv

\* Sends, failures and refusals only accumulate.
LEMMA Accumulate ==
    ASSUME TypeInv, [Next]_vars
    PROVE  /\ \A k \in Keys : sends'[k] >= sends[k] /\ failures'[k] >= failures[k]
           /\ refused \subseteq refused'
           /\ \A k \in Keys : sends[k] \in Nat /\ failures[k] \in 0..(MaxRetries + 1)
  <1>0. /\ \A k \in Keys : sends[k] \in Nat /\ failures[k] \in 0..(MaxRetries + 1)
        /\ \A k \in Keys : failures[k] \in Nat
        /\ sends \in [Keys -> 0..MaxSends] /\ MaxSends \in Nat
    BY PipelineAssumption DEF TypeInv, TypeOK, MaxSends
  <1>1. CASE ~ScanSteps
    <2>1. UNCHANGED <<sends, failures, refused>>
      BY <1>1, QuietSteps
    <2> QED BY <1>0, <2>1
  <1>2. ASSUME NEW s \in Senders, NEW k \in Keys, ClaimDue(s, k)
        PROVE  UNCHANGED <<sends, failures, refused>>
    BY <1>2, ClaimEffect
  <1>3. ASSUME NEW s \in Senders, ReadClaimed(s) \/ Load(s) \/ Send(s)
        PROVE  /\ \A k \in Keys : sends'[k] >= sends[k] /\ failures'[k] >= failures[k]
               /\ refused \subseteq refused'
    <2>1. /\ sender[s].key \in Keys /\ UNCHANGED failures /\ refused \subseteq refused'
          /\ \/ UNCHANGED sends
             \/ sends' = [sends EXCEPT ![sender[s].key] = Plus(@, MaxSends)]
      BY <1>3, AdvanceEffect
    <2>2. \A k \in Keys : sends'[k] >= sends[k]
      BY <1>0, <2>1 DEF Plus
    <2> QED BY <1>0, <2>1, <2>2
  <1>4. ASSUME NEW s \in Senders, Settle(s) \/ SenderCrash(s)
        PROVE  /\ \A k \in Keys : sends'[k] >= sends[k] /\ failures'[k] >= failures[k]
               /\ refused \subseteq refused'
    <2>1. UNCHANGED <<sends, refused>> /\ \A k \in Keys : failures'[k] >= failures[k]
      BY <1>4, EndEffect
    <2> QED BY <1>0, <2>1
  <1> QED BY <1>0, <1>1, <1>2, <1>3, <1>4 DEF ScanSteps, SenderStep

\* What a sender knows, and what justifies a count, stays true.
LEMMA HonestStays ==
    ASSUME TypeInv, [Next]_vars
    PROVE  /\ \A k \in Keys, n \in Nat : Justified(n, k) => Justified(n, k)'
           /\ \A s \in Senders : /\ sender[s].pc # "free" /\ Honest(s)
                                 /\ sender'[s] = sender[s]
                                 => Honest(s)'
  <1>1. /\ \A k \in Keys : sends'[k] >= sends[k] /\ failures'[k] >= failures[k]
        /\ refused \subseteq refused'
        /\ \A k \in Keys : sends[k] \in Nat /\ failures[k] \in Nat
    BY Accumulate, PipelineAssumption
  <1>2. TypeInv'
    BY TypeStep
  <1>3. \A k \in Keys : sends'[k] \in Nat /\ failures'[k] \in Nat
    BY <1>2, PipelineAssumption DEF TypeInv, TypeOK, MaxSends
  <1>4. ASSUME NEW k \in Keys, NEW n \in Nat, Justified(n, k) PROVE Justified(n, k)'
    BY <1>1, <1>3, <1>4, PipelineAssumption DEF Justified
  <1>5. ASSUME NEW s \in Senders, sender[s].pc # "free", Honest(s), sender'[s] = sender[s]
        PROVE  Honest(s)'
    <2>1. sender[s].key \in Keys /\ sender[s].retries \in Nat
      BY <1>5 DEF TypeInv, TypeOK, SendersHaveKeys, SenderState
    <2>2. failures'[sender[s].key] >= failures[sender[s].key]
      BY <1>1, <2>1
    <2>3. Justified(sender[s].retries, sender[s].key)'
      BY <1>1, <1>3, <1>5, <2>1, <2>2, PipelineAssumption DEF Honest, Justified
    <2>4. sends'[sender[s].key] >= sends[sender[s].key]
      BY <1>1, <2>1
    <2> QED BY <1>1, <1>3, <1>5, <2>1, <2>3, <2>4 DEF Honest
  <1> QED BY <1>4, <1>5

LEMMA ReportStep ==
    ASSUME TypeInv, ReportInv, [Next]_vars
    PROVE  ReportInv'
  <1> USE PipelineAssumption
  <1>0. TypeInv'
    BY TypeStep
  <1>1. /\ \A k \in Keys : /\ sends'[k] >= sends[k] /\ failures'[k] >= failures[k]
                           /\ sends[k] \in Nat /\ failures[k] \in Nat
                           /\ sends'[k] \in Nat /\ failures'[k] \in 0..(MaxRetries + 1)
                           /\ delivery[k].retries \in Nat /\ delivery'[k].retries \in Nat
        /\ refused \subseteq refused'
    <2>1. \A k \in Keys : sends'[k] \in Nat /\ failures'[k] \in 0..(MaxRetries + 1)
      BY <1>0 DEF TypeInv, TypeOK, MaxSends
    <2>2. \A k \in Keys : delivery[k].retries \in Nat /\ delivery'[k].retries \in Nat
      BY <1>0 DEF TypeInv, TypeOK, Delivery
    <2> QED BY <2>1, <2>2, Accumulate
  \* Enough: per row and per sender that is new.
  <1>2. ASSUME \A s \in Senders : \/ sender'[s] = sender[s] \/ sender'[s].pc = "free"
                                  \/ Honest(s)',
               \A k \in Keys :
                  /\ delivery'[k].status = "sent" => delivery[k].status = "sent" \/ sends'[k] > 0
                  /\ notification'[k].external = "email_sent" =>
                        notification[k].external = "email_sent" \/ sends'[k] > 0
                  /\ delivery'[k].status = "failed" =>
                        \/ delivery[k].status = "failed"
                        \/ k \in refused'
                        \/ failures'[k] > MaxRetries
                  /\ delivery'[k].retries = delivery[k].retries
                        \/ Justified(delivery[k].retries, k)'
        PROVE  ReportInv'
    <2>1. SentWasAccepted'
      BY <1>1, <1>2 DEF ReportInv, SentWasAccepted
    <2>2. FailedAfterMaxRetries'
      BY <1>1, <1>2 DEF ReportInv, FailedAfterMaxRetries
    <2>3. \A s \in Senders : sender'[s].pc # "free" => Honest(s)'
      BY <1>2, HonestStays DEF ReportInv
    <2>4. ASSUME NEW k \in Keys PROVE Justified(delivery[k].retries, k)'
      <3>1. Justified(delivery[k].retries, k) /\ delivery[k].retries \in Nat
        BY <1>1 DEF ReportInv
      <3>2. CASE delivery'[k].retries = delivery[k].retries
        BY <1>1, <3>1, <3>2 DEF Justified
      <3> QED BY <1>2, <3>2
    <2> QED BY <2>1, <2>2, <2>3, <2>4 DEF ReportInv
  <1>3. CASE ~ScanSteps
    <2>1. /\ UNCHANGED sender
          /\ \A k \in Keys : Quiet(k)
          /\ \A k \in Keys : notification'[k].external = "email_sent" =>
                                 notification[k].external = "email_sent"
      BY <1>3, QuietSteps
    <2>2. ASSUME NEW k \in Keys
          PROVE  /\ delivery'[k].status = delivery[k].status \/ delivery'[k].status = "pending"
                 /\ delivery'[k].retries = delivery[k].retries \/ delivery'[k].retries = 0
      BY <2>1 DEF Quiet
    <2>3. \A k \in Keys : delivery'[k].retries = 0 => Justified(delivery[k].retries, k)'
      BY <1>1 DEF Justified
    <2> QED BY <1>2, <2>1, <2>2, <2>3
  <1>4. ASSUME NEW s \in Senders, NEW k \in Keys, ClaimDue(s, k) PROVE ReportInv'
    <2>1. /\ sender'[s] = [key |-> k, pc |-> "claimed", retries |-> 0]
          /\ \A v \in Senders : v # s => sender'[v] = sender[v]
          /\ delivery'[k].status = "processing" /\ delivery'[k].retries = delivery[k].retries
          /\ \A l \in Keys : l # k => delivery'[l] = delivery[l]
          /\ UNCHANGED notification
      BY <1>4, ClaimEffect
    <2>2. Honest(s)'
      BY <1>1, <2>1 DEF Honest, Justified
    <2> QED BY <1>2, <2>1, <2>2
  <1>5. ASSUME NEW s \in Senders, ReadClaimed(s) \/ Load(s) \/ Send(s) PROVE ReportInv'
    <2> DEFINE k == sender[s].key
    <2>1. /\ k \in Keys /\ sender[s].pc # "free"
          /\ sender'[s].key = k
          /\ sender'[s].retries \in {sender[s].retries, delivery[k].retries}
          /\ \A v \in Senders : v # s => sender'[v] = sender[v]
          /\ UNCHANGED <<delivery, notification, failures>>
          /\ sender'[s].pc \in {"refused", "unreadable"} => k \in refused'
          /\ \/ /\ UNCHANGED sends
                /\ sender'[s].pc = "sent" => notification[k].external = "email_sent"
             \/ sends' = [sends EXCEPT ![k] = Plus(@, MaxSends)] /\ sender'[s].pc = "sent"
      BY <1>5, AdvanceEffect
    <2>2. sender'[s].pc = "sent" => sends'[k] > 0
      <3>1. CASE UNCHANGED sends /\ (sender'[s].pc = "sent" =>
                                        notification[k].external = "email_sent")
        BY <2>1, <3>1 DEF ReportInv, SentWasAccepted
      <3>2. CASE sends' = [sends EXCEPT ![k] = Plus(@, MaxSends)]
        <4>1. sends \in [Keys -> 0..MaxSends] /\ MaxSends \in Nat /\ MaxSends > 0
          BY DEF TypeInv, TypeOK, MaxSends
        <4> QED BY <2>1, <3>2, <4>1 DEF Plus
      <3> QED BY <2>1, <3>1, <3>2
    <2>3. sender'[s].retries <= failures'[k] \/ failures'[k] > MaxRetries
      <3>1. Justified(sender[s].retries, k) /\ Justified(delivery[k].retries, k)
        BY <2>1 DEF ReportInv, Honest
      <3> QED BY <2>1, <3>1 DEF Justified
    <2>4. Honest(s)'
      BY <2>1, <2>2, <2>3 DEF Honest, Justified
    <2> QED BY <1>2, <2>1, <2>4
  <1>6. ASSUME NEW s \in Senders, Settle(s) \/ SenderCrash(s) PROVE ReportInv'
    <2> DEFINE k == sender[s].key
               pc == sender[s].pc
               n == sender[s].retries
    <2>1. /\ k \in Keys /\ pc # "free" /\ sender'[s].pc = "free"
          /\ \A v \in Senders : v # s => sender'[v] = sender[v]
          /\ \/ /\ pc \in Result
                /\ delivery'[k] = RowAfter(pc, n)
                /\ notification'[k].external = ExternalAfter(k, pc, n)
                /\ \A l \in Keys : l # k => /\ delivery'[l] = delivery[l]
                                            /\ notification'[l] = notification[l]
                /\ pc = "error" => failures'[k] = Plus(failures[k], MaxRetries + 1)
             \/ UNCHANGED <<delivery, notification>>
      BY <1>6, EndEffect DEF IdleSender
    <2>2. Honest(s) /\ n \in Nat
      BY <2>1 DEF ReportInv, TypeInv, TypeOK, SenderState
    <2>3. CASE UNCHANGED <<delivery, notification>>
      BY <1>2, <2>1, <2>3
    <2>4. CASE /\ pc \in Result
               /\ delivery'[k] = RowAfter(pc, n)
               /\ notification'[k].external = ExternalAfter(k, pc, n)
               /\ \A l \in Keys : l # k => /\ delivery'[l] = delivery[l]
                                           /\ notification'[l] = notification[l]
               /\ pc = "error" => failures'[k] = Plus(failures[k], MaxRetries + 1)
      <3>0. /\ failures[k] \in Nat /\ failures'[k] >= failures[k]
            /\ failures[k] <= MaxRetries + 1 /\ failures'[k] \in Nat
        BY <1>1, <2>1, Accumulate
      <3>1. /\ n <= failures[k] \/ failures[k] > MaxRetries
            /\ n <= failures'[k] \/ failures'[k] > MaxRetries
        BY <2>2, <3>0 DEF Honest, Justified
      <3>2. pc = "error" => n + 1 <= failures'[k] \/ failures'[k] > MaxRetries
        BY <2>2, <2>4, <3>0, <3>1 DEF Plus
      <3>3. sends[k] \in Nat /\ sends'[k] \in Nat /\ sends'[k] >= sends[k]
        BY <1>1, <2>1
      <3>4. delivery'[k].status = "sent" => sends'[k] > 0
        <4>1. delivery'[k].status = "sent" => pc = "sent"
          BY <2>2, <2>4 DEF RowAfter, Result
        <4> QED BY <2>2, <3>3, <4>1 DEF Honest
      <3>5. notification'[k].external = "email_sent" =>
                notification[k].external = "email_sent" \/ sends'[k] > 0
        <4>1. notification'[k].external = "email_sent" =>
                 pc = "sent" \/ notification[k].external = "email_sent"
          BY <2>2, <2>4 DEF ExternalAfter, Result
        <4> QED BY <2>2, <3>3, <4>1 DEF Honest
      <3>6. delivery'[k].status = "failed" => k \in refused' \/ failures'[k] > MaxRetries
        <4>1. delivery'[k].status = "failed" =>
                 pc \in {"refused", "unreadable"} \/ (pc = "error" /\ n + 1 > MaxRetries)
          BY <2>2, <2>4 DEF RowAfter, Result
        <4>2. pc = "error" /\ n + 1 > MaxRetries => failures'[k] > MaxRetries
          BY <2>2, <3>0, <3>2
        <4>3. pc \in {"refused", "unreadable"} => k \in refused'
          BY <1>1, <2>2 DEF Honest
        <4> QED BY <4>1, <4>2, <4>3
      <3>7. delivery'[k].retries <= failures'[k] \/ failures'[k] > MaxRetries
        <4>1. delivery'[k].retries = n \/ (pc = "error" /\ delivery'[k].retries = n + 1)
          BY <2>2, <2>4 DEF RowAfter, Result
        <4> QED BY <2>2, <3>1, <3>2, <4>1
      <3> HIDE DEF k, pc, n
      <3>8. ASSUME NEW l \in Keys
            PROVE  /\ delivery'[l].status = "sent" => delivery[l].status = "sent" \/ sends'[l] > 0
                   /\ notification'[l].external = "email_sent" =>
                         notification[l].external = "email_sent" \/ sends'[l] > 0
                   /\ delivery'[l].status = "failed" =>
                         \/ delivery[l].status = "failed"
                         \/ l \in refused'
                         \/ failures'[l] > MaxRetries
                   /\ delivery'[l].retries = delivery[l].retries
                         \/ Justified(delivery[l].retries, l)'
        <4>1. CASE l # k
          BY <2>4, <4>1
        <4>2. CASE l = k
          BY <3>4, <3>5, <3>6, <3>7, <4>2 DEF Justified
        <4> QED BY <4>1, <4>2
      <3> QED BY <1>2, <2>1, <3>8
    <2> QED BY <2>1, <2>3, <2>4
  <1> QED BY <1>3, <1>4, <1>5, <1>6 DEF ScanSteps, SenderStep

LEMMA ReportInvariant == Spec => []ReportInv
  <1>1. TypeInv /\ ReportInv /\ [Next]_vars => ReportInv'
    BY ReportStep
  <1> QED BY <1>1, ReportInit, TypeInvariant, PTL DEF Spec

\* Nothing is reported as sent that no provider has accepted, whether or not scans
\* keep within their lease: finishDelivery follows an accepted send, or finds the
\* mail on record as sent.
THEOREM SentWasAcceptedHolds == Spec => []SentWasAccepted
  <1>1. ReportInv => SentWasAccepted
    BY DEF ReportInv
  <1> QED BY <1>1, ReportInvariant, PTL

\* retryOrFail gives a delivery up only after MaxRetries + 1 failed attempts, although
\* it counts them from the copy of a row that another scan may have taken over.
THEOREM FailedAfterMaxRetriesHolds == Spec => []FailedAfterMaxRetries
  <1>1. ReportInv => FailedAfterMaxRetries
    BY DEF ReportInv
  <1> QED BY <1>1, ReportInvariant, PTL

----------------------------------------------------------------------------
(* A scan within its lease has its rows to itself *)

\* Sends that nothing but a fault explains: all of them, unless the last one is on
\* record or about to be.
Recorded(k) ==
    \/ delivery[k].status = "sent"
    \/ \E s \in Senders : sender[s].key = k /\ sender[s].pc = "sent"

ClaimInv ==
    ~overrun =>
      /\ \A s \in Senders : sender[s].pc # "free" =>
            delivery[sender[s].key].status = "processing" /\ ~delivery[sender[s].key].stale
      /\ \A r, s \in Senders :
            sender[r].pc # "free" /\ sender[s].pc # "free" /\ sender[r].key = sender[s].key
                => r = s
      /\ \A k \in Keys : sends[k] <= faults + 1 /\ (sends[k] <= faults \/ Recorded(k))

LEMMA ClaimInit == Init => ClaimInv
  <1> SUFFICES ASSUME Init PROVE ClaimInv
    OBVIOUS
  <1>1. \A s \in Senders : sender[s].pc = "free"
    BY DEF Init, IdleSender
  <1>2. \A k \in Keys : sends[k] = 0 /\ faults = 0
    BY DEF Init
  <1> QED BY <1>1, <1>2 DEF ClaimInv

\* A row that may be claimed is in nobody's hands, and its last mail not on record.
LEMMA ClaimableIsFree ==
    ASSUME TypeInv, ClaimInv, ~overrun, NEW k \in Keys,
           delivery[k].status # "processing" \/ delivery[k].stale
    PROVE  /\ \A s \in Senders : sender[s].pc # "free" => sender[s].key # k
           /\ delivery[k].status # "sent" => sends[k] <= faults
  <1>1. \A s \in Senders : sender[s].pc # "free" => sender[s].key # k
    BY DEF ClaimInv
  <1>2. delivery[k].status # "sent" => ~Recorded(k)
    BY <1>1 DEF Recorded
  <1> QED BY <1>1, <1>2 DEF ClaimInv

\* A sender that has not sent yet is alone with a row whose last mail is not on record.
LEMMA OwnerIsAlone ==
    ASSUME TypeInv, ClaimInv, ~overrun, NEW s \in Senders, sender[s].pc # "free"
    PROVE  /\ \A v \in Senders : sender[v].pc # "free" /\ sender[v].key = sender[s].key => v = s
           /\ delivery[sender[s].key].status = "processing" /\ ~delivery[sender[s].key].stale
           /\ sender[s].pc # "sent" => sends[sender[s].key] <= faults
  <1>1. \A v \in Senders : sender[v].pc # "free" /\ sender[v].key = sender[s].key => v = s
    BY DEF ClaimInv
  <1>2. delivery[sender[s].key].status = "processing" /\ ~delivery[sender[s].key].stale
    BY DEF ClaimInv
  <1>3. sender[s].pc # "sent" => ~Recorded(sender[s].key)
    BY <1>1, <1>2 DEF Recorded
  <1>4. sender[s].key \in Keys
    BY DEF TypeInv, SendersHaveKeys
  <1> QED BY <1>1, <1>2, <1>3, <1>4 DEF ClaimInv

\* A lease that ended too early is not forgotten.
LEMMA OverrunStays ==
    ASSUME TypeInv, [Next]_vars, ~overrun'
    PROVE  ~overrun
  <1>1. UNCHANGED overrun \/ overrun' = TRUE
    BY DEF Next, vars, WorkerStep, SenderStep, Enqueue, ReadGroup, ReclaimPending, Begin,
       BecomeIdle, ScheduleReply, CreateAndPush, ScheduleEmail, MarkPending, SchedulePush,
       Acknowledge, JobFailed, AcknowledgeDead, WorkerCrash, ClaimDue, ReadClaimed, Load, Send,
       Settle, SenderCrash, RecoverPushSchedules, LeaseEnds, LeaseOverrun, RetryDue, Devices
  <1> QED BY <1>1

LEMMA ClaimStep ==
    ASSUME TypeInv, ClaimInv, [Next]_vars
    PROVE  ClaimInv'
  <1> SUFFICES ASSUME ~overrun' PROVE ClaimInv'
    BY DEF ClaimInv
  <1> ~overrun
    BY OverrunStays
  <1>0. /\ \A k \in Keys : sends[k] \in 0..MaxSends
        /\ sends \in [Keys -> 0..MaxSends] /\ MaxSends \in Nat
        /\ faults \in Nat
        /\ \A s \in Senders : sender[s].pc # "free" => sender[s].key \in Keys
    BY PipelineAssumption DEF TypeInv, TypeOK, MaxSends, SendersHaveKeys
  <1>1. CASE ~ScanSteps
    <2>1. /\ UNCHANGED <<sender, sends>>
          /\ faults' = faults \/ faults' = faults + 1
          /\ \A k \in Keys : Quiet(k)
      BY <1>1, QuietSteps
    <2>2. ASSUME NEW s \in Senders, sender[s].pc # "free"
          PROVE  delivery'[sender[s].key] = delivery[sender[s].key]
      <3> DEFINE k == sender[s].key
      <3>1. k \in Keys /\ delivery[k].status = "processing" /\ ~delivery[k].stale
        BY <1>0, <2>2, OwnerIsAlone
      <3> QED BY <2>1, <3>1 DEF Quiet, Scheduled
    <2>3. ASSUME NEW k \in Keys
          PROVE  /\ sends'[k] <= faults' + 1
                 /\ sends'[k] <= faults' \/ Recorded(k)'
      <3>1. sends[k] <= faults + 1 /\ (sends[k] <= faults \/ Recorded(k))
        BY DEF ClaimInv
      <3>2. delivery[k].status = "sent" => delivery'[k].status = "sent"
        BY <2>1 DEF Quiet, Scheduled
      <3>3. Recorded(k) => Recorded(k)'
        BY <2>1, <3>2 DEF Recorded
      <3> QED BY <1>0, <2>1, <3>1, <3>3
    <2>4. /\ \A s \in Senders : sender'[s].pc # "free" =>
                /\ delivery'[sender'[s].key].status = "processing"
                /\ ~delivery'[sender'[s].key].stale
          /\ \A r, s \in Senders :
                sender'[r].pc # "free" /\ sender'[s].pc # "free" /\ sender'[r].key = sender'[s].key
                    => r = s
      BY <2>1, <2>2 DEF ClaimInv
    <2> QED BY <2>3, <2>4 DEF ClaimInv
  <1>2. ASSUME NEW s \in Senders, NEW k \in Keys, ClaimDue(s, k) PROVE ClaimInv'
    <2>1. /\ sender'[s] = [key |-> k, pc |-> "claimed", retries |-> 0]
          /\ \A v \in Senders : v # s => sender'[v] = sender[v]
          /\ delivery'[k].status = "processing" /\ ~delivery'[k].stale
          /\ \A l \in Keys : l # k => delivery'[l] = delivery[l]
          /\ UNCHANGED <<sends, faults>>
          /\ sender[s].pc = "free"
      BY <1>2, ClaimEffect
    <2>2. /\ delivery[k].status # "processing" \/ delivery[k].stale
          /\ delivery[k].status # "sent"
      BY <1>2 DEF ClaimDue, Claimable
    <2>3. /\ \A v \in Senders : sender[v].pc # "free" => sender[v].key # k
          /\ sends[k] <= faults
      BY <2>2, ClaimableIsFree
    <2>4. \A v \in Senders : sender'[v].pc # "free" =>
             /\ delivery'[sender'[v].key].status = "processing"
             /\ ~delivery'[sender'[v].key].stale
      BY <1>0, <2>1, <2>3 DEF ClaimInv
    <2>5. \A r, v \in Senders :
             sender'[r].pc # "free" /\ sender'[v].pc # "free" /\ sender'[r].key = sender'[v].key
                 => r = v
      BY <2>1, <2>3 DEF ClaimInv
    <2>6. ASSUME NEW l \in Keys
          PROVE  sends'[l] <= faults' + 1 /\ (sends'[l] <= faults' \/ Recorded(l)')
      <3>1. CASE l = k
        BY <1>0, <2>1, <2>3, <3>1
      <3>2. CASE l # k
        <4>1. Recorded(l) => Recorded(l)'
          BY <2>1, <3>2 DEF Recorded
        <4> QED BY <1>0, <2>1, <4>1 DEF ClaimInv
      <3> QED BY <3>1, <3>2
    <2> QED BY <2>4, <2>5, <2>6 DEF ClaimInv
  <1>3. ASSUME NEW s \in Senders, ReadClaimed(s) \/ Load(s) \/ Send(s) PROVE ClaimInv'
    <2>1. PICK k \in Keys : k = sender[s].key
      BY <1>3, AdvanceEffect
    <2>2. /\ sender[s].pc \in {"claimed", "read", "loaded"}
          /\ sender'[s].key = k /\ sender'[s].pc # "free"
          /\ \A v \in Senders : v # s => sender'[v] = sender[v]
          /\ UNCHANGED delivery
          /\ \/ UNCHANGED sends
             \/ sends' = [sends EXCEPT ![k] = Plus(@, MaxSends)] /\ sender'[s].pc = "sent"
          /\ faults' = faults \/ faults' = faults + 1
      BY <1>3, <2>1, AdvanceEffect
    <2>3. /\ \A v \in Senders : sender[v].pc # "free" /\ sender[v].key = k => v = s
          /\ delivery[k].status = "processing" /\ ~delivery[k].stale
          /\ sends[k] <= faults
      BY <2>1, <2>2, OwnerIsAlone
    <2>4. \A v \in Senders : sender'[v].pc # "free" =>
             /\ delivery'[sender'[v].key].status = "processing"
             /\ ~delivery'[sender'[v].key].stale
      BY <2>2, <2>3 DEF ClaimInv
    <2>5. \A r, v \in Senders :
             sender'[r].pc # "free" /\ sender'[v].pc # "free" /\ sender'[r].key = sender'[v].key
                 => r = v
      BY <2>1, <2>2, <2>3 DEF ClaimInv
    <2>6. ASSUME NEW l \in Keys
          PROVE  sends'[l] <= faults' + 1 /\ (sends'[l] <= faults' \/ Recorded(l)')
      <3>1. CASE l = k
        <4>1. CASE UNCHANGED sends
          BY <1>0, <2>2, <2>3, <3>1, <4>1
        <4>2. CASE sends' = [sends EXCEPT ![k] = Plus(@, MaxSends)] /\ sender'[s].pc = "sent"
          <5>1. sends'[k] <= sends[k] + 1
            BY <1>0, <4>2 DEF Plus
          <5>2. Recorded(k)'
            BY <2>2, <4>2 DEF Recorded
          <5>3. sends'[k] \in Nat
            BY <1>0, <4>2 DEF Plus
          <5> QED BY <1>0, <2>2, <2>3, <3>1, <5>1, <5>2, <5>3
        <4> QED BY <2>2, <4>1, <4>2
      <3>2. CASE l # k
        <4>1. sends'[l] = sends[l]
          BY <1>0, <2>2, <3>2
        <4>2. Recorded(l) => Recorded(l)'
          BY <2>1, <2>2, <3>2 DEF Recorded
        <4> QED BY <1>0, <2>2, <4>1, <4>2 DEF ClaimInv
      <3> QED BY <3>1, <3>2
    <2> QED BY <2>4, <2>5, <2>6 DEF ClaimInv
  <1>4. ASSUME NEW s \in Senders, Settle(s) \/ SenderCrash(s) PROVE ClaimInv'
    <2>1. PICK k \in Keys : k = sender[s].key
      BY <1>4, EndEffect
    <2>2. /\ sender[s].pc # "free" /\ sender'[s].pc = "free"
          /\ \A v \in Senders : v # s => sender'[v] = sender[v]
          /\ UNCHANGED sends
          /\ \/ /\ UNCHANGED faults /\ sender[s].pc \in Result
                /\ delivery'[k] = RowAfter(sender[s].pc, sender[s].retries)
                /\ \A l \in Keys : l # k => delivery'[l] = delivery[l]
             \/ faults' = faults + 1 /\ UNCHANGED delivery
      BY <1>4, <2>1, EndEffect DEF IdleSender
    <2>3. /\ \A v \in Senders : sender[v].pc # "free" /\ sender[v].key = k => v = s
          /\ sender[s].pc # "sent" => sends[k] <= faults
      BY <2>1, <2>2, OwnerIsAlone
    <2>4. \A v \in Senders : sender'[v].pc # "free" =>
             /\ delivery'[sender'[v].key].status = "processing"
             /\ ~delivery'[sender'[v].key].stale
      BY <1>0, <2>2, <2>3 DEF ClaimInv
    <2>5. \A r, v \in Senders :
             sender'[r].pc # "free" /\ sender'[v].pc # "free" /\ sender'[r].key = sender'[v].key
                 => r = v
      BY <2>2 DEF ClaimInv
    <2>6. ASSUME NEW l \in Keys
          PROVE  sends'[l] <= faults' + 1 /\ (sends'[l] <= faults' \/ Recorded(l)')
      <3>0. sends[l] <= faults + 1 /\ (sends[l] <= faults \/ Recorded(l)) /\ sends[l] \in Nat
        BY <1>0 DEF ClaimInv
      <3>1. CASE faults' = faults + 1 /\ UNCHANGED delivery
        BY <1>0, <2>2, <3>0, <3>1
      <3>2. CASE /\ UNCHANGED faults /\ sender[s].pc \in Result
                 /\ delivery'[k] = RowAfter(sender[s].pc, sender[s].retries)
                 /\ \A m \in Keys : m # k => delivery'[m] = delivery[m]
        <4>1. CASE l # k
          <5>1. Recorded(l) => Recorded(l)'
            BY <2>1, <2>2, <3>2, <4>1 DEF Recorded
          <5> QED BY <2>2, <3>0, <3>2, <5>1
        <4>2. CASE l = k
          <5>1. sender[s].pc = "sent" => delivery'[k].status = "sent"
            BY <3>2 DEF RowAfter
          <5> QED BY <2>2, <2>3, <3>0, <3>2, <4>2, <5>1 DEF Recorded
        <4> QED BY <4>1, <4>2
      <3> QED BY <2>2, <3>1, <3>2
    <2> QED BY <2>4, <2>5, <2>6 DEF ClaimInv
  <1> QED BY <1>1, <1>2, <1>3, <1>4 DEF ScanSteps, SenderStep

LEMMA ClaimInvariant == Spec => []ClaimInv
  <1>1. TypeInv /\ ClaimInv /\ [Next]_vars => ClaimInv'
    BY ClaimStep
  <1> QED BY <1>1, ClaimInit, TypeInvariant, PTL DEF Spec

\* ClaimDue gives every row to one scan at a time as long as scans keep within
\* leaseTTL: every mail but the first is the doing of a crash or a failed write.
THEOREM DuplicateNeedsFaultHolds == Spec => []DuplicateNeedsFault
  <1>1. TypeInv /\ ClaimInv => DuplicateNeedsFault
    <2> SUFFICES ASSUME TypeInv, ClaimInv, ~overrun, NEW k \in Keys PROVE sends[k] <= 1 + faults
      BY DEF DuplicateNeedsFault
    <2>1. sends[k] <= faults + 1 /\ faults \in Nat
      BY PipelineAssumption DEF ClaimInv, TypeInv, TypeOK
    <2> QED BY <2>1
  <1> QED BY <1>1, ClaimInvariant, TypeInvariant, PTL

\* ... and finishDelivery and retryOrFail, which write by id alone, never change a row
\* that is settled: the scan that would do so no longer holds it.
THEOREM SettledIsFinalHolds == Spec => SettledIsFinal
  <1>1. ASSUME TypeInv, ClaimInv, [Next]_vars
        PROVE  ~overrun => \A k \in Keys : Settled(k) => delivery'[k] = delivery[k]
    <2> SUFFICES ASSUME ~overrun, NEW k \in Keys, Settled(k) PROVE delivery'[k] = delivery[k]
      OBVIOUS
    <2> USE <1>1
    <2>0. delivery[k].status \in {"sent", "failed", "skipped"}
      BY DEF Settled
    <2>1. CASE ~ScanSteps
      <3>1. Quiet(k)
        BY <2>1, QuietSteps
      <3> QED BY <2>0, <3>1 DEF Quiet, Scheduled
    <2>2. ASSUME NEW s \in Senders, NEW l \in Keys, ClaimDue(s, l)
          PROVE  delivery'[k] = delivery[k]
      <3>1. k # l
        BY <2>0, <2>2 DEF ClaimDue, Claimable
      <3> QED BY <2>2, <3>1, ClaimEffect
    <2>3. ASSUME NEW s \in Senders, ReadClaimed(s) \/ Load(s) \/ Send(s)
          PROVE  delivery'[k] = delivery[k]
      BY <2>3, AdvanceEffect
    <2>4. ASSUME NEW s \in Senders, Settle(s) \/ SenderCrash(s)
          PROVE  delivery'[k] = delivery[k]
      <3>1. sender[s].pc # "free"
        BY <2>4, EndEffect
      <3>2. k # sender[s].key
        BY <2>0, <3>1, OwnerIsAlone
      <3>3. \/ \A l \in Keys : l # sender[s].key => delivery'[l] = delivery[l]
            \/ UNCHANGED delivery
        BY <2>4, EndEffect
      <3> QED BY <3>2, <3>3
    <2> QED BY <2>1, <2>2, <2>3, <2>4 DEF ScanSteps, SenderStep
  <1> QED BY <1>1, TypeInvariant, ClaimInvariant, PTL DEF Spec, SettledIsFinal

===========================================================================
