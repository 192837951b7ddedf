------------------------- MODULE AIReplyJobsProofs -------------------------
(***************************************************************************)
(* Proofs about AIReplyJobs, for any conversations, workers, batches,      *)
(* retries and bounds.                                                     *)
(*                                                                         *)
(* A copy in a batch may be as old as it likes: what is proved rests on    *)
(* the fence of Finish, on settled jobs being out of every query's reach,  *)
(* and on facts about a copy that only become truer with age.              *)
(***************************************************************************)
EXTENDS AIReplyJobs, WellFoundedInduction, TLAPS

----------------------------------------------------------------------------
(* Types *)

Status == {"none", "running"} \cup Waiting \cup Settled

Unfinished == Waiting \cup {"running"}

Label == {"start", "loaded", "wait", "cancelled", "quota", "run", "commit",
          "count", "succeeded", "error", "failed"}

Snapshot == [canReply : BOOLEAN, rounds : 0..MaxRounds]

\* A worker at work has a copy, and a text once it commits one.
WorkerOK(w) ==
    /\ pc[w] # "start" => batch[w] # {}
    /\ pc[w] = "commit" => prefix[w] \in Prefixes

\* Copies are of turns that were sent, in a conversation.
RowsOK ==
    /\ \A j \in Jobs : /\ job[j].status = "none" => job[j].conversation = "none"
                       /\ job[j].status # "none" => job[j].conversation \in Conversations
    /\ \A w \in Workers : \A c \in batch[w] : job[c.id].status # "none"

TypeInv ==
    /\ TypeOK
    /\ \A w \in Workers : WorkerOK(w)
    /\ RowsOK

\* The conjuncts of TypeOK about the jobs, the conversations and the workers.
JobType  == job \in [Jobs -> Row] /\ failures \in [Jobs -> Nat]
ChatType == /\ conversation \in [Conversations -> {"ai", "handoff", "human", "closed"}]
            /\ rounds \in [Conversations -> 0..MaxRounds]
            /\ sent \subseteq Jobs \X Prefixes /\ mute \subseteq Jobs
WorkType == /\ batch \in [Workers -> SUBSET Copy] /\ pc \in [Workers -> Label]
            /\ snapshot \in [Workers -> Snapshot]
            /\ prefix \in [Workers -> Prefixes \cup {"none"}]

LEMMA Types ==
    /\ TypeOK <=> JobType /\ ChatType /\ WorkType /\ faults \in 0..MaxFaults
    /\ TypeOK' <=> JobType' /\ ChatType' /\ WorkType' /\ faults' \in 0..MaxFaults
  BY DEF TypeOK, JobType, ChatType, WorkType, Label, Snapshot

\* A nonempty batch has a first copy, and Current is it.
LEMMA CurrentIsFirst ==
    ASSUME NEW w \in Workers, batch[w] \subseteq Copy, batch[w] # {}
    PROVE  /\ Current(w) \in batch[w]
           /\ Current(w) \in Copy /\ Current(w).id \in Jobs /\ Current(w).retry_count \in Nat
           /\ \A d \in batch[w] : Current(w).id <= d.id
  <1> DEFINE S == {c.id : c \in batch[w]}
  <1>1. S \subseteq Nat /\ S # {}
    BY DEF Copy, Jobs
  <1>2. PICK s \in S : \A t \in S : ~ (<<t, s>> \in OpToRel(<, Nat))
    BY <1>1, NatLessThanWellFounded, WFMin
  <1>3. \A t \in S : s <= t
    <2> SUFFICES ASSUME NEW t \in S, t < s PROVE FALSE
      BY <1>1
    <2>1. <<t, s>> \in Nat \X Nat /\ <<t, s>>[1] = t /\ <<t, s>>[2] = s
      BY <1>1
    <2>2. <<t, s>>[1] < <<t, s>>[2]
      BY <2>1
    <2>3. <<t, s>> \in {p \in Nat \X Nat : p[1] < p[2]}
      BY <2>1, <2>2, Zenon
    <2> QED BY <1>2, <2>3, Zenon DEF OpToRel
  <1>4. PICK c \in batch[w] : c.id = s
    BY <1>2
  <1>5. \E b \in batch[w] : \A d \in batch[w] : b.id <= d.id
    BY <1>3, <1>4
  <1>6. Current(w) \in batch[w] /\ \A d \in batch[w] : Current(w).id <= d.id
    BY <1>5 DEF Current
  <1> QED BY <1>6 DEF Copy

\* What a worker processes: a turn that was sent.
LEMMA Processed ==
    ASSUME TypeInv, NEW w \in Workers, batch[w] # {}
    PROVE  /\ Current(w) \in batch[w] /\ Current(w) \in Copy
           /\ Current(w).id \in Jobs /\ Current(w).retry_count \in Nat
           /\ job[Current(w).id].status # "none"
           /\ job[Current(w).id].conversation \in Conversations
  <1>1. batch[w] \subseteq Copy
    BY Types DEF TypeInv, WorkType
  <1>2. /\ Current(w) \in batch[w] /\ Current(w) \in Copy
        /\ Current(w).id \in Jobs /\ Current(w).retry_count \in Nat
    BY <1>1, CurrentIsFirst
  <1> QED BY <1>2 DEF TypeInv, RowsOK

LEMMA TypeInit == Init => TypeInv
  <1> SUFFICES ASSUME Init PROVE TypeInv
    OBVIOUS
  <1>1. NoRow \in Row
    BY DEF NoRow, Row, Waiting
  <1>2. NoSnapshot \in Snapshot
    BY ReplyJobsAssumption DEF NoSnapshot, Snapshot
  <1>3. JobType
    BY <1>1 DEF Init, JobType
  <1>4. ChatType
    BY ReplyJobsAssumption DEF Init, ChatType
  <1>5. WorkType /\ faults \in 0..MaxFaults
    BY <1>2, ReplyJobsAssumption DEF Init, WorkType, Label
  <1>6. \A w \in Workers : WorkerOK(w)
    BY DEF Init, WorkerOK
  <1>7. RowsOK
    BY DEF Init, RowsOK, NoRow
  <1> QED BY <1>3, <1>4, <1>5, <1>6, <1>7, Types DEF TypeInv

----------------------------------------------------------------------------
(* What a step does to a job *)

Kept(j) == job'[j] = job[j]

\* A customer sends the turn.
Created(j) ==
    /\ job[j].status = "none" /\ job'[j].status = "pending"
    /\ \A i \in 1..(j - 1) : job[i].status # "none"
    /\ job'[j].conversation \in Conversations /\ job'[j].retry_count = job[j].retry_count

\* The turn is claimed, recovered or due again; its lease ends or is renewed.
Shifted(j) ==
    /\ job[j].status \in Unfinished /\ job'[j].status \in Unfinished
    /\ job'[j].conversation = job[j].conversation
    /\ job'[j].retry_count = job[j].retry_count

\* A worker finishes its copy, and the fence lets it.
Finished(w, j) ==
    /\ batch[w] # {} /\ j = Current(w).id
    /\ job[j].status = "running" /\ job'[j].conversation = job[j].conversation
    /\ \/ /\ job'[j].status = pc[w] /\ pc[w] \in {"succeeded", "cancelled"}
          /\ job'[j].retry_count = Current(w).retry_count
       \/ /\ job'[j].status = "waiting_retry" /\ pc[w] = "wait"
          /\ job'[j].retry_count = Current(w).retry_count
       \/ /\ job'[j].status = "waiting_retry" /\ pc[w] = "error"
          /\ job'[j].retry_count = Current(w).retry_count + 1
          /\ failures'[j] = failures[j] + 1
       \/ /\ job'[j].status = "failed" /\ pc[w] = "failed"
          /\ job'[j].retry_count = Current(w).retry_count + 1
          /\ failures'[j] = failures[j] + 1

FinishSteps(w) == FinishReplyJob(w) \/ RetryReplyJob(w) \/ FailReplyJob(w)

\* The steps that write to a job.
JobSteps ==
    \/ \E j \in Jobs, c \in Conversations : EnqueueReplyJob(j, c)
    \/ \E w \in Workers : ClaimDueJobs(w) \/ Heartbeat(w) \/ HeartbeatsLost(w) \/ FinishSteps(w)
    \/ RecoverExpiredRunningJobs
    \/ \E j \in Jobs : BackoffEnds(j) \/ LeaseEnds(j)

LEMMA OtherSteps ==
    ASSUME [Next]_vars, ~JobSteps
    PROVE  UNCHANGED <<job, failures>>
  BY DEF JobSteps, FinishSteps, Next, vars, jobVars, Work, Handoff, TakeOver, Close, Load, Check,
     CheckError, SendQuota, TriggerReply, CommitAIReply, CountRound, CommitAsyncFailure, Crash

\* Finish, whatever it writes.
LEMMA FinishWrites ==
    ASSUME job \in [Jobs -> Row], NEW w \in Workers, Current(w).id \in Jobs,
           NEW status \in Unfinished \cup Settled, NEW n \in Nat, Finish(w, status, n)
    PROVE  LET j == Current(w).id
           IN  /\ job' \in [Jobs -> Row]
               /\ \A i \in Jobs : i # j => Kept(i)
               /\ \/ Kept(j)
                  \/ /\ Holds(w, j)
                     /\ job'[j].status = status /\ job'[j].retry_count = n
                     /\ job'[j].conversation = job[j].conversation
  <1> DEFINE j == Current(w).id
             r == [job[j] EXCEPT !.status = status, !.retry_count = n, !.due = FALSE,
                                 !.leased = FALSE, !.lock_owner = "none"]
  <1>1. job' = IF Holds(w, j) THEN [job EXCEPT ![j] = r] ELSE job
    BY DEF Finish
  <1>a. job[j] \in Row
    OBVIOUS
  <1>b. r.status = status /\ r.retry_count = n /\ r.conversation = job[j].conversation
    BY <1>a DEF Row
  <1>s. status \in {"none", "running"} \cup Waiting \cup Settled
    BY DEF Unfinished
  <1>c. r \in Row
    BY <1>a, <1>s DEF Row
  <1>2. /\ r \in Row /\ r.status = status /\ r.retry_count = n
        /\ r.conversation = job[j].conversation
    BY <1>b, <1>c
  <1> HIDE DEF r, j
  <1>3. CASE Holds(w, j)
    <2>1. job'[j] = r /\ job' \in [Jobs -> Row] /\ \A i \in Jobs : i # j => job'[i] = job[i]
      BY <1>1, <1>2, <1>3 DEF j
    <2> QED BY <1>2, <1>3, <2>1 DEF Kept, j
  <1>4. CASE ~Holds(w, j)
    BY <1>1, <1>4 DEF Kept, j
  <1> QED BY <1>3, <1>4

\* One timer of one row.
LEMMA TimerWrites ==
    ASSUME job \in [Jobs -> Row], NEW j \in Jobs, job[j].status \in Unfinished, NEW b \in BOOLEAN,
           job' = [job EXCEPT ![j].leased = b] \/ job' = [job EXCEPT ![j].due = b]
    PROVE  /\ job' \in [Jobs -> Row]
           /\ \A i \in Jobs : Kept(i) \/ Shifted(i)
  <1>1. \/ job' = [job EXCEPT ![j] = [job[j] EXCEPT !.leased = b]]
        \/ job' = [job EXCEPT ![j] = [job[j] EXCEPT !.due = b]]
    OBVIOUS
  <1>2. PICK r \in Row : /\ job' = [job EXCEPT ![j] = r] /\ r.status = job[j].status
                         /\ r.conversation = job[j].conversation
                         /\ r.retry_count = job[j].retry_count
    <2>1. CASE job' = [job EXCEPT ![j] = [job[j] EXCEPT !.leased = b]]
      <3>1. /\ [job[j] EXCEPT !.leased = b] \in Row
            /\ [job[j] EXCEPT !.leased = b].status = job[j].status
            /\ [job[j] EXCEPT !.leased = b].conversation = job[j].conversation
            /\ [job[j] EXCEPT !.leased = b].retry_count = job[j].retry_count
        BY DEF Row
      <3> QED BY <2>1, <3>1
    <2>2. CASE job' = [job EXCEPT ![j] = [job[j] EXCEPT !.due = b]]
      <3>1. /\ [job[j] EXCEPT !.due = b] \in Row
            /\ [job[j] EXCEPT !.due = b].status = job[j].status
            /\ [job[j] EXCEPT !.due = b].conversation = job[j].conversation
            /\ [job[j] EXCEPT !.due = b].retry_count = job[j].retry_count
        BY DEF Row
      <3> QED BY <2>2, <3>1
    <2> QED BY <1>1, <2>1, <2>2
  <1> QED BY <1>2 DEF Kept, Shifted

\* The three ways a worker finishes a copy.
LEMMA FinishEffect ==
    ASSUME TypeInv, NEW w \in Workers, FinishSteps(w)
    PROVE  /\ JobType' /\ batch[w] # {}
           /\ \A j \in Jobs : Kept(j) \/ Finished(w, j)
           /\ \A j \in Jobs : failures'[j] >= failures[j]
           /\ DropCopy(w) /\ UNCHANGED chatVars
           /\ faults' = faults \/ Fault
  <1> DEFINE j == Current(w).id
             n == Current(w).retry_count
  <1>0. job \in [Jobs -> Row] /\ failures \in [Jobs -> Nat]
    BY Types DEF TypeInv, JobType
  <1>1. batch[w] # {}
    BY DEF FinishSteps, FinishReplyJob, RetryReplyJob, FailReplyJob, TypeInv, WorkerOK
  <1>2. j \in Jobs /\ n \in Nat
    BY <1>1, Processed
  <1>3. CASE FinishReplyJob(w)
    <2>1. UNCHANGED failures /\ DropCopy(w) /\ UNCHANGED chatVars /\ (faults' = faults \/ Fault)
      BY <1>3 DEF FinishReplyJob
    <2>2. CASE Finish(w, IF pc[w] = "wait" THEN "waiting_retry" ELSE pc[w], n)
      <3>1. PICK s \in Unfinished \cup Settled :
               /\ Finish(w, s, n)
               /\ \/ pc[w] \in {"succeeded", "cancelled"} /\ s = pc[w]
                  \/ pc[w] = "wait" /\ s = "waiting_retry"
        BY <1>3, <2>2 DEF FinishReplyJob, Unfinished, Waiting, Settled
      <3>2. /\ job' \in [Jobs -> Row]
            /\ \A i \in Jobs : i # j => Kept(i)
            /\ \/ Kept(j)
               \/ /\ Holds(w, j)
                  /\ job'[j].status = s /\ job'[j].retry_count = n
                  /\ job'[j].conversation = job[j].conversation
        BY <1>0, <1>2, <3>1, FinishWrites
      <3>3. Kept(j) \/ Finished(w, j)
        BY <1>1, <3>1, <3>2 DEF Finished, Holds
      <3> QED BY <1>0, <1>1, <2>1, <3>2, <3>3 DEF JobType
    <2>3. CASE UNCHANGED job
      BY <1>0, <1>1, <2>1, <2>3 DEF JobType, Kept
    <2> QED BY <1>3, <2>2, <2>3 DEF FinishReplyJob
  <1>4. ASSUME RetryReplyJob(w) \/ FailReplyJob(w)
        PROVE  /\ JobType'
               /\ \A i \in Jobs : Kept(i) \/ Finished(w, i)
               /\ \A i \in Jobs : failures'[i] >= failures[i]
               /\ DropCopy(w) /\ UNCHANGED chatVars /\ (faults' = faults \/ Fault)
    <2>1. /\ failures' = [failures EXCEPT ![j] = @ + 1] /\ DropCopy(w) /\ UNCHANGED chatVars
          /\ faults' = faults \/ Fault
      BY <1>4 DEF RetryReplyJob, FailReplyJob
    <2>2. /\ failures' \in [Jobs -> Nat] /\ failures'[j] = failures[j] + 1
          /\ \A i \in Jobs : failures'[i] >= failures[i]
      BY <1>0, <1>2, <2>1
    <2>3. CASE UNCHANGED job
      BY <1>0, <2>1, <2>2, <2>3 DEF JobType, Kept
    <2>4. ASSUME NEW s \in {"waiting_retry", "failed"}, Finish(w, s, n + 1),
                 (pc[w] = "error" /\ s = "waiting_retry") \/ (pc[w] = "failed" /\ s = "failed")
          PROVE  job' \in [Jobs -> Row] /\ \A i \in Jobs : Kept(i) \/ Finished(w, i)
      <3>1. s \in Unfinished \cup Settled /\ n + 1 \in Nat
        BY <1>2 DEF Unfinished, Waiting, Settled
      <3>2. /\ job' \in [Jobs -> Row]
            /\ \A i \in Jobs : i # j => Kept(i)
            /\ \/ Kept(j)
               \/ /\ Holds(w, j)
                  /\ job'[j].status = s /\ job'[j].retry_count = n + 1
                  /\ job'[j].conversation = job[j].conversation
        BY <1>0, <1>2, <2>4, <3>1, FinishWrites
      <3>3. Kept(j) \/ Finished(w, j)
        BY <1>1, <2>2, <2>4, <3>2 DEF Finished, Holds
      <3> QED BY <3>2, <3>3
    <2>5. \/ UNCHANGED job
          \/ Finish(w, "waiting_retry", n + 1) /\ pc[w] = "error"
          \/ Finish(w, "failed", n + 1) /\ pc[w] = "failed"
      BY <1>4 DEF RetryReplyJob, FailReplyJob
    <2>6. CASE ~UNCHANGED job
      <3>1. job' \in [Jobs -> Row] /\ \A i \in Jobs : Kept(i) \/ Finished(w, i)
        BY <2>4, <2>5, <2>6
      <3> QED BY <2>1, <2>2, <3>1 DEF JobType
    <2> QED BY <2>3, <2>6
  <1> QED BY <1>1, <1>3, <1>4 DEF FinishSteps

LEMMA ClaimEffect ==
    ASSUME TypeInv, NEW w \in Workers, ClaimDueJobs(w)
    PROVE  /\ JobType' /\ \A j \in Jobs : Kept(j) \/ Shifted(j)
           /\ batch[w] = {} /\ \A v \in Workers : v # w => batch'[v] = batch[v]
           /\ batch' \in [Workers -> SUBSET Copy]
           /\ \A c \in batch'[w] : /\ c.id \in Jobs /\ c.retry_count = job[c.id].retry_count
                                   /\ job[c.id].status # "none"
           /\ UNCHANGED <<failures, chatVars, pc, snapshot, prefix, faults>>
  <1>0. job \in [Jobs -> Row] /\ failures \in [Jobs -> Nat] /\ batch \in [Workers -> SUBSET Copy]
    BY Types DEF TypeInv, JobType, WorkType
  <1> DEFINE due     == {j \in Jobs : Due(j)}
             claimed == {j \in due : Cardinality({i \in due : i < j}) < BatchLimit}
             copies  == {[id |-> j, retry_count |-> job[j].retry_count] : j \in claimed}
  <1>1. /\ batch[w] = {} /\ batch' = [batch EXCEPT ![w] = copies]
        /\ job' = [j \in Jobs |->
                     IF j \in claimed
                     THEN [job[j] EXCEPT !.status = "running", !.leased = TRUE,
                                         !.lock_owner = w]
                     ELSE job[j]]
        /\ UNCHANGED <<failures, chatVars, pc, snapshot, prefix, faults>>
    BY DEF ClaimDueJobs
  <1>2. \A j \in claimed : j \in Jobs /\ job[j].status \in Waiting
    BY DEF Due
  <1> HIDE DEF claimed
  <1>3. ASSUME NEW j \in Jobs PROVE job'[j] \in Row /\ (Kept(j) \/ Shifted(j))
    <2>1. CASE j \in claimed
      <3>1. job'[j] = [job[j] EXCEPT !.status = "running", !.leased = TRUE, !.lock_owner = w]
        BY <1>1, <2>1
      <3>2. /\ job'[j] \in Row /\ job'[j].status = "running"
            /\ job'[j].conversation = job[j].conversation
            /\ job'[j].retry_count = job[j].retry_count
        <4>1. job[j] \in Row /\ "running" \in Status
          BY <1>0 DEF Status
        <4> QED BY <3>1, <4>1 DEF Row, Status
      <3> QED BY <1>2, <2>1, <3>2 DEF Shifted, Unfinished
    <2>2. CASE j \notin claimed
      BY <1>0, <1>1, <2>2 DEF Kept
    <2> QED BY <2>1, <2>2
  <1>4. job' \in [Jobs -> Row]
    BY <1>1, <1>3
  <1>5. \A j \in claimed : job[j].retry_count \in Nat
    BY <1>0, <1>2 DEF Row
  <1>6. copies \subseteq Copy
    BY <1>2, <1>5 DEF Copy
  <1>7. \A c \in copies : /\ c.id \in Jobs /\ c.retry_count = job[c.id].retry_count
                          /\ job[c.id].status # "none"
    BY <1>2 DEF Waiting
  <1> HIDE DEF copies
  <1>8. batch' \in [Workers -> SUBSET Copy] /\ batch'[w] = copies
        /\ \A v \in Workers : v # w => batch'[v] = batch[v]
    BY <1>0, <1>1, <1>6
  <1> QED BY <1>0, <1>1, <1>3, <1>4, <1>7, <1>8 DEF JobType

LEMMA RecoverEffect ==
    ASSUME TypeInv, RecoverExpiredRunningJobs
    PROVE  JobType' /\ \A j \in Jobs : Kept(j) \/ Shifted(j)
  <1>0. job \in [Jobs -> Row] /\ failures \in [Jobs -> Nat]
    BY Types DEF TypeInv, JobType
  <1>1. ASSUME NEW j \in Jobs PROVE job'[j] \in Row /\ (Kept(j) \/ Shifted(j))
    <2>1. CASE Expired(j)
      <3>1. job'[j] = [job[j] EXCEPT !.status = "waiting_retry", !.due = TRUE, !.lock_owner = "none"]
        BY <2>1 DEF RecoverExpiredRunningJobs
      <3>2. /\ job'[j] \in Row /\ job'[j].status = "waiting_retry"
            /\ job'[j].conversation = job[j].conversation
            /\ job'[j].retry_count = job[j].retry_count
        <4>1. job[j] \in Row /\ "waiting_retry" \in Status
          BY <1>0 DEF Status, Waiting
        <4> QED BY <3>1, <4>1 DEF Row, Status
      <3> QED BY <2>1, <3>2 DEF Expired, Shifted, Unfinished, Waiting
    <2>2. CASE ~Expired(j)
      BY <1>0, <2>2 DEF RecoverExpiredRunningJobs, Kept
    <2> QED BY <2>1, <2>2
  <1>2. job' \in [Jobs -> Row] /\ UNCHANGED failures
    BY <1>1 DEF RecoverExpiredRunningJobs
  <1> QED BY <1>0, <1>1, <1>2 DEF JobType

LEMMA EnqueueEffect ==
    ASSUME TypeInv, NEW j \in Jobs, NEW c \in Conversations, EnqueueReplyJob(j, c)
    PROVE  JobType' /\ Created(j) /\ \A i \in Jobs : i # j => Kept(i)
  <1>0. job \in [Jobs -> Row] /\ failures \in [Jobs -> Nat]
    BY Types DEF TypeInv, JobType
  <1>1. job' = [job EXCEPT ![j] = [job[j] EXCEPT !.status = "pending", !.conversation = c]]
    BY <1>0 DEF EnqueueReplyJob
  <1>2. job'[j] = [job[j] EXCEPT !.status = "pending", !.conversation = c]
    BY <1>0, <1>1
  <1>3. /\ job'[j] \in Row /\ job'[j].status = "pending" /\ job'[j].conversation = c
        /\ job'[j].retry_count = job[j].retry_count
    <2>1. job[j] \in Row /\ "pending" \in Status
      BY <1>0 DEF Status, Waiting
    <2> QED BY <1>2, <2>1 DEF Row, Status
  <1>4. job' \in [Jobs -> Row] /\ \A i \in Jobs : i # j => job'[i] = job[i]
    BY <1>0, <1>1, <1>2, <1>3
  <1> QED BY <1>0, <1>3, <1>4 DEF EnqueueReplyJob, Created, Kept, JobType

\* A job is left alone, sent, moved among the unfinished, or finished by its worker.
LEMMA JobEffect ==
    ASSUME TypeInv, [Next]_vars
    PROVE  /\ JobType'
           /\ \A j \in Jobs : \/ Kept(j) \/ Created(j) \/ Shifted(j)
                              \/ \E w \in Workers : Finished(w, j)
           /\ \A j \in Jobs : failures'[j] >= failures[j]
  <1>0. job \in [Jobs -> Row] /\ failures \in [Jobs -> Nat]
    BY Types DEF TypeInv, JobType
  <1>1. CASE ~JobSteps
    <2>1. UNCHANGED <<job, failures>>
      BY <1>1, OtherSteps
    <2> QED BY <1>0, <2>1 DEF Kept, JobType
  <1>2. ASSUME NEW j \in Jobs, NEW c \in Conversations, EnqueueReplyJob(j, c)
        PROVE  JobType' /\ UNCHANGED failures /\ \A i \in Jobs : Kept(i) \/ Created(i)
    BY <1>2, EnqueueEffect DEF EnqueueReplyJob
  <1>3. ASSUME NEW w \in Workers, ClaimDueJobs(w)
        PROVE  JobType' /\ UNCHANGED failures /\ \A i \in Jobs : Kept(i) \/ Shifted(i)
    BY <1>3, ClaimEffect
  <1>4. ASSUME NEW w \in Workers, Heartbeat(w) \/ HeartbeatsLost(w)
        PROVE  JobType' /\ UNCHANGED failures /\ \A i \in Jobs : Kept(i) \/ Shifted(i)
    <2>1. Current(w).id \in Jobs /\ job[Current(w).id].status \in Unfinished
      BY <1>4, Processed DEF Heartbeat, HeartbeatsLost, Holds, Unfinished
    <2>2. PICK b \in BOOLEAN : job' = [job EXCEPT ![Current(w).id].leased = b]
      BY <1>4 DEF Heartbeat, HeartbeatsLost
    <2>3. UNCHANGED failures
      BY <1>4 DEF Heartbeat, HeartbeatsLost
    <2> QED BY <1>0, <2>1, <2>2, <2>3, TimerWrites DEF JobType
  <1>5. ASSUME NEW j \in Jobs, BackoffEnds(j) \/ LeaseEnds(j)
        PROVE  JobType' /\ UNCHANGED failures /\ \A i \in Jobs : Kept(i) \/ Shifted(i)
    <2>1. job[j].status \in Unfinished /\ UNCHANGED failures
      BY <1>5 DEF BackoffEnds, LeaseEnds, Unfinished, Waiting
    <2>2. job' = [job EXCEPT ![j].due = TRUE] \/ job' = [job EXCEPT ![j].leased = FALSE]
      BY <1>5 DEF BackoffEnds, LeaseEnds
    <2> QED BY <1>0, <2>1, <2>2, TimerWrites DEF JobType
  <1>6. CASE RecoverExpiredRunningJobs
    <2>1. JobType' /\ UNCHANGED failures /\ \A i \in Jobs : Kept(i) \/ Shifted(i)
      BY <1>6, RecoverEffect DEF RecoverExpiredRunningJobs
    <2> QED BY <1>0, <2>1
  <1>7. ASSUME NEW w \in Workers, FinishSteps(w)
        PROVE  /\ JobType' /\ \A i \in Jobs : Kept(i) \/ Finished(w, i)
               /\ \A i \in Jobs : failures'[i] >= failures[i]
    BY <1>7, FinishEffect
  <1>8. UNCHANGED failures => \A i \in Jobs : failures'[i] >= failures[i]
    BY <1>0
  <1> QED BY <1>1, <1>2, <1>3, <1>4, <1>5, <1>6, <1>7, <1>8 DEF JobSteps

\* What every step keeps of a row: a turn stays sent, and in its conversation, and
\* once settled it stays as it is.
LEMMA JobStays ==
    ASSUME TypeInv, [Next]_vars, NEW j \in Jobs
    PROVE  /\ job[j].status # "none" => /\ job'[j].status # "none"
                                        /\ job'[j].conversation = job[j].conversation
           /\ job[j].status \in Settled => job'[j] = job[j]
  <1>1. \/ Kept(j) \/ Created(j) \/ Shifted(j) \/ \E w \in Workers : Finished(w, j)
    BY JobEffect
  <1> QED BY <1>1 DEF Kept, Created, Shifted, Finished, Unfinished, Waiting, Settled

----------------------------------------------------------------------------
(* What a step does to a worker *)

\* A step between the claim of a copy and its end.
StepOf(w) ==
    \/ Load(w) \/ Check(w) \/ CheckError(w) \/ SendQuota(w) \/ TriggerReply(w)
    \/ CommitAIReply(w) \/ CountRound(w) \/ CommitAsyncFailure(w)

Rests(w) ==
    /\ batch'[w] = batch[w] /\ pc'[w] = pc[w]
    /\ snapshot'[w] = snapshot[w] /\ prefix'[w] = prefix[w]

Claims(w) ==
    /\ batch[w] = {} /\ pc[w] = "start" /\ pc'[w] = "start"
    /\ \A c \in batch'[w] : /\ c.id \in Jobs /\ c.retry_count = job[c.id].retry_count
                            /\ job[c.id].status # "none"

Drops(w) == batch'[w] \subseteq batch[w] /\ pc'[w] = "start"

Acts(w) == StepOf(w) /\ batch[w] # {} /\ batch' = batch /\ UNCHANGED <<job, failures>>

\* The steps of a worker within a copy.
LEMMA StepTypes ==
    ASSUME TypeInv, NEW w \in Workers, StepOf(w)
    PROVE  /\ batch[w] # {} /\ batch' = batch /\ UNCHANGED <<job, failures>>
           /\ ChatType' /\ WorkType' /\ faults' \in 0..MaxFaults
           /\ pc'[w] \in Label \ {"start"}
           /\ pc'[w] = "commit" => prefix'[w] \in Prefixes
           /\ \A v \in Workers : v # w => Rests(v)
  <1> USE ReplyJobsAssumption
  <1> DEFINE j == Current(w).id
             c == job[j].conversation
  <1>0. ChatType /\ WorkType /\ faults \in 0..MaxFaults
    BY Types DEF TypeInv
  <1>1. batch[w] # {}
    BY DEF StepOf, Load, Check, CheckError, SendQuota, TriggerReply, CommitAIReply, CountRound,
       CommitAsyncFailure, TypeInv, WorkerOK
  <1>2. j \in Jobs /\ c \in Conversations
    BY <1>1, Processed
  <1>3. batch' = batch /\ UNCHANGED <<job, failures>>
    BY DEF StepOf, Load, Check, CheckError, SendQuota, TriggerReply, CommitAIReply, CountRound,
       CommitAsyncFailure, jobVars, chatVars
  <1>4. faults' \in 0..MaxFaults
    BY <1>0 DEF StepOf, Load, Check, CheckError, SendQuota, TriggerReply, CommitAIReply,
       CountRound, CommitAsyncFailure, Fault
  <1> HIDE DEF j, c
  <1>5. PICK label \in Label \ {"start"} : Goto(w, label)
    BY DEF StepOf, Load, Check, CheckError, SendQuota, TriggerReply, CommitAIReply, CountRound,
       CommitAsyncFailure, Label
  <1>6. /\ pc'[w] = label /\ pc' \in [Workers -> Label]
        /\ \A v \in Workers : v # w => pc'[v] = pc[v]
    BY <1>0, <1>5 DEF Goto, WorkType
  <1>7. /\ prefix' \in [Workers -> Prefixes \cup {"none"}]
        /\ \A v \in Workers : v # w => prefix'[v] = prefix[v]
        /\ pc'[w] = "commit" => prefix'[w] \in Prefixes
    <2>1. CASE TriggerReply(w)
      <3>1. \/ UNCHANGED prefix /\ pc'[w] # "commit"
            \/ \E p \in RunPrefixes : prefix' = [prefix EXCEPT ![w] = p]
        BY <1>0, <2>1 DEF TriggerReply, Goto, WorkType
      <3> QED BY <1>0, <3>1 DEF WorkType, Prefixes
    <2>2. CASE ~TriggerReply(w)
      <3>1. UNCHANGED prefix /\ (\E l \in Label \ {"commit"} : Goto(w, l))
        BY <2>2 DEF StepOf, Load, Check, CheckError, SendQuota, CommitAIReply, CountRound,
           CommitAsyncFailure, Label
      <3>2. pc'[w] # "commit"
        BY <1>0, <3>1 DEF Goto, WorkType
      <3> QED BY <1>0, <3>1, <3>2 DEF WorkType
    <2> QED BY <2>1, <2>2
  <1>8. /\ snapshot' \in [Workers -> Snapshot]
        /\ \A v \in Workers : v # w => snapshot'[v] = snapshot[v]
    <2>0. snapshot \in [Workers -> Snapshot] /\ rounds[c] \in 0..MaxRounds
      BY <1>0, <1>2 DEF WorkType, ChatType
    <2>1. CASE Load(w)
      <3>1. \A b \in CanReply(c) : b \in BOOLEAN
        BY DEF CanReply
      <3>2. PICK b \in BOOLEAN :
               snapshot' = [snapshot EXCEPT ![w] = [canReply |-> b, rounds |-> rounds[c]]]
        BY <2>1, <3>1 DEF Load, j, c
      <3>3. [canReply |-> b, rounds |-> rounds[c]] \in Snapshot
        BY <2>0 DEF Snapshot
      <3> QED BY <2>0, <3>2, <3>3
    <2>2. CASE CommitAIReply(w)
      <3>1. \/ UNCHANGED snapshot
            \/ snapshot' = [snapshot EXCEPT ![w].rounds = Larger(@, rounds[c])]
        BY <2>2 DEF CommitAIReply, j, c
      <3>2. CASE snapshot' = [snapshot EXCEPT ![w].rounds = Larger(@, rounds[c])]
        <4> DEFINE n == Larger(snapshot[w].rounds, rounds[c])
        <4>1. snapshot[w] \in Snapshot /\ snapshot[w].rounds \in 0..MaxRounds
          BY <2>0 DEF Snapshot
        <4>2. n \in 0..MaxRounds
          BY <2>0, <4>1 DEF Larger
        <4>3. snapshot' = [snapshot EXCEPT ![w] = [snapshot[w] EXCEPT !.rounds = n]]
          BY <3>2
        <4> HIDE DEF n
        <4>4. [snapshot[w] EXCEPT !.rounds = n] \in Snapshot
          BY <4>1, <4>2 DEF Snapshot
        <4> QED BY <2>0, <4>3, <4>4
      <3> QED BY <2>0, <3>1, <3>2
    <2>3. CASE ~Load(w) /\ ~CommitAIReply(w)
      <3>1. UNCHANGED snapshot
        BY <2>3 DEF StepOf, Check, CheckError, SendQuota, TriggerReply, CountRound,
           CommitAsyncFailure
      <3> QED BY <2>0, <3>1
    <2> QED BY <2>1, <2>2, <2>3
  <1>9. UNCHANGED conversation
    BY DEF StepOf, Load, Check, CheckError, SendQuota, TriggerReply, CommitAIReply, CountRound,
       CommitAsyncFailure, chatVars
  <1>10. mute' \subseteq Jobs
    <2>1. UNCHANGED mute \/ mute' = mute \cup {j}
      BY DEF StepOf, Load, Check, CheckError, SendQuota, TriggerReply, CommitAIReply, CountRound,
         CommitAsyncFailure, chatVars, j
    <2> QED BY <1>0, <1>2, <2>1 DEF ChatType
  <1>11. sent' \subseteq Jobs \X Prefixes
    <2>1. \/ UNCHANGED sent \/ sent' = sent \cup {<<j, "notice">>}
          \/ sent' = sent \cup {<<j, "late">>}
          \/ sent' = sent \cup {<<j, prefix[w]>>} /\ pc[w] = "commit"
      BY DEF StepOf, Load, Check, CheckError, SendQuota, TriggerReply, CommitAIReply, CountRound,
         CommitAsyncFailure, chatVars, j
    <2>2. pc[w] = "commit" => prefix[w] \in Prefixes
      BY DEF TypeInv, WorkerOK
    <2> QED BY <1>0, <1>2, <2>1, <2>2 DEF ChatType, Prefixes
  <1>12. rounds' \in [Conversations -> 0..MaxRounds]
    <2>1. \/ UNCHANGED rounds
          \/ rounds' = [rounds EXCEPT ![c] = Capped(snapshot[w].rounds + 1)]
      BY DEF StepOf, Load, Check, CheckError, SendQuota, TriggerReply, CommitAIReply, CountRound,
         CommitAsyncFailure, IncrementAIReplyRounds, chatVars, j, c
    <2>2. snapshot[w].rounds \in 0..MaxRounds
      BY <1>0 DEF WorkType, Snapshot
    <2>3. Capped(snapshot[w].rounds + 1) \in 0..MaxRounds
      BY <2>2 DEF Capped
    <2> QED BY <1>0, <2>1, <2>3 DEF ChatType
  <1>13. ChatType'
    BY <1>0, <1>9, <1>10, <1>11, <1>12 DEF ChatType
  <1>14. WorkType'
    BY <1>0, <1>3, <1>6, <1>7, <1>8 DEF WorkType
  <1> QED BY <1>1, <1>3, <1>4, <1>6, <1>7, <1>8, <1>13, <1>14 DEF Rests

\* A worker ends with its copy, or with its whole batch.
LEMMA DropTypes ==
    ASSUME TypeInv, NEW w \in Workers, NEW S, S \subseteq batch[w],
           batch' = [batch EXCEPT ![w] = S], Goto(w, "start"),
           snapshot' = [snapshot EXCEPT ![w] = NoSnapshot],
           prefix' = [prefix EXCEPT ![w] = "none"]
    PROVE  WorkType' /\ Drops(w) /\ \A v \in Workers : v # w => Rests(v)
  <1>0. WorkType
    BY Types DEF TypeInv
  <1>1. NoSnapshot \in Snapshot
    BY ReplyJobsAssumption DEF NoSnapshot, Snapshot
  <1>2. S \in SUBSET Copy
    BY <1>0 DEF WorkType
  <1>3. WorkType'
    BY <1>0, <1>1, <1>2 DEF WorkType, Goto, Label
  <1>4. Drops(w) /\ \A v \in Workers : v # w => Rests(v)
    BY <1>0 DEF WorkType, Goto, Drops, Rests
  <1> QED BY <1>3, <1>4

\* A worker rests, claims a batch, drops a copy or acts on the first one.
LEMMA WorkerEffect ==
    ASSUME TypeInv, [Next]_vars
    PROVE  /\ WorkType' /\ ChatType' /\ faults' \in 0..MaxFaults
           /\ \A w \in Workers : Rests(w) \/ Claims(w) \/ Drops(w) \/ Acts(w)
           /\ \A w \in Workers : WorkerOK(w)'
  <1> USE ReplyJobsAssumption
  <1>0. ChatType /\ WorkType /\ faults \in 0..MaxFaults /\ \A w \in Workers : WorkerOK(w)
    BY Types DEF TypeInv
  <1>1. ASSUME NEW w \in Workers, StepOf(w)
        PROVE  /\ WorkType' /\ ChatType' /\ faults' \in 0..MaxFaults
               /\ \A v \in Workers : Rests(v) \/ Acts(v)
               /\ \A v \in Workers : WorkerOK(v)'
    <2>1. /\ batch[w] # {} /\ batch' = batch /\ UNCHANGED <<job, failures>>
          /\ ChatType' /\ WorkType' /\ faults' \in 0..MaxFaults
          /\ pc'[w] = "commit" => prefix'[w] \in Prefixes
          /\ \A v \in Workers : v # w => Rests(v)
      BY <1>1, StepTypes
    <2>2. Acts(w)
      BY <1>1, <2>1 DEF Acts
    <2>3. WorkerOK(w)'
      BY <2>1 DEF WorkerOK
    <2>4. \A v \in Workers : v # w => WorkerOK(v)'
      BY <1>0, <2>1 DEF WorkerOK, Rests
    <2> QED BY <2>1, <2>2, <2>3, <2>4
  <1>2. ASSUME NEW w \in Workers, FinishSteps(w) \/ Crash(w)
        PROVE  /\ WorkType' /\ ChatType' /\ faults' \in 0..MaxFaults
               /\ \A v \in Workers : Rests(v) \/ Drops(v)
               /\ \A v \in Workers : WorkerOK(v)'
    <2>1. /\ UNCHANGED chatVars /\ (faults' = faults \/ Fault)
          /\ \E S \in SUBSET batch[w] : batch' = [batch EXCEPT ![w] = S]
          /\ Goto(w, "start")
          /\ snapshot' = [snapshot EXCEPT ![w] = NoSnapshot]
          /\ prefix' = [prefix EXCEPT ![w] = "none"]
      <3>1. CASE FinishSteps(w)
        <4>1. DropCopy(w) /\ UNCHANGED chatVars /\ (faults' = faults \/ Fault)
          BY <3>1, FinishEffect
        <4>2. batch[w] \ {Current(w)} \in SUBSET batch[w]
          OBVIOUS
        <4> QED BY <4>1, <4>2 DEF DropCopy
      <3>2. CASE Crash(w)
        BY <3>2 DEF Crash
      <3> QED BY <1>2, <3>1, <3>2
    <2>2. PICK S \in SUBSET batch[w] : batch' = [batch EXCEPT ![w] = S]
      BY <2>1
    <2>3. WorkType' /\ Drops(w) /\ \A v \in Workers : v # w => Rests(v)
      BY <2>1, <2>2, DropTypes
    <2>4. ChatType' /\ faults' \in 0..MaxFaults
      BY <1>0, <2>1 DEF ChatType, chatVars, Fault
    <2>5. WorkerOK(w)'
      BY <2>3 DEF Drops, WorkerOK
    <2>6. \A v \in Workers : v # w => WorkerOK(v)'
      BY <1>0, <2>3 DEF WorkerOK, Rests
    <2> QED BY <2>3, <2>4, <2>5, <2>6
  <1>3. ASSUME NEW w \in Workers, ClaimDueJobs(w)
        PROVE  /\ WorkType' /\ ChatType' /\ faults' \in 0..MaxFaults
               /\ \A v \in Workers : Rests(v) \/ Claims(v)
               /\ \A v \in Workers : WorkerOK(v)'
    <2>1. /\ batch[w] = {} /\ \A v \in Workers : v # w => batch'[v] = batch[v]
          /\ batch' \in [Workers -> SUBSET Copy]
          /\ \A c \in batch'[w] : /\ c.id \in Jobs /\ c.retry_count = job[c.id].retry_count
                                  /\ job[c.id].status # "none"
          /\ UNCHANGED <<chatVars, pc, snapshot, prefix, faults>>
      BY <1>3, ClaimEffect
    <2>2. WorkType' /\ ChatType' /\ faults' \in 0..MaxFaults
      BY <1>0, <2>1 DEF WorkType, ChatType, chatVars
    <2>3. pc[w] = "start"
      BY <1>0, <2>1 DEF WorkerOK
    <2>4. Claims(w) /\ \A v \in Workers : v # w => Rests(v)
      BY <2>1, <2>3 DEF Claims, Rests
    <2>5. \A v \in Workers : WorkerOK(v)'
      BY <1>0, <2>1, <2>3 DEF WorkerOK
    <2> QED BY <2>2, <2>4, <2>5
  <1>4. ASSUME UNCHANGED workVars, ChatType', faults' \in 0..MaxFaults
        PROVE  /\ WorkType' /\ \A v \in Workers : Rests(v)
               /\ \A v \in Workers : WorkerOK(v)'
    BY <1>0, <1>4 DEF WorkType, workVars, Rests, WorkerOK
  <1>5. ASSUME UNCHANGED vars \/ \E c \in Conversations : Handoff(c) \/ TakeOver(c) \/ Close(c)
        PROVE  UNCHANGED workVars /\ ChatType' /\ faults' \in 0..MaxFaults
    <2>1. UNCHANGED <<workVars, rounds, sent, mute, faults>>
      BY <1>5 DEF vars, chatVars, Handoff, TakeOver, Close
    <2>2. \/ UNCHANGED conversation
          \/ \E c \in Conversations, x \in {"handoff", "human", "closed"} :
                conversation' = [conversation EXCEPT ![c] = x]
      BY <1>5 DEF vars, chatVars, Handoff, TakeOver, Close
    <2> QED BY <1>0, <2>1, <2>2 DEF ChatType
  <1>6. ASSUME \/ \E j \in Jobs, c \in Conversations : EnqueueReplyJob(j, c)
               \/ \E w \in Workers : Heartbeat(w) \/ HeartbeatsLost(w)
               \/ RecoverExpiredRunningJobs
               \/ \E j \in Jobs : BackoffEnds(j) \/ LeaseEnds(j)
        PROVE  UNCHANGED workVars /\ ChatType' /\ faults' \in 0..MaxFaults
    <2>1. UNCHANGED <<workVars, chatVars>> /\ (faults' = faults \/ Fault)
      BY <1>6 DEF EnqueueReplyJob, Heartbeat, HeartbeatsLost, RecoverExpiredRunningJobs,
         BackoffEnds, LeaseEnds
    <2> QED BY <1>0, <2>1 DEF ChatType, chatVars, Fault
  <1> QED BY <1>1, <1>2, <1>3, <1>4, <1>5, <1>6 DEF Next, Work, StepOf, FinishSteps

LEMMA TypeStep ==
    ASSUME TypeInv, [Next]_vars
    PROVE  TypeInv'
  <1>1. TypeOK' /\ \A w \in Workers : WorkerOK(w)'
    BY JobEffect, WorkerEffect, Types
  <1>2. ASSUME NEW j \in Jobs
        PROVE  /\ job'[j].status = "none" => job'[j].conversation = "none"
               /\ job'[j].status # "none" => job'[j].conversation \in Conversations
    <2>1. \/ Kept(j) \/ Created(j) \/ Shifted(j) \/ \E w \in Workers : Finished(w, j)
      BY JobEffect
    <2> QED BY <2>1 DEF TypeInv, RowsOK, Kept, Created, Shifted, Finished, Unfinished, Waiting
  <1>3. ASSUME NEW w \in Workers, NEW c \in batch'[w] PROVE job'[c.id].status # "none"
    <2>1. job[c.id].status # "none" /\ c.id \in Jobs
      <3>1. c \in batch[w] => job[c.id].status # "none" /\ c.id \in Jobs
        BY Types DEF TypeInv, RowsOK, WorkType, Copy
      <3>2. Rests(w) \/ Claims(w) \/ Drops(w) \/ Acts(w)
        BY WorkerEffect
      <3> QED BY <1>3, <3>1, <3>2 DEF Rests, Claims, Drops, Acts
    <2> QED BY <2>1, JobStays
  <1> QED BY <1>1, <1>2, <1>3 DEF TypeInv, RowsOK

LEMMA TypeInvariant == Spec => []TypeInv
  BY TypeInit, TypeStep, PTL DEF Spec

\* Jobs, copies, messages and workers keep their types.
THEOREM TypeCorrect == Spec => []TypeOK
  <1>1. TypeInv => TypeOK
    BY DEF TypeInv
  <1> QED BY <1>1, TypeInvariant, PTL

----------------------------------------------------------------------------
(* A settled turn *)

\* Finish is fenced by the owner of a running row, and no query finds a settled one:
\* the stale copies of other workers never touch it.
THEOREM SettledStaysSettled == Spec => SettledIsFinal
  <1>1. TypeInv /\ [Next]_vars =>
            \A j \in Jobs : job[j].status \in Settled => job'[j] = job[j]
    BY JobStays
  <1> QED BY <1>1, TypeInvariant, PTL DEF Spec, SettledIsFinal

----------------------------------------------------------------------------
(* A failed turn *)

\* Neither a row nor a copy of it counts more failures than there were, and a
\* worker gives up on a copy that has used up its retries.
FailInv ==
    /\ \A j \in Jobs : job[j].retry_count <= failures[j]
    /\ \A w \in Workers : \A c \in batch[w] : c.retry_count <= failures[c.id]
    /\ \A w \in Workers : pc[w] = "failed" => Exhausted(Current(w).retry_count + 1)
    /\ FailedAfterMaxRetries

\* A worker that rests, or acts, keeps its place.
LEMMA CurrentStays ==
    ASSUME NEW w \in Workers, batch'[w] = batch[w]
    PROVE  Current(w)' = Current(w)
  BY DEF Current

LEMMA FailStep ==
    ASSUME TypeInv, FailInv, [Next]_vars
    PROVE  FailInv'
  <1> USE ReplyJobsAssumption
  <1>0. /\ JobType /\ WorkType /\ JobType'
        /\ \A j \in Jobs : failures[j] \in Nat /\ failures'[j] \in Nat
                           /\ failures'[j] >= failures[j]
                           /\ job[j].retry_count \in Nat /\ job'[j].retry_count \in Nat
        /\ \A w \in Workers : \A c \in batch[w] : c.id \in Jobs /\ c.retry_count \in Nat
    <2>1. JobType /\ WorkType /\ JobType' /\ \A j \in Jobs : failures'[j] >= failures[j]
      BY JobEffect, Types DEF TypeInv
    <2> QED BY <2>1 DEF JobType, WorkType, Row, Copy
  <1>1. ASSUME NEW w \in Workers, batch[w] # {}
        PROVE  /\ Current(w) \in batch[w] /\ Current(w).retry_count \in Nat
               /\ Current(w).id \in Jobs
               /\ Current(w).retry_count <= failures[Current(w).id]
    <2>1. /\ Current(w) \in batch[w] /\ Current(w).retry_count \in Nat
          /\ Current(w).id \in Jobs
      BY <1>1, Processed
    <2> QED BY <2>1 DEF FailInv
  <1>2. ASSUME NEW j \in Jobs PROVE job'[j].retry_count <= failures'[j]
    <2>1. CASE Kept(j) \/ Created(j) \/ Shifted(j)
      <3>1. job'[j].retry_count = job[j].retry_count
        BY <2>1 DEF Kept, Created, Shifted
      <3> QED BY <1>0, <3>1 DEF FailInv
    <2>2. ASSUME NEW w \in Workers, Finished(w, j) PROVE job'[j].retry_count <= failures'[j]
      <3>1. Current(w).retry_count \in Nat /\ Current(w).retry_count <= failures[j]
        BY <1>1, <2>2 DEF Finished
      <3>2. \/ job'[j].retry_count = Current(w).retry_count
            \/ /\ job'[j].retry_count = Current(w).retry_count + 1
               /\ failures'[j] = failures[j] + 1
        BY <2>2 DEF Finished
      <3>3. failures[j] \in Nat /\ failures'[j] \in Nat /\ failures'[j] >= failures[j]
        BY <1>0
      <3> QED BY <3>1, <3>2, <3>3
    <2> QED BY <2>1, <2>2, JobEffect
  <1>3. ASSUME NEW w \in Workers, NEW c \in batch'[w] PROVE c.retry_count <= failures'[c.id]
    <2>1. /\ c.retry_count \in Nat /\ c.id \in Jobs /\ c.retry_count <= failures[c.id]
      <3>1. CASE c \in batch[w]
        BY <1>0, <3>1 DEF FailInv
      <3>2. CASE Claims(w)
        BY <1>0, <1>3, <3>2 DEF Claims, FailInv
      <3>3. Rests(w) \/ Claims(w) \/ Drops(w) \/ Acts(w)
        BY WorkerEffect
      <3> QED BY <1>3, <3>1, <3>2, <3>3 DEF Rests, Drops, Acts
    <2> QED BY <1>0, <2>1
  <1>4. ASSUME NEW w \in Workers, pc'[w] = "failed"
        PROVE  Exhausted((Current(w)').retry_count + 1)
    <2>1. Rests(w) \/ Acts(w)
      BY <1>4, WorkerEffect DEF Claims, Drops
    <2>2. batch'[w] = batch[w]
      BY <2>1 DEF Rests, Acts
    <2>3. Current(w)' = Current(w)
      BY <2>2, CurrentStays
    <2>4. CASE Rests(w)
      BY <1>4, <2>3, <2>4 DEF Rests, FailInv
    <2>5. CASE Acts(w)
      <3>1. \A l : Goto(w, l) => l = "failed"
        BY <1>0, <1>4 DEF Goto, WorkType
      <3>2. CommitAsyncFailure(w)
        BY <2>5, <3>1 DEF Acts, StepOf, Load, Check, CheckError, SendQuota, TriggerReply,
           CommitAIReply, CountRound
      <3> QED BY <2>3, <3>2 DEF CommitAsyncFailure
    <2> QED BY <2>1, <2>4, <2>5
  <1>5. ASSUME NEW j \in Jobs, job'[j].status = "failed" PROVE failures'[j] >= MaxRetries
    <2>1. CASE job[j].status = "failed"
      BY <1>0, <2>1 DEF FailInv, FailedAfterMaxRetries
    <2>2. CASE job[j].status # "failed"
      <3>1. PICK w \in Workers : Finished(w, j) /\ pc[w] = "failed"
        BY <1>5, <2>2, JobEffect DEF Kept, Created, Shifted, Finished, Unfinished, Waiting
      <3>2. /\ job'[j].retry_count = Current(w).retry_count + 1
            /\ Current(w).retry_count + 1 >= MaxRetries
        BY <1>5, <3>1 DEF Finished, FailInv, Exhausted
      <3> QED BY <1>0, <1>2, <3>2
    <2> QED BY <2>1, <2>2
  <1>6. FailedAfterMaxRetries'
    BY <1>5 DEF FailedAfterMaxRetries
  <1> QED BY <1>2, <1>3, <1>4, <1>6 DEF FailInv

LEMMA FailInit == Init => FailInv
  <1> SUFFICES ASSUME Init PROVE FailInv
    OBVIOUS
  <1>1. \A j \in Jobs : job[j].retry_count = 0 /\ failures[j] = 0 /\ job[j].status = "none"
    BY DEF Init, NoRow
  <1>2. \A w \in Workers : batch[w] = {} /\ pc[w] = "start"
    BY DEF Init
  <1> QED BY <1>1, <1>2 DEF FailInv, FailedAfterMaxRetries

\* retryOrFailReplyJob counts from the copy of the worker, not from the row.  A copy
\* never counts more failures than there were, so a turn is given up only after
\* MaxRetries of them, however many workers had a copy.
THEOREM FailedAfterMaxRetriesHolds == Spec => []FailedAfterMaxRetries
  <1>1. FailInv => FailedAfterMaxRetries
    BY DEF FailInv
  <1> QED BY <1>1, FailInit, FailStep, TypeInvariant, PTL DEF Spec

----------------------------------------------------------------------------
(* The order of the turns *)

\* Turns are numbered as they are sent.
OrderInv ==
    /\ \A j \in Jobs : job[j].status # "none" => \A i \in 1..(j - 1) : job[i].status # "none"
    /\ TurnsInOrder

LEMMA OrderStep ==
    ASSUME TypeInv, OrderInv, [Next]_vars
    PROVE  OrderInv'
  <1> USE ReplyJobsAssumption
  <1>0. \A j \in Jobs : \A i \in 1..(j - 1) : i \in Jobs
    BY DEF Jobs
  <1>1. ASSUME NEW j \in Jobs, job'[j].status # "none", NEW i \in 1..(j - 1)
        PROVE  job'[i].status # "none"
    <2>1. job[i].status # "none" /\ i \in Jobs
      <3>1. CASE job[j].status # "none"
        BY <1>0, <3>1 DEF OrderInv
      <3>2. CASE job[j].status = "none"
        BY <1>0, <1>1, <3>2, JobEffect DEF Kept, Created, Shifted, Finished, Unfinished, Waiting
      <3> QED BY <3>1, <3>2
    <2> QED BY <2>1, JobStays
  <1>2. ASSUME NEW w \in Workers, batch'[w] # {}, pc'[w] \in {"run", "commit", "count"},
               NEW i \in 1..((Current(w)').id - 1),
               job'[i].conversation = job'[(Current(w)').id].conversation
        PROVE  job'[i].status \in Settled
    <2>1. Rests(w) \/ Acts(w)
      BY <1>2, WorkerEffect DEF Claims, Drops
    <2>2. batch'[w] = batch[w] /\ batch[w] # {}
      BY <1>2, <2>1 DEF Rests, Acts
    <2>3. Current(w)' = Current(w)
      BY <2>2, CurrentStays
    <2>4. PICK j \in Jobs : j = Current(w).id /\ job[j].status # "none"
      BY <2>2, Processed
    <2>5. i \in Jobs /\ i \in 1..(j - 1) /\ job[i].status # "none"
      BY <1>0, <1>2, <2>3, <2>4 DEF OrderInv
    <2>6. job[i].conversation = job[j].conversation
      BY <1>2, <2>3, <2>4, <2>5, JobStays
    <2>7. job[i].status \in Settled
      <3>1. CASE pc[w] \in {"run", "commit", "count"}
        BY <2>2, <2>4, <2>5, <2>6, <3>1 DEF OrderInv, TurnsInOrder
      <3>2. CASE pc[w] \notin {"run", "commit", "count"}
        <4>1. Acts(w) /\ WorkType
          BY <1>2, <2>1, <3>2, Types DEF Rests, TypeInv
        <4>2. \A l : Goto(w, l) => l \in {"run", "commit", "count"}
          BY <1>2, <4>1 DEF Goto, WorkType
        <4>3. Check(w)
          BY <3>2, <4>1, <4>2 DEF Acts, StepOf, Load, CheckError, SendQuota, TriggerReply,
             CommitAIReply, CountRound, CommitAsyncFailure
        <4>4. ~HasEarlierUnfinishedJob(j)
          BY <2>4, <4>2, <4>3 DEF Check
        <4>5. job[i].status \notin Waiting \cup {"running"}
          BY <2>5, <2>6, <4>4 DEF HasEarlierUnfinishedJob
        <4>6. job[i].status \in Status
          BY <2>5, Types DEF TypeInv, JobType, Row, Status
        <4> QED BY <2>5, <4>5, <4>6 DEF Status
      <3> QED BY <3>1, <3>2
    <2> QED BY <2>5, <2>7, JobStays
  <1>3. TurnsInOrder'
    BY <1>2 DEF TurnsInOrder
  <1> QED BY <1>1, <1>3 DEF OrderInv

LEMMA OrderInit == Init => OrderInv
  <1> SUFFICES ASSUME Init PROVE OrderInv
    OBVIOUS
  <1>1. \A j \in Jobs : job[j].status = "none"
    BY DEF Init, NoRow
  <1>2. \A w \in Workers : batch[w] = {}
    BY DEF Init
  <1> QED BY <1>1, <1>2 DEF OrderInv, TurnsInOrder

\* HasEarlierUnfinishedJob is asked before a run, and what it found settled stays so:
\* the turns of a conversation are answered in order, also from a copy whose lease
\* was lost long ago.
THEOREM TurnsInOrderHolds == Spec => []TurnsInOrder
  <1>1. OrderInv => TurnsInOrder
    BY DEF OrderInv
  <1> QED BY <1>1, OrderInit, OrderStep, TypeInvariant, PTL DEF Spec

----------------------------------------------------------------------------
(* Nobody is left without an answer *)

Answered(j) ==
    \/ j \in mute
    \/ \E p \in Prefixes : <<j, p>> \in sent
    \/ conversation[job[j].conversation] # "ai"

\* A worker about to settle a turn knows why it may; and a conversation it did not
\* find open to the AI is not served by the AI.
AnswerInv ==
    /\ \A w \in Workers : pc[w] \in {"count", "succeeded", "failed"} => Answered(Current(w).id)
    /\ \A w \in Workers : pc[w] = "loaded" /\ ~snapshot[w].canReply =>
          conversation[job[Current(w).id].conversation] # "ai"
    /\ SettledTurnWasAnswered

\* Messages are not unsent, and a conversation does not come back to the AI.
LEMMA ChatGrows ==
    ASSUME TypeInv, [Next]_vars
    PROVE  /\ mute \subseteq mute' /\ sent \subseteq sent'
           /\ \A c \in Conversations : conversation[c] # "ai" => conversation'[c] # "ai"
  <1>0. conversation \in [Conversations -> {"ai", "handoff", "human", "closed"}]
    BY Types DEF TypeInv, ChatType
  <1>1. CASE \E c \in Conversations : Handoff(c) \/ TakeOver(c) \/ Close(c)
    BY <1>0, <1>1 DEF Handoff, TakeOver, Close
  <1>2. CASE \E w \in Workers : StepOf(w)
    BY <1>2 DEF StepOf, Load, Check, CheckError, SendQuota, TriggerReply, CommitAIReply,
       CountRound, CommitAsyncFailure, chatVars
  <1>3. CASE \E w \in Workers : FinishSteps(w) \/ Crash(w) \/ ClaimDueJobs(w)
    BY <1>3 DEF FinishSteps, FinishReplyJob, RetryReplyJob, FailReplyJob, Crash, ClaimDueJobs,
       chatVars
  <1>4. CASE \/ UNCHANGED vars
             \/ \E j \in Jobs, c \in Conversations : EnqueueReplyJob(j, c)
             \/ \E w \in Workers : Heartbeat(w) \/ HeartbeatsLost(w)
             \/ RecoverExpiredRunningJobs
             \/ \E j \in Jobs : BackoffEnds(j) \/ LeaseEnds(j)
    BY <1>4 DEF vars, EnqueueReplyJob, Heartbeat, HeartbeatsLost, RecoverExpiredRunningJobs,
       BackoffEnds, LeaseEnds, chatVars
  <1> QED BY <1>1, <1>2, <1>3, <1>4 DEF Next, Work, StepOf, FinishSteps

LEMMA AnsweredStays ==
    ASSUME TypeInv, [Next]_vars, NEW j \in Jobs, job[j].status # "none"
    PROVE  /\ Answered(j) => Answered(j)'
           /\ conversation[job[j].conversation] # "ai" => conversation'[job'[j].conversation] # "ai"
  <1>1. job'[j].conversation = job[j].conversation /\ job[j].conversation \in Conversations
    BY JobStays DEF TypeInv, RowsOK
  <1>2. conversation[job[j].conversation] # "ai" => conversation'[job'[j].conversation] # "ai"
    BY <1>1, ChatGrows
  <1>3. Answered(j) => Answered(j)'
    BY <1>2, ChatGrows DEF Answered
  <1> QED BY <1>2, <1>3

\* A worker that acts on a turn learns why it may settle it.
LEMMA AnswerActs ==
    ASSUME TypeInv, AnswerInv, [Next]_vars, NEW w \in Workers, Acts(w)
    PROVE  /\ pc'[w] \in {"count", "succeeded", "failed"} => Answered(Current(w).id)'
           /\ pc'[w] = "loaded" /\ ~snapshot'[w].canReply =>
                 conversation'[job'[Current(w).id].conversation] # "ai"
  <1>0. /\ pc \in [Workers -> Label] /\ snapshot \in [Workers -> Snapshot]
        /\ conversation \in [Conversations -> {"ai", "handoff", "human", "closed"}]
        /\ batch' = batch /\ UNCHANGED job /\ batch[w] # {}
    BY Types DEF TypeInv, WorkType, ChatType, Acts
  <1>1. PICK j \in Jobs : /\ j = Current(w).id /\ job[j].status # "none"
                          /\ job[j].conversation \in Conversations
    BY <1>0, Processed
  <1>2. \A l : Goto(w, l) => pc'[w] = l
    BY <1>0 DEF Goto
  <1>3. Answered(j) => Answered(j)'
    BY <1>1, AnsweredStays
  <1>4. j \in mute' => Answered(j)'
    BY DEF Answered
  <1>5. \A p \in Prefixes : <<j, p>> \in sent' => Answered(j)'
    BY DEF Answered
  <1>6. Answered(j)' => Answered(Current(w).id)'
    <2>1. Current(w)' = Current(w)
      BY <1>0, CurrentStays
    <2>2. (Current(w)').id = j
      BY <1>1, <2>1
    <2> QED BY <2>2 DEF Answered
  <1>7. CASE Load(w)
    <2>1. PICK b \in CanReply(job[j].conversation) :
             snapshot' = [snapshot EXCEPT ![w] = [canReply |-> b,
                                                  rounds |-> rounds[job[j].conversation]]]
      BY <1>1, <1>7 DEF Load
    <2>2. snapshot'[w].canReply = b
      BY <1>0, <2>1
    <2>3. ~b => conversation[job[j].conversation] # "ai"
      BY DEF CanReply
    <2>4. pc'[w] = "loaded" /\ UNCHANGED conversation
      BY <1>2, <1>7 DEF Load, chatVars
    <2> QED BY <1>0, <1>1, <2>2, <2>3, <2>4
  <1>8. CASE Check(w)
    <2>1. pc'[w] \in {"cancelled", "wait", "run", "quota", "succeeded"}
      BY <1>2, <1>8 DEF Check
    <2>2. pc'[w] = "succeeded" => j \in mute' \/ ~snapshot[w].canReply
      BY <1>1, <1>2, <1>8 DEF Check
    <2>3. ~snapshot[w].canReply => conversation[job[j].conversation] # "ai"
      BY <1>1, <1>8 DEF Check, AnswerInv
    <2>4. pc'[w] = "succeeded" => Answered(j)'
      BY <1>3, <1>4, <2>2, <2>3 DEF Answered
    <2> QED BY <1>6, <2>1, <2>4
  <1>9. CASE CheckError(w)
    BY <1>2, <1>9 DEF CheckError
  <1>10. CASE SendQuota(w)
    <2>1. \/ pc'[w] = "succeeded" /\ <<j, "notice">> \in sent'
          \/ pc'[w] = "error"
      BY <1>1, <1>2, <1>10 DEF SendQuota
    <2> QED BY <1>6, <1>5, <2>1 DEF Prefixes
  <1>11. CASE TriggerReply(w)
    <2>1. pc'[w] \in {"error", "commit"} \/ (pc'[w] = "succeeded" /\ j \in mute')
      BY <1>1, <1>2, <1>11 DEF TriggerReply
    <2> QED BY <1>6, <1>4, <2>1
  <1>12. CASE CommitAIReply(w)
    <2>1. prefix[w] \in Prefixes
      BY <1>12 DEF CommitAIReply, TypeInv, WorkerOK
    <2>2. \/ pc'[w] = "count" /\ (<<j, prefix[w]>> \in sent' \/ <<j, "late">> \in sent')
          \/ pc'[w] = "succeeded" /\ conversation[job[j].conversation] = "closed"
          \/ pc'[w] = "error"
      BY <1>1, <1>2, <1>12 DEF CommitAIReply
    <2>3. conversation[job[j].conversation] = "closed" => Answered(j)'
      BY <1>3 DEF Answered
    <2> QED BY <1>6, <1>5, <2>1, <2>2, <2>3 DEF Prefixes
  <1>13. CASE CountRound(w)
    <2>1. pc[w] = "count" /\ pc'[w] \in {"succeeded", "error"}
      BY <1>2, <1>13 DEF CountRound
    <2>2. Answered(j)
      BY <1>1, <2>1 DEF AnswerInv
    <2> QED BY <1>6, <1>3, <2>1, <2>2
  <1>14. CASE CommitAsyncFailure(w)
    <2>1. /\ pc'[w] = "failed"
          /\ \/ <<j, "notice">> \in sent'
             \/ conversation[job[j].conversation] = "closed"
             \/ j \in mute'
      BY <1>1, <1>2, <1>14 DEF CommitAsyncFailure
    <2>2. conversation[job[j].conversation] = "closed" => Answered(j)'
      BY <1>3 DEF Answered
    <2> QED BY <1>6, <1>4, <1>5, <2>1, <2>2 DEF Prefixes
  <1> QED BY <1>7, <1>8, <1>9, <1>10, <1>11, <1>12, <1>13, <1>14 DEF Acts, StepOf

LEMMA AnswerStep ==
    ASSUME TypeInv, AnswerInv, [Next]_vars
    PROVE  AnswerInv'
  <1>1. ASSUME NEW w \in Workers
        PROVE  /\ pc'[w] \in {"count", "succeeded", "failed"} => Answered(Current(w).id)'
               /\ pc'[w] = "loaded" /\ ~snapshot'[w].canReply =>
                     conversation'[job'[(Current(w)').id].conversation] # "ai"
    <2>1. CASE Acts(w)
      <3>1. batch'[w] = batch[w]
        BY <2>1 DEF Acts
      <3>2. Current(w)' = Current(w)
        BY <3>1, CurrentStays
      <3> QED BY <2>1, <3>2, AnswerActs
    <2>2. CASE Rests(w) /\ pc[w] # "start"
      <3>1. batch[w] # {} /\ batch'[w] = batch[w] /\ pc'[w] = pc[w] /\ snapshot'[w] = snapshot[w]
        BY <2>2 DEF Rests, TypeInv, WorkerOK
      <3>2. Current(w)' = Current(w)
        BY <3>1, CurrentStays
      <3>3. PICK j \in Jobs : j = Current(w).id /\ job[j].status # "none"
        BY <3>1, Processed
      <3>4. /\ Answered(j) => Answered(j)'
            /\ conversation[job[j].conversation] # "ai" =>
                  conversation'[job'[j].conversation] # "ai"
        BY <3>3, AnsweredStays
      <3>5. /\ pc[w] \in {"count", "succeeded", "failed"} => Answered(j)
            /\ pc[w] = "loaded" /\ ~snapshot[w].canReply =>
                  conversation[job[j].conversation] # "ai"
        BY <3>3 DEF AnswerInv
      <3>6. (Current(w)').id = j
        BY <3>2, <3>3
      <3>7. Answered(j)' => Answered(Current(w).id)'
        BY <3>6 DEF Answered
      <3> QED BY <3>1, <3>4, <3>5, <3>6, <3>7
    <2>3. CASE pc'[w] = "start"
      BY <2>3
    <2> QED BY <2>1, <2>2, <2>3, WorkerEffect DEF Rests, Claims, Drops
  <1>2. ASSUME NEW j \in Jobs, job'[j].status \in {"succeeded", "failed"} PROVE Answered(j)'
    <2>1. job[j].status # "none" /\ Answered(j)
      <3>1. CASE job[j].status \in {"succeeded", "failed"}
        BY <3>1 DEF AnswerInv, SettledTurnWasAnswered, Answered
      <3>2. CASE job[j].status \notin {"succeeded", "failed"}
        <4>1. PICK w \in Workers : Finished(w, j) /\ pc[w] \in {"succeeded", "failed"}
          BY <1>2, <3>2, JobEffect DEF Kept, Created, Shifted, Finished, Unfinished, Waiting
        <4> QED BY <4>1 DEF Finished, AnswerInv
      <3> QED BY <3>1, <3>2
    <2> QED BY <2>1, AnsweredStays
  <1>3. SettledTurnWasAnswered'
    BY <1>2 DEF SettledTurnWasAnswered, Answered
  <1> QED BY <1>1, <1>3 DEF AnswerInv

LEMMA AnswerInit == Init => AnswerInv
  <1> SUFFICES ASSUME Init PROVE AnswerInv
    OBVIOUS
  <1>1. \A j \in Jobs : job[j].status = "none"
    BY DEF Init, NoRow
  <1>2. \A w \in Workers : pc[w] = "start"
    BY DEF Init
  <1> QED BY <1>1, <1>2 DEF AnswerInv, SettledTurnWasAnswered

\* No turn ends in silence: a worker settles one only after a message, a notice or a
\* handover, or when the agent has nothing to say; and what another worker has done to
\* the conversation since takes none of these back.
THEOREM NoTurnEndsInSilence == Spec => []SettledTurnWasAnswered
  <1>1. AnswerInv => SettledTurnWasAnswered
    BY DEF AnswerInv
  <1> QED BY <1>1, AnswerInit, AnswerStep, TypeInvariant, PTL DEF Spec

============================================================================
