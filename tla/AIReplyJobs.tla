---------------------------- MODULE AIReplyJobs ----------------------------
(***************************************************************************)
(* The durable AI reply jobs of internal/ai/runtime.                       *)
(*                                                                         *)
(* A customer message and its job are stored in one transaction.  Workers  *)
(* (the wake-up loop and the overlapping cron runs of every instance)      *)
(* claim due jobs in batches and process them one after the other.  Only   *)
(* the job in process has a heartbeat: the leases of the others may run    *)
(* out while they wait, and a recovered job may be claimed by a second     *)
(* worker while the first still holds its copy.  The run of the agent and  *)
(* the messages it sends are not fenced; only the final write to the job   *)
(* is.                                                                     *)
(*                                                                         *)
(* Job ids are 1, 2, 3...: the job is inserted after the transaction has   *)
(* updated the conversation row, so within a conversation ids follow the   *)
(* order of the commits.  Timers are abstract: due tells that              *)
(* next_attempt_at has passed, leased that locked_at is younger than the   *)
(* lease.                                                                  *)
(***************************************************************************)
EXTENDS Naturals, FiniteSets

CONSTANTS
    Conversations,
    Workers,       \* invocations of ProcessDueReplyJobs that may overlap
    BatchLimit,    \* jobs one claim takes (20 in the code)
    MaxRetries,    \* aiReplyJobMaxRetries (5 in the code)
    RunPrefixes,   \* client prefixes of the texts a run ends with: ai_reply, or
                   \* one of the interrupt prefixes
    DeskMoves,     \* bound: what may happen to a conversation: handoff, human, closed
    MaxJobs,       \* bound: customer turns
    MaxRounds,     \* bound: replies ai_reply_rounds can tell apart
    MaxFaults      \* bound: crashes, lost heartbeats and failed writes

ASSUME ReplyJobsAssumption ==
    /\ BatchLimit \in Nat \ {0}
    /\ MaxRetries \in Nat \ {0}
    /\ DeskMoves \subseteq {"handoff", "human", "closed"}
    /\ MaxJobs \in Nat
    /\ MaxRounds \in Nat \ {0}
    /\ MaxFaults \in Nat
    /\ "none" \notin Conversations \cup Workers

VARIABLES
    job,           \* t_ai_reply_job, one row per customer turn
    conversation,  \* who serves the conversation
    rounds,        \* conversation.ai_reply_rounds
    sent,          \* the AI and system messages, by turn and client prefix
    batch,         \* the copies a worker has claimed and not yet finished
    pc,            \* where the worker stands with the copy it processes
    snapshot,      \* what the worker keeps of the conversation it read
    prefix,        \* client prefix of the text the worker is committing
    faults,
    \* History, read by the properties only:
    failures,      \* attempts of the turn that ended in retryOrFailReplyJob
    mute           \* turns excused from an answer: empty run, unsendable notice

jobVars  == <<job, failures>>
chatVars == <<conversation, rounds, sent, mute>>
workVars == <<batch, pc, snapshot, prefix>>
vars     == <<jobVars, chatVars, workVars, faults>>

----------------------------------------------------------------------------
(* Rows and the predicates of the queries *)

Jobs     == 1..MaxJobs
Settled  == {"succeeded", "failed", "cancelled"}
Waiting  == {"pending", "waiting_retry"}
\* Client prefixes; ai_reply_quota and ai_reply_error are both a "notice".
Prefixes == RunPrefixes \cup {"late", "notice"}

\* models.AIReplyJob; "none" is a turn nobody has sent yet.
Row == [status : {"none", "running"} \cup Waiting \cup Settled,
        conversation : Conversations \cup {"none"}, retry_count : Nat,
        due : BOOLEAN, leased : BOOLEAN, lock_owner : Workers \cup {"none"}]

NoRow == [status |-> "none", conversation |-> "none", retry_count |-> 0,
          due |-> TRUE, leased |-> FALSE, lock_owner |-> "none"]

Copy == [id : Jobs, retry_count : Nat]

\* The copy a worker processes: batches are ordered by id.
Current(w) == CHOOSE c \in batch[w] : \A d \in batch[w] : c.id <= d.id

Processing(w, j) == batch[w] # {} /\ Current(w).id = j

\* The fence of Finish and Heartbeat.
Holds(w, j) == job[j].status = "running" /\ job[j].lock_owner = w

Due(j) == job[j].status \in Waiting /\ job[j].due

\* Mutant: a turn that waits for a retry does not hold back the next one.
HasEarlierRunningJob(j) ==
    \E i \in 1..(j - 1) : /\ job[i].conversation = job[j].conversation
                          /\ job[i].status \in {"pending", "running"}

\* HasEarlierUnfinishedJob.
HasEarlierUnfinishedJob(j) ==
    \E i \in 1..(j - 1) : /\ job[i].conversation = job[j].conversation
                          /\ job[i].status \in Waiting \cup {"running"}

\* Mutant: a word for the end of a job that the queries do not know.
FinishDone(w, status, retryCount) ==
    LET j == Current(w).id
    IN  job' = IF Holds(w, j)
               THEN [job EXCEPT ![j].status = IF status = "succeeded" THEN "done" ELSE status,
                                ![j].leased = FALSE, ![j].lock_owner = "none"]
               ELSE job

\* Mutant: the final write is made by id alone.
FinishUnfenced(w, status, retryCount) ==
    LET j == Current(w).id
    IN  job' = [job EXCEPT ![j].status = status, ![j].retry_count = retryCount,
                           ![j].due = FALSE, ![j].leased = FALSE,
                           ![j].lock_owner = "none"]

\* Finish: fenced by the lock owner; a stale worker writes nothing.  A job
\* put back to wait is due when its timer has passed.
Finish(w, status, retryCount) ==
    LET j == Current(w).id
    IN  job' = IF Holds(w, j)
               THEN [job EXCEPT ![j].status = status, ![j].retry_count = retryCount,
                                ![j].due = FALSE, ![j].leased = FALSE,
                                ![j].lock_owner = "none"]
               ELSE job

\* ValidateConversationSender for an AI message.
AIMaySend(c) == conversation[c] \in {"ai", "handoff"}

\* Mutant: the test of the handover is the wrong way round.
CanReplyInverted(c) == {conversation[c] = "human"}

\* CanReply asks whether the conversation was handed over.  Whether a closed one
\* was is not kept: either answer is possible.
CanReply(c) == CASE conversation[c] = "ai" -> {TRUE}
                 [] conversation[c] = "closed" -> BOOLEAN
                 [] OTHER -> {FALSE}

NoSnapshot == [canReply |-> FALSE, rounds |-> 0]

Capped(n) == IF n > MaxRounds THEN MaxRounds ELSE n

Larger(m, n) == IF m > n THEN m ELSE n

----------------------------------------------------------------------------
Init ==
    /\ job = [j \in Jobs |-> NoRow]
    /\ conversation = [c \in Conversations |-> "ai"]
    /\ rounds = [c \in Conversations |-> 0]
    /\ sent = {}
    /\ batch = [w \in Workers |-> {}]
    /\ pc = [w \in Workers |-> "start"]
    /\ snapshot = [w \in Workers |-> NoSnapshot]
    /\ prefix = [w \in Workers |-> "none"]
    /\ faults = 0
    /\ failures = [j \in Jobs |-> 0]
    /\ mute = {}

Fault == faults < MaxFaults /\ faults' = faults + 1

----------------------------------------------------------------------------
(* The customer and the desk *)

\* sendValidatedMessage of a customer: message and job in one transaction.  The
\* repetition of a client message id finds the message and adds no job.
EnqueueReplyJob(j, c) ==
    /\ job[j].status = "none"
    /\ \A i \in 1..(j - 1) : job[i].status # "none"
    /\ conversation[c] # "closed"
    /\ job' = [job EXCEPT ![j].status = "pending", ![j].conversation = c]
    /\ UNCHANGED <<failures, chatVars, workVars, faults>>

\* claimHandoffWithTicketTx: the AI hands the conversation over.
Handoff(c) ==
    /\ "handoff" \in DeskMoves
    /\ conversation[c] = "ai"
    /\ conversation' = [conversation EXCEPT ![c] = "handoff"]
    /\ UNCHANGED <<rounds, sent, mute, jobVars, workVars, faults>>

\* ensureManagedAgentConversationTx: an agent answers and owns it from then on.
TakeOver(c) ==
    /\ "human" \in DeskMoves
    /\ conversation[c] \in {"ai", "handoff"}
    /\ conversation' = [conversation EXCEPT ![c] = "human"]
    /\ UNCHANGED <<rounds, sent, mute, jobVars, workVars, faults>>

\* closeConversation.
Close(c) ==
    /\ "closed" \in DeskMoves
    /\ conversation[c] # "closed"
    /\ conversation' = [conversation EXCEPT ![c] = "closed"]
    /\ UNCHANGED <<rounds, sent, mute, jobVars, workVars, faults>>

----------------------------------------------------------------------------
(* The worker: claiming *)

\* ClaimDueJobs: one transaction (FOR UPDATE SKIP LOCKED) takes the first due
\* jobs by id.
ClaimDueJobs(w) ==
    LET due     == {j \in Jobs : Due(j)}
        claimed == {j \in due : Cardinality({i \in due : i < j}) < BatchLimit}
    IN  /\ batch[w] = {}
        /\ due # {}
        /\ batch' = [batch EXCEPT ![w] =
                       {[id |-> j, retry_count |-> job[j].retry_count] : j \in claimed}]
        /\ job' = [j \in Jobs |->
                     IF j \in claimed
                     THEN [job[j] EXCEPT !.status = "running", !.leased = TRUE,
                                         !.lock_owner = w]
                     ELSE job[j]]
        /\ UNCHANGED <<failures, chatVars, pc, snapshot, prefix, faults>>

\* The lease heartbeat of the job in process.
Heartbeat(w) ==
    /\ batch[w] # {}
    /\ LET j == Current(w).id
       IN  /\ Holds(w, j) /\ ~job[j].leased
           /\ job' = [job EXCEPT ![j].leased = TRUE]
    /\ UNCHANGED <<failures, chatVars, workVars, faults>>

\* Mutant: only jobs nobody has failed yet are recovered.
ExpiredUntried(j) ==
    /\ job[j].status = "running" /\ ~job[j].leased /\ job[j].retry_count = 0

\* The WHERE clause of RecoverExpiredRunningJobs.
Expired(j) == job[j].status = "running" /\ ~job[j].leased

\* RecoverExpiredRunningJobs: due at once, and not counted as an attempt.
RecoverExpiredRunningJobs ==
    /\ \E j \in Jobs : Expired(j)
    /\ job' = [j \in Jobs |->
                 IF Expired(j)
                 THEN [job[j] EXCEPT !.status = "waiting_retry", !.due = TRUE,
                                     !.lock_owner = "none"]
                 ELSE job[j]]
    /\ UNCHANGED <<failures, chatVars, workVars, faults>>

----------------------------------------------------------------------------
(* The worker: processClaimedReplyJob, one copy after the other *)

Goto(w, label) == pc' = [pc EXCEPT ![w] = label]

\* The conversation is read before the turn is known to be first in line.
Load(w) ==
    LET c == job[Current(w).id].conversation
    IN  /\ batch[w] # {} /\ pc[w] = "start"
        /\ \E b \in CanReply(c) :
              snapshot' = [snapshot EXCEPT ![w] = [canReply |-> b, rounds |-> rounds[c]]]
        /\ Goto(w, "loaded")
        /\ UNCHANGED <<jobVars, chatVars, batch, prefix, faults>>

\* The checks that come before the run.  A row that vanished or a disabled agent
\* (cancelled), a blank message or a human-only agent (nothing to answer) and
\* the quota are inputs; a scope that does not match cannot occur, as a
\* conversation keeps its tenant and product.
Check(w) ==
    LET j == Current(w).id
    IN  /\ pc[w] = "loaded"
        /\ \/ Goto(w, "cancelled") /\ UNCHANGED mute
           \/ HasEarlierUnfinishedJob(j) /\ Goto(w, "wait") /\ UNCHANGED mute
           \/ /\ ~HasEarlierUnfinishedJob(j)
              /\ IF snapshot[w].canReply
                 THEN \/ Goto(w, "run") /\ UNCHANGED mute
                      \/ Goto(w, "quota") /\ UNCHANGED mute
                      \/ Goto(w, "succeeded") /\ mute' = mute \cup {j}
                 ELSE Goto(w, "succeeded") /\ UNCHANGED mute
        /\ UNCHANGED <<jobVars, conversation, rounds, sent, batch,
                       snapshot, prefix, faults>>

\* A read of the checks fails.
CheckError(w) ==
    /\ pc[w] = "loaded"
    /\ Fault
    /\ Goto(w, "error")
    /\ UNCHANGED <<jobVars, chatVars, batch, snapshot, prefix>>

\* SendAIReply of the quota notice, without a round.
SendQuota(w) ==
    LET j == Current(w).id
        c == job[j].conversation
    IN  /\ pc[w] = "quota"
        /\ IF AIMaySend(c)
           THEN sent' = sent \cup {<<j, "notice">>} /\ Goto(w, "succeeded")
           ELSE UNCHANGED sent /\ Goto(w, "error")
        /\ UNCHANGED <<jobVars, conversation, rounds, mute,
                       batch, snapshot, prefix, faults>>

\* TriggerReply up to the text.  Whether the agent runs or a pending interrupt
\* is resumed shows in the prefix of the text; a run may end without one.
TriggerReply(w) ==
    LET j == Current(w).id
    IN  /\ pc[w] = "run"
        /\ \/ Goto(w, "error") /\ UNCHANGED <<prefix, mute>>
           \/ Goto(w, "succeeded") /\ mute' = mute \cup {j} /\ UNCHANGED prefix
           \/ /\ \E p \in RunPrefixes : prefix' = [prefix EXCEPT ![w] = p]
              /\ Goto(w, "commit")
              /\ UNCHANGED mute
        /\ UNCHANGED <<jobVars, conversation, rounds, sent, batch, snapshot, faults>>

\* CommitAIReply, the message: created unless the client message id exists.  A
\* human desk gets it as a late system summary, a closed one not at all.
CommitAIReply(w) ==
    LET j == Current(w).id
        c == job[j].conversation
    IN  /\ pc[w] = "commit"
        /\ \/ /\ AIMaySend(c)
              /\ sent' = sent \cup {<<j, prefix[w]>>}
              /\ Goto(w, "count")
              /\ UNCHANGED <<snapshot, faults>>
           \/ /\ conversation[c] = "human"
              /\ sent' = sent \cup {<<j, "late">>}
              /\ snapshot' = [snapshot EXCEPT ![w].rounds = Larger(@, rounds[c])]
              /\ Goto(w, "count")
              /\ UNCHANGED faults
           \/ /\ conversation[c] = "closed"
              /\ Goto(w, "succeeded")
              /\ UNCHANGED <<sent, snapshot, faults>>
           \/ /\ Fault
              /\ Goto(w, "error")
              /\ UNCHANGED <<sent, snapshot>>
        /\ UNCHANGED <<jobVars, conversation, rounds, mute, batch, prefix>>

\* IncrementAIReplyRounds: the successor of the value read before the run.
IncrementAIReplyRounds(w) ==
    LET c == job[Current(w).id].conversation
    IN  rounds' = [rounds EXCEPT ![c] = Capped(snapshot[w].rounds + 1)]

CountRound(w) ==
    /\ pc[w] = "count"
    /\ \/ /\ IncrementAIReplyRounds(w)
          /\ Goto(w, "succeeded")
          /\ UNCHANGED faults
       \/ Fault /\ Goto(w, "error") /\ UNCHANGED rounds
    /\ UNCHANGED <<jobVars, conversation, sent, mute, batch, snapshot, prefix>>

\* The worker drops its copy and turns to the next one.
DropCopy(w) ==
    /\ batch' = [batch EXCEPT ![w] = @ \ {Current(w)}]
    /\ Goto(w, "start")
    /\ snapshot' = [snapshot EXCEPT ![w] = NoSnapshot]
    /\ prefix' = [prefix EXCEPT ![w] = "none"]

\* finishReplyJob after the checks or the run; a lost write leaves the job
\* running until its lease ends.
FinishReplyJob(w) ==
    /\ pc[w] \in {"succeeded", "cancelled", "wait"}
    /\ \/ /\ Finish(w, IF pc[w] = "wait" THEN "waiting_retry" ELSE pc[w],
                    Current(w).retry_count)
          /\ UNCHANGED faults
       \/ Fault /\ UNCHANGED job
    /\ DropCopy(w)
    /\ UNCHANGED <<failures, chatVars>>

\* Mutant: the last attempt is not made.
ExhaustedEarly(n) == n + 1 >= MaxRetries

Exhausted(n) == n >= MaxRetries

\* retryOrFailReplyJob while attempts are left.
RetryReplyJob(w) ==
    LET n == Current(w).retry_count + 1
    IN  /\ pc[w] = "error"
        /\ ~Exhausted(n)
        /\ \/ Finish(w, "waiting_retry", n) /\ UNCHANGED faults
           \/ Fault /\ UNCHANGED job
        /\ failures' = [failures EXCEPT ![Current(w).id] = @ + 1]
        /\ DropCopy(w)
        /\ UNCHANGED chatVars

\* commitAsyncFailure: the failure notice goes out before the fenced write.
CommitAsyncFailure(w) ==
    LET j == Current(w).id
        c == job[j].conversation
    IN  /\ pc[w] = "error"
        /\ Exhausted(Current(w).retry_count + 1)
        /\ \/ /\ conversation[c] # "closed"
              /\ sent' = sent \cup {<<j, "notice">>}
              /\ UNCHANGED <<mute, faults>>
           \/ conversation[c] = "closed" /\ UNCHANGED <<sent, mute, faults>>
           \/ Fault /\ mute' = mute \cup {j} /\ UNCHANGED sent
        /\ Goto(w, "failed")
        /\ UNCHANGED <<jobVars, conversation, rounds, batch, snapshot, prefix>>

\* retryOrFailReplyJob when the attempts are used up.
FailReplyJob(w) ==
    LET n == Current(w).retry_count + 1
    IN  /\ pc[w] = "failed"
        /\ \/ Finish(w, "failed", n) /\ UNCHANGED faults
           \/ Fault /\ UNCHANGED job
        /\ failures' = [failures EXCEPT ![Current(w).id] = @ + 1]
        /\ DropCopy(w)
        /\ UNCHANGED chatVars

----------------------------------------------------------------------------
(* Time and failures *)

\* next_attempt_at passes.
BackoffEnds(j) ==
    /\ job[j].status = "waiting_retry" /\ ~job[j].due
    /\ job' = [job EXCEPT ![j].due = TRUE]
    /\ UNCHANGED <<failures, chatVars, workVars, faults>>

\* The lease of a job nobody beats for runs out: its worker is gone, or has it
\* waiting in its batch.
LeaseEnds(j) ==
    /\ job[j].status = "running" /\ job[j].leased
    /\ \A w \in Workers : Holds(w, j) => ~Processing(w, j)
    /\ job' = [job EXCEPT ![j].leased = FALSE]
    /\ UNCHANGED <<failures, chatVars, workVars, faults>>

\* The heartbeats of a job in process fail for the length of a lease.
HeartbeatsLost(w) ==
    /\ batch[w] # {}
    /\ LET j == Current(w).id
       IN  /\ Holds(w, j) /\ job[j].leased
           /\ job' = [job EXCEPT ![j].leased = FALSE]
    /\ Fault
    /\ UNCHANGED <<failures, chatVars, workVars>>

\* The instance of a worker dies and restarts.
Crash(w) ==
    /\ batch[w] # {}
    /\ Fault
    /\ batch' = [batch EXCEPT ![w] = {}]
    /\ Goto(w, "start")
    /\ snapshot' = [snapshot EXCEPT ![w] = NoSnapshot]
    /\ prefix' = [prefix EXCEPT ![w] = "none"]
    /\ UNCHANGED <<jobVars, chatVars>>

----------------------------------------------------------------------------
Work(w) ==
    \/ Load(w) \/ Check(w) \/ CheckError(w) \/ SendQuota(w) \/ TriggerReply(w)
    \/ CommitAIReply(w) \/ CountRound(w)
    \/ FinishReplyJob(w) \/ RetryReplyJob(w) \/ CommitAsyncFailure(w) \/ FailReplyJob(w)

Next ==
    \/ \E j \in Jobs, c \in Conversations : EnqueueReplyJob(j, c)
    \/ \E c \in Conversations : Handoff(c) \/ TakeOver(c) \/ Close(c)
    \/ \E w \in Workers : ClaimDueJobs(w) \/ Heartbeat(w) \/ Work(w)
    \/ RecoverExpiredRunningJobs
    \/ \E j \in Jobs : BackoffEnds(j) \/ LeaseEnds(j)
    \/ \E w \in Workers : HeartbeatsLost(w) \/ Crash(w)

Spec == Init /\ [][Next]_vars

\* The cron runs, the clock and a started worker go on.  Customers, agents and
\* faults are never obliged to act; a run ends, as its context has a timeout.
Fairness ==
    /\ \A w \in Workers : WF_vars(ClaimDueJobs(w)) /\ WF_vars(Work(w)) /\ WF_vars(Heartbeat(w))
    /\ WF_vars(RecoverExpiredRunningJobs)
    /\ \A j \in Jobs : WF_vars(BackoffEnds(j)) /\ WF_vars(LeaseEnds(j))

FairSpec == Spec /\ Fairness

----------------------------------------------------------------------------
(* Properties *)

\* Rows, copies and messages keep their types.
TypeOK ==
    /\ job \in [Jobs -> Row]
    /\ conversation \in [Conversations -> {"ai", "handoff", "human", "closed"}]
    /\ rounds \in [Conversations -> 0..MaxRounds]
    /\ sent \subseteq Jobs \X Prefixes
    /\ batch \in [Workers -> SUBSET Copy]
    /\ pc \in [Workers -> {"start", "loaded", "wait", "cancelled", "quota", "run", "commit",
                           "count", "succeeded", "error", "failed"}]
    /\ snapshot \in [Workers -> [canReply : BOOLEAN, rounds : 0..MaxRounds]]
    /\ prefix \in [Workers -> Prefixes \cup {"none"}]
    /\ faults \in 0..MaxFaults
    /\ failures \in [Jobs -> Nat]
    /\ mute \subseteq Jobs

\* Turns of a conversation are answered one at a time and in order: while a
\* worker runs the agent for a turn, every earlier turn is settled.  Stale
\* copies, recovered leases and retries must not let a later turn overtake.
TurnsInOrder ==
    \A w \in Workers : batch[w] # {} /\ pc[w] \in {"run", "commit", "count"} =>
        \A i \in 1..(Current(w).id - 1) :
            job[i].conversation = job[Current(w).id].conversation => job[i].status \in Settled

\* A settled job is never touched again, although stale workers still finish
\* their copies of it.
SettledIsFinal ==
    [][\A j \in Jobs : job[j].status \in Settled => job'[j] = job[j]]_vars

\* A turn is given up only after MaxRetries attempts have failed; a lease that
\* lapsed is no attempt.
FailedAfterMaxRetries ==
    \A j \in Jobs : job[j].status = "failed" => failures[j] >= MaxRetries

\* No turn ends in silence: a settled turn was answered, told of its failure or
\* quota, passed to the desk, cancelled, or the agent had nothing to say.
SettledTurnWasAnswered ==
    \A j \in Jobs : job[j].status \in {"succeeded", "failed"} =>
        \/ j \in mute
        \/ \E p \in Prefixes : <<j, p>> \in sent
        \/ conversation[job[j].conversation] # "ai"

\* ai_reply_rounds is the number of successful AI replies in the conversation
\* (models.go), read when every turn is settled and no worker is busy.
RoundsCountReplies ==
    (/\ \A w \in Workers : batch[w] = {}
     /\ \A j \in Jobs : job[j].status \in Settled \cup {"none"}) =>
        \A c \in Conversations :
            rounds[c] = Cardinality({m \in sent : /\ job[m[1]].conversation = c
                                                  /\ m[2] \in RunPrefixes \cup {"late"}})

\* Every customer turn is settled in the end, although workers die, leases
\* lapse in a batch and a turn waits for the ones before it.
EventuallySettled ==
    \A j \in Jobs : job[j].status # "none" ~> job[j].status \in Settled

============================================================================
