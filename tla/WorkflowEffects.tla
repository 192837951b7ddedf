-------------------------- MODULE WorkflowEffects --------------------------
(***************************************************************************)
(* The ledger of the side effects of AI workflows (t_ai_workflow_effect).  *)
(*                                                                         *)
(* A node that creates a ticket, a meeting or a knowledge candidate, or    *)
(* hands over to a human, first acquires the row of its idempotency key.   *)
(* Several executors may work for one key: the reply job of a customer     *)
(* turn is retried, and run twice when its lease lapsed.  The lease of a   *)
(* row lasts two minutes and is never renewed; the attempt number taken    *)
(* with it fences the writes that settle the row.                          *)
(*                                                                         *)
(* leased tells that locked_until lies in the future.  What a node returns *)
(* is an input: the business operation has its own idempotency key, but    *)
(* its answer need not be the same twice.                                  *)
(*                                                                         *)
(* A run that finds the effect finished goes on with the stored result,    *)
(* but the ticket of a create_ticket or handoff node is looked up again:   *)
(* when it was merged meanwhile, the run goes on with the main ticket.     *)
(***************************************************************************)
EXTENDS Naturals, FiniteSets

CONSTANTS
    Keys,          \* idempotency keys: tenant, conversation, message, release, path
    Executors,     \* runs of executeNode that may overlap
    Results,       \* what a node may return
    Tickets,       \* the results that carry a ticket, told apart by the ticket
    TicketKeys,    \* keys of create_ticket and handoff nodes
    PromptKeys,    \* keys whose executors settle the row within the lease; a
                   \* run may last ten minutes, so the other keys exist as well
    MaxAttempt,    \* bound: attempts of a key
    MaxFaults      \* bound: crashes and failed writes

ASSUME EffectsAssumption ==
    /\ PromptKeys \subseteq Keys
    /\ TicketKeys \subseteq Keys
    /\ Tickets \subseteq Results
    /\ MaxAttempt \in Nat \ {0}
    /\ MaxFaults \in Nat
    /\ "none" \notin Results

VARIABLES
    effect,        \* t_ai_workflow_effect, by idempotency key
    events,        \* keys with a domain event "<key>:succeeded" and its outbox row
    pc,            \* where the executor stands
    key,           \* the key the executor works for
    item,          \* the row as the executor last read it
    acquired,      \* whether its TryAcquire or Create won
    output,        \* what the executor makes of the node
    mergedInto,    \* t_ticket.merged_into_id, "none" for a ticket of its own
    faults

ledger == <<effect, events>>
vars   == <<ledger, pc, key, item, acquired, output, mergedInto, faults>>

----------------------------------------------------------------------------
\* models.AIWorkflowEffect; a row that does not exist has the status "none".
Row == [status : {"none", "running", "succeeded", "failed"}, attempt : Nat,
        leased : BOOLEAN, result : Results \cup {"none"}]

NoRow == [status |-> "none", attempt |-> 0, leased |-> FALSE, result |-> "none"]

\* The row Acquire inserts.
NewRow == [status |-> "running", attempt |-> 1, leased |-> TRUE, result |-> "none"]

\* Mutant: any row whose lease has run out can be taken, finished or not.
MayAcquireFinished(row, read) == ~row.leased

\* Mutant: the lease of a running row is not looked at.
MayAcquireLeased(row, read) == row.status \in {"running", "failed"}

\* The WHERE clause of TryAcquire, whose clock was read before the row: a lease
\* that was taken since is refused even when it has run out by now.
MayAcquire(row, read) ==
    \/ row.status = "failed"
    \/ row.status = "running" /\ ~row.leased /\ row.attempt = read.attempt

\* Mutant: the row is settled by id alone.
FencedById(row, lease) == row.status # "none"

\* The WHERE clause of MarkSucceeded and MarkFailed.
Fenced(row, lease) == row.status = "running" /\ row.attempt = lease.attempt

\* Executors between a successful acquisition and the write that settles it.
Executing(e) == acquired[e] /\ pc[e] \in {"reread", "run", "complete", "fail"}

----------------------------------------------------------------------------
Init ==
    /\ effect = [k \in Keys |-> NoRow]
    /\ events = {}
    /\ pc = [e \in Executors |-> "idle"]
    /\ key \in [Executors -> Keys]
    /\ item = [e \in Executors |-> NoRow]
    /\ acquired = [e \in Executors |-> FALSE]
    /\ output = [e \in Executors |-> "none"]
    /\ mergedInto = [t \in Tickets |-> "none"]
    /\ faults = 0

Goto(e, label) == pc' = [pc EXCEPT ![e] = label]

Fault == faults < MaxFaults /\ faults' = faults + 1

\* What Acquire makes of a row it has read: a finished effect is replayed, a
\* leased one is refused ("already running").
Decide(e, row) ==
    CASE row.status = "succeeded" ->
            Goto(e, "replay") /\ output' = [output EXCEPT ![e] = row.result]
      [] row.status # "succeeded" /\ row.leased -> Goto(e, "error") /\ UNCHANGED output
      [] OTHER -> Goto(e, "acquire") /\ UNCHANGED output

\* A run reaches the node: a new one, or the retry of an earlier one.
StartNode(e) ==
    /\ pc[e] \in {"idle", "ok", "error"}
    /\ Goto(e, "lookup")
    /\ item' = [item EXCEPT ![e] = NoRow]
    /\ acquired' = [acquired EXCEPT ![e] = FALSE]
    /\ output' = [output EXCEPT ![e] = "none"]
    /\ UNCHANGED <<ledger, key, faults, mergedInto>>

\* Acquire: the first GetByIdempotencyKey.
Lookup(e) ==
    LET row == effect[key[e]]
    IN  /\ pc[e] = "lookup"
        /\ item' = [item EXCEPT ![e] = row]
        /\ \/ row.status = "none" /\ Goto(e, "create") /\ UNCHANGED output
           \/ row.status # "none" /\ Decide(e, row)
        /\ UNCHANGED <<ledger, key, acquired, faults, mergedInto>>

\* Acquire: Create.  The loser of the unique key reads the winner's row; a
\* failed insert finds none and gives up.
Create(e) ==
    LET k == key[e]
    IN  /\ pc[e] = "create"
        /\ \/ /\ effect[k].status = "none"
              /\ effect' = [effect EXCEPT ![k] = NewRow]
              /\ item' = [item EXCEPT ![e] = NewRow]
              /\ acquired' = [acquired EXCEPT ![e] = TRUE]
              /\ Goto(e, "run")
              /\ UNCHANGED <<output, faults>>
           \/ /\ effect[k].status # "none"
              /\ item' = [item EXCEPT ![e] = effect[k]]
              /\ Decide(e, effect[k])
              /\ UNCHANGED <<effect, acquired, faults>>
           \/ /\ effect[k].status = "none"
              /\ Fault
              /\ Goto(e, "error")
              /\ UNCHANGED <<effect, item, acquired, output>>
        /\ UNCHANGED <<events, key, mergedInto>>

\* TryAcquire: the conditional update.
TryAcquire(e) ==
    LET k   == key[e]
        won == MayAcquire(effect[k], item[e])
    IN  /\ pc[e] = "acquire"
        /\ effect[k].attempt < MaxAttempt
        /\ effect' = IF won
                     THEN [effect EXCEPT ![k].status = "running", ![k].leased = TRUE,
                                         ![k].attempt = @ + 1]
                     ELSE effect
        /\ acquired' = [acquired EXCEPT ![e] = won]
        /\ Goto(e, "reread")
        /\ UNCHANGED <<events, key, item, output, faults, mergedInto>>

\* Acquire: the read after TryAcquire gives the attempt the lease is for.
Reread(e) ==
    LET row == effect[key[e]]
    IN  /\ pc[e] = "reread"
        /\ item' = [item EXCEPT ![e] = row]
        /\ \/ /\ row.status = "succeeded"
              /\ Goto(e, "replay")
              /\ output' = [output EXCEPT ![e] = row.result]
           \/ /\ row.status # "succeeded"
              /\ Goto(e, IF acquired[e] THEN "run" ELSE "error")
              /\ UNCHANGED output
        /\ UNCHANGED <<ledger, key, acquired, faults, mergedInto>>

\* ResolveWorkflowTicket: the ticket itself, or the main ticket it was merged
\* into unless that was merged in its turn.  Other results stand as they are.
Resolves(k, result) ==
    IF k \notin TicketKeys \/ result \notin Tickets \/ mergedInto[result] = "none"
    THEN {result}
    ELSE {t \in {mergedInto[result]} : mergedInto[t] = "none"}

\* executeNode goes on with a finished effect, or fails when its ticket cannot
\* be resolved: it is not found, or its main ticket is not a main ticket.
Replay(e) ==
    /\ pc[e] = "replay"
    /\ \/ /\ \E r \in Resolves(key[e], output[e]) : output' = [output EXCEPT ![e] = r]
          /\ Goto(e, "ok")
          /\ UNCHANGED faults
       \/ /\ Resolves(key[e], output[e]) = {}
          /\ Goto(e, "error")
          /\ UNCHANGED <<output, faults>>
       \/ /\ key[e] \in TicketKeys /\ output[e] \in Tickets
          /\ Fault
          /\ Goto(e, "error")
          /\ UNCHANGED output
    /\ UNCHANGED <<ledger, key, item, acquired, mergedInto>>

\* Somebody merges a ticket into a main ticket.  The code under src/ follows
\* merges but performs none.
Merge(t, main) ==
    /\ t # main
    /\ mergedInto[t] = "none" /\ mergedInto[main] = "none"
    /\ mergedInto' = [mergedInto EXCEPT ![t] = main]
    /\ UNCHANGED <<ledger, pc, key, item, acquired, output, faults>>

\* executeNode runs the node; its answer, or an error, is an input.
RunNode(e) ==
    /\ pc[e] = "run"
    /\ \/ /\ \E r \in Results : output' = [output EXCEPT ![e] = r]
          /\ Goto(e, "complete")
       \/ Goto(e, "fail") /\ UNCHANGED output
    /\ UNCHANGED <<ledger, key, item, acquired, faults, mergedInto>>

\* Complete: MarkSucceeded and the event in one transaction.  A stale lease, or a
\* transaction that fails, is an error of the node.
Complete(e) ==
    LET k == key[e]
    IN  /\ pc[e] = "complete"
        /\ \/ /\ Fenced(effect[k], item[e])
              /\ effect' = [effect EXCEPT ![k].status = "succeeded", ![k].leased = FALSE,
                                          ![k].result = output[e]]
              /\ events' = events \cup {k}
              /\ Goto(e, "ok")
              /\ UNCHANGED faults
           \/ /\ ~Fenced(effect[k], item[e])
              /\ Goto(e, "error")
              /\ UNCHANGED <<ledger, faults>>
           \/ Fault /\ Goto(e, "error") /\ UNCHANGED ledger
        /\ UNCHANGED <<key, item, acquired, output, mergedInto>>

\* Fail: MarkFailed; whether it was written is not looked at.
Fail(e) ==
    LET k == key[e]
    IN  /\ pc[e] = "fail"
        /\ \/ /\ Fenced(effect[k], item[e])
              /\ effect' = [effect EXCEPT ![k].status = "failed", ![k].leased = FALSE]
              /\ UNCHANGED faults
           \/ ~Fenced(effect[k], item[e]) /\ UNCHANGED <<effect, faults>>
           \/ Fault /\ UNCHANGED effect
        /\ Goto(e, "error")
        /\ UNCHANGED <<events, key, item, acquired, output, mergedInto>>

\* locked_until passes.
LeaseEnds(k) ==
    /\ effect[k].leased
    /\ k \in PromptKeys => \A e \in Executors : key[e] = k => ~Executing(e)
    /\ effect' = [effect EXCEPT ![k].leased = FALSE]
    /\ UNCHANGED <<events, pc, key, item, acquired, output, faults, mergedInto>>

\* The instance dies; the reply job runs the node again.
Crash(e) ==
    /\ pc[e] \notin {"idle", "ok", "error"}
    /\ Fault
    /\ Goto(e, "error")
    /\ UNCHANGED <<ledger, key, item, acquired, output, mergedInto>>

Next ==
    \/ \E e \in Executors :
          \/ StartNode(e) \/ Lookup(e) \/ Create(e) \/ TryAcquire(e) \/ Reread(e)
          \/ Replay(e) \/ RunNode(e) \/ Complete(e) \/ Fail(e) \/ Crash(e)
    \/ \E k \in Keys : LeaseEnds(k)
    \/ \E t, main \in Tickets : Merge(t, main)

Spec == Init /\ [][Next]_vars

----------------------------------------------------------------------------
(* Properties *)

\* Rows and the executors' copies keep their types.
TypeOK ==
    /\ effect \in [Keys -> Row]
    /\ events \subseteq Keys
    /\ pc \in [Executors -> {"idle", "lookup", "create", "acquire", "reread", "replay",
                             "run", "complete", "fail", "ok", "error"}]
    /\ key \in [Executors -> Keys]
    /\ item \in [Executors -> Row]
    /\ acquired \in [Executors -> BOOLEAN]
    /\ output \in [Executors -> Results \cup {"none"}]
    /\ mergedInto \in [Tickets -> Tickets \cup {"none"}]
    /\ faults \in Nat

\* All runs that got past a node agree on its outcome, although slow executors
\* whose lease was taken over finish the node as well, with results of their
\* own: whoever goes on, goes on with the stored result or, where that is a
\* ticket, with the one main ticket it was merged into; two runs can only
\* differ when that merge lies between them.
ResultsAgree ==
    \A e \in Executors : pc[e] = "ok" =>
        LET stored == effect[key[e]].result
        IN  /\ effect[key[e]].status = "succeeded"
            /\ \/ output[e] = stored
               \/ /\ key[e] \in TicketKeys
                  /\ {stored, output[e]} \subseteq Tickets
                  /\ output[e] = mergedInto[stored]

\* The event of an effect and its row tell the same: what was announced is and
\* stays finished, and what is finished was announced, in spite of retries,
\* takeovers and crashes.
AnnouncedIffSucceeded ==
    \A k \in Keys : k \in events <=> effect[k].status = "succeeded"

\* A finished effect stays finished: no retry, takeover or late failure of an
\* earlier attempt touches its row again.
SucceededIsFinal ==
    [][\A k \in Keys : effect[k].status = "succeeded" => effect'[k] = effect[k]]_vars

\* The lease prevents concurrent execution (models.go) as long as executors
\* settle their rows within it: the races of two inserts and of two takeovers
\* have one winner, and a failed effect is released by its own executor only.
NoConcurrentExecution ==
    \A d, e \in Executors :
        d # e /\ key[d] = key[e] /\ key[e] \in PromptKeys =>
            ~(Executing(d) /\ Executing(e))

============================================================================
