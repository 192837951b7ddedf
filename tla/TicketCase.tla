----------------------------- MODULE TicketCase -----------------------------
(***************************************************************************)
(* One customer ticket and the operations that change its state.           *)
(*                                                                         *)
(* A ticket carries two states: the technical status of the after-sales    *)
(* process and the case status shown to customers.  Technical operations   *)
(* (acceptance, assignment, dispatch, repair, supplier escalation) write   *)
(* status and assignee; SyncTicketCaseColumns derives the case status from *)
(* them.  Case commands write the case status and carry the revision their *)
(* sender saw and an idempotency key.  Every operation locks the ticket    *)
(* row, so an operation is one step, except the supplier invitation, which *)
(* checks the ticket before it takes the lock.                             *)
(*                                                                         *)
(* Two things beside the ticket hold it back: an unfinished meeting keeps  *)
(* it from being resolved, an open child ticket from being ended.          *)
(***************************************************************************)
EXTENDS CaseWorkflow, FiniteSets

CONSTANTS
    Engineers,   \* accounts with the engineer role only
    Managers,    \* accounts that may manage dispatch
    Agents,      \* other accounts that may change case states
    NoUser,      \* account 0
    Scopes,      \* the kinds of ticket: product?, linked conversation?, workflow
    Keys,        \* idempotency keys of case commands
    NoReceipt,   \* a key that has not been used
    LateInvite,  \* may other operations run inside a supplier invitation?
    Holds,       \* bound: which of "meeting" and "child" come into being
    MaxCalls,    \* bound: case commands sent
    MaxRevision  \* bound: revisions of the case

Staff == Engineers \cup Managers \cup Agents

ASSUME TicketAssumption ==
    /\ Engineers \cap (Managers \cup Agents) = {}
    /\ NoUser \notin Staff
    /\ \A s \in Scopes : /\ s \in [product : BOOLEAN, linked : BOOLEAN, workflow : {s.workflow}]
                         /\ s.workflow = Unbound \/ Validate(s.workflow)
    /\ LateInvite \in BOOLEAN
    /\ MaxCalls \in Nat
    /\ MaxRevision \in Nat

VARIABLES
    ticket,    \* the columns of the ticket row
    scope,     \* the kind of the ticket, which never changes
    inviting,  \* staff between the check and the transaction of an invitation
    calls,     \* the case commands sent; any of them may arrive any number of times
    receipts,  \* ticket_case_operations: the command recorded under each key
    \* History, read by the properties only:
    fresh,     \* the commands whose sender's view of the case is still current
    refused    \* the commands answered with ErrTicketCaseConflict

vars == <<ticket, scope, inviting, calls, receipts, fresh, refused>>

Statuses ==
    {"pending", "accepted", "assigned", "escalated", "waiting_customer", "resolved",
     "closed", "reopened", "pending_dispatch", "pending_assignee_accept", "processing",
     "supplier_support", "pending_customer_confirm", "cancelled"}

Actions == {"triage", "wait", "resume", "restore", "resolve", "request_closure",
            "close", "cancel", "reopen"}

\* models.Ticket.  Timestamps are kept as booleans: set or NULL.  The last
\* columns tell whether other rows exist for the ticket: a repair record, an
\* active supplier collaboration, an unfinished meeting, an open child ticket.
Ticket ==
    [status : Statuses, case : CaseStates, rev : Nat,
     assignee : Staff \cup {NoUser}, owner : Staff \cup {NoUser},
     acknowledged : BOOLEAN, accepted : BOOLEAN, resolved : BOOLEAN,
     resolution : BOOLEAN,
     resume : CaseStates \cup {"none"}, resumeTech : Statuses \cup {"none"},
     repaired : BOOLEAN, supplier : BOOLEAN, meeting : BOOLEAN, child : BOOLEAN]

Call == [key : Keys, by : Staff, action : Actions, case : CaseStates, rev : Nat]

ASSUME ReceiptAssumption == NoReceipt \notin Call

----------------------------------------------------------------------------
(* Status tables and access rules *)

\* NormalizeTicketStatus.
Normalize(status) ==
    CASE status = "pending"          -> "pending_acceptance"
      [] status = "assigned"         -> "pending_assignee_accept"
      [] status = "escalated"        -> "processing"
      [] status = "waiting_customer" -> "pending_customer_confirm"
      [] OTHER                       -> status

\* Mutant: the status is normalised instead of mapped.
AssignmentStatusNormalized(status) == Normalize(status)

\* ticketAssignmentStatus: the legacy statuses keep their own word.
AssignmentStatus(status) ==
    IF status \in {"pending", "assigned", "escalated", "waiting_customer"}
    THEN "assigned" ELSE "pending_assignee_accept"

\* Mutant: only closed tickets are protected.
canAssignTicketStatusNotClosed(status) == status # "closed"

canAssignTicketStatus(status) == status \notin {"closed", "cancelled"}

canAssignTicketCase(t) ==
    /\ canAssignTicketStatus(t.status)
    /\ t.case \notin {"resolved", "closure_pending", "closed", "cancelled"}

canCompleteRepairFromStatus(status) ==
    Normalize(status) \in {"accepted", "processing", "supplier_support"}

\* requireTicketMutationAccess, which for staff agrees with ticketCaseCanEdit.
CanEdit(t, u) == u \notin Engineers \/ t.owner = u \/ t.assignee = u

\* The commands BuildTicketCaseLifecycle would offer without a workflow.
ticketCaseActions(t, u) ==
    LET fix == IF scope.product THEN {} ELSE {"resolve"}
        step == [new             |-> IF t.assignee = u THEN {"triage"} ELSE {},
                 acknowledged    |-> {"triage", "wait"},
                 in_triage       |-> {"wait", "restore"} \cup fix,
                 assigned        |-> {"wait", "restore"} \cup fix
                                       \cup (IF t.accepted THEN {"triage"} ELSE {}),
                 waiting         |-> {"resume"},
                 restored        |-> {"triage", "wait"} \cup fix,
                 resolved        |-> {"request_closure", "close", "reopen"},
                 closure_pending |-> {"close", "reopen"}]
    IN  IF ~CanEdit(t, u) \/ t.case = "cancelled" THEN {}
        ELSE IF t.case = "closed" THEN {"reopen"}
        ELSE IF t.assignee \notin {NoUser, u} /\ u \notin Managers THEN {"cancel"}
        ELSE step[t.case] \cup
                (IF t.case \in {"resolved", "closure_pending"} THEN {} ELSE {"cancel"})

\* The case a command leads to.
Target(t, action) ==
    CASE action \in {"triage", "reopen"}    -> "in_triage"
      [] action = "wait"                    -> "waiting"
      [] action = "restore"                 -> "restored"
      [] action = "resolve"                 -> "resolved"
      [] action = "request_closure"         -> "closure_pending"
      [] action = "close"                   -> "closed"
      [] action = "cancel"                  -> "cancelled"
      [] action = "resume" ->
            IF t.resume \in {"acknowledged", "in_triage", "assigned", "restored"}
            THEN t.resume ELSE "in_triage"

\* ticketCaseWorkflowActionsDB: the offered commands the workflow allows.
Offered(t, u) ==
    {a \in ticketCaseActions(t, u) : Allows(scope.workflow, t.case, Target(t, a))}

----------------------------------------------------------------------------
(* Writing columns.  A write is a record with the columns it sets. *)

\* One write over another write, or over a row: its columns win.
w ++ r == [c \in DOMAIN w \cup DOMAIN r |-> IF c \in DOMAIN w THEN w[c] ELSE r[c]]

ResumeCleared == [resume |-> "none", resumeTech |-> "none"]

\* The case status that belongs to a technical status.
Projected(t, status, assignee, resolvedAt) ==
    CASE status = "closed"           -> "closed"
      [] status = "cancelled"        -> "cancelled"
      [] status = "reopened"         -> "in_triage"
      [] status = "resolved"         -> "resolved"
      [] status = "waiting_customer" -> "waiting"
      [] status = "pending_customer_confirm" ->
            IF resolvedAt THEN "closure_pending" ELSE "waiting"
      [] OTHER ->
            IF t.case \notin {"acknowledged", "in_triage", "assigned"} THEN t.case
            ELSE IF assignee # NoUser THEN "assigned"
            ELSE IF t.case = "assigned" THEN "in_triage"
            ELSE t.case

\* SyncTicketCaseColumns, given how it numbers a changed case and what it
\* clears when a wait ends: the write completed by the derived columns.
SyncWith(t, columns, rev, endOfWait) ==
    LET has(c)   == c \in DOMAIN columns
        status   == IF has("status") THEN columns.status ELSE t.status
        assignee == IF has("assignee") THEN columns.assignee ELSE t.assignee
        resolved == t.resolved \/ (has("resolved") /\ columns.resolved)
        next     == Projected(t, status, assignee, resolved)
        reopened == IF status = "reopened"
                    THEN [resolution |-> FALSE] ++ ResumeCleared ELSE <<>>
        owner    == IF has("assignee") /\ ~has("owner") THEN [owner |-> assignee] ELSE <<>>
        changed  == IF next = t.case THEN <<>>
                    ELSE [case |-> next, rev |-> rev]
                         ++ (IF t.case = "waiting" THEN endOfWait ELSE <<>>)
    IN  IF has("case") \/ ~(has("status") \/ has("assignee")) THEN columns
        ELSE changed ++ owner ++ reopened ++ columns

\* Mutants: the revision is not moved; the end of a wait clears nothing.
SyncKeepingRevision(t, columns) == SyncWith(t, columns, t.rev, ResumeCleared)
SyncKeepingResume(t, columns) == SyncWith(t, columns, t.rev + 1, <<>>)

Sync(t, columns) == SyncWith(t, columns, t.rev + 1, ResumeCleared)

\* GuardTicketRelationsDB: a ticket is not ended before its child tickets.
RelationsPermit(t, columns) ==
    "status" \in DOMAIN columns /\ columns.status \in {"closed", "cancelled"} => ~t.child

\* GuardTicketWorkflowDB.
WorkflowPermits(t, columns) ==
    LET all == Sync(t, columns)
    IN  "case" \in DOMAIN all => Allows(scope.workflow, t.case, all.case)

\* The guards of TicketRepository.Updates.
Permitted(t, columns) == RelationsPermit(t, columns) /\ WorkflowPermits(t, columns)

\* TicketRepository.Updates, when the guard lets it through.
Updated(t, columns) == Sync(t, columns) ++ t

----------------------------------------------------------------------------
(* ensureTicketCaseOwnershipDB *)

RecordedOwner(t, owner) == IF t.owner # NoUser THEN t.owner ELSE owner

\* A new case becomes assigned, or acknowledged where the workflow has no
\* direct edge.
FirstCase == IF Allows(scope.workflow, "new", "assigned") THEN "assigned" ELSE "acknowledged"

\* Mutant: a new case always becomes assigned.
OwnershipWithoutFallback(t, owner) ==
    [owner |-> RecordedOwner(t, owner), rev |-> t.rev + 1, acknowledged |-> TRUE,
     case |-> IF t.case = "new" THEN "assigned" ELSE t.case,
     status |-> IF t.case = "new" /\ t.assignee = NoUser THEN "accepted" ELSE t.status]

OwnershipColumns(t, owner) ==
    [owner |-> RecordedOwner(t, owner), rev |-> t.rev + 1, acknowledged |-> TRUE,
     case |-> IF t.case = "new" THEN FirstCase ELSE t.case,
     status |-> IF t.case = "new" /\ t.assignee = NoUser THEN "accepted" ELSE t.status]

\* Nothing is written for a case whose handler is already recorded.
OwnershipRecorded(t, owner) ==
    t.case # "new" /\ t.acknowledged /\ t.owner = RecordedOwner(t, owner)

OwnershipPermitted(t, owner) ==
    OwnershipRecorded(t, owner) \/ Permitted(t, OwnershipColumns(t, owner))

Owned(t, owner) ==
    IF OwnershipRecorded(t, owner) THEN t ELSE Updated(t, OwnershipColumns(t, owner))

----------------------------------------------------------------------------
Init ==
    /\ \E assignee \in Engineers \cup {NoUser} :
          ticket = [status |-> IF assignee = NoUser THEN "pending" ELSE "pending_assignee_accept",
                    case |-> "new", rev |-> 0, assignee |-> assignee, owner |-> NoUser,
                    acknowledged |-> FALSE, accepted |-> FALSE, resolved |-> FALSE,
                    resolution |-> FALSE, resume |-> "none", resumeTech |-> "none",
                    repaired |-> FALSE, supplier |-> FALSE, meeting |-> FALSE,
                    child |-> FALSE]
    /\ scope \in Scopes
    /\ inviting = {}
    /\ calls = {}
    /\ receipts = [k \in Keys |-> NoReceipt]
    /\ fresh = {}
    /\ refused = {}

\* The row becomes t, within the bound on revisions.
Commit(t) ==
    /\ t.rev <= MaxRevision
    /\ ticket' = t
    /\ fresh' = IF t.case = ticket.case THEN fresh ELSE {}
    /\ UNCHANGED scope

\* Nobody is inside an invitation, unless operations may come in between.
Undisturbed == LateInvite \/ inviting = {}

\* An operation ends with this write of the row, which it may have changed to t.
Write(t, columns) ==
    /\ Undisturbed
    /\ Permitted(t, columns)
    /\ Commit(Updated(t, columns))
    /\ UNCHANGED <<inviting, calls, receipts, refused>>

----------------------------------------------------------------------------
(* Acceptance, assignment and dispatch *)

\* ticketAcceptTargetStatus, "none" when the ticket cannot be accepted.
AcceptTarget(t) ==
    LET s == Normalize(t.status)
    IN  CASE s \in {"pending_assignee_accept", "pending_dispatch"} -> "processing"
          [] s \in {"pending_acceptance", "reopened"}              -> "accepted"
          [] s = "accepted" /\ t.assignee # NoUser /\ ~t.accepted  -> "accepted"
          [] s \in {"processing", "supplier_support"} /\ t.assignee # NoUser -> s
          [] OTHER -> "none"

\* isTicketAlreadyAcceptedByAssignee.
AlreadyAccepted(t, u) ==
    /\ t.assignee = u /\ t.accepted
    /\ Normalize(t.status) \in {"accepted", "processing", "supplier_support",
                                "pending_customer_confirm"}

\* validateTicketTakeoverDB: the states in which an assigned ticket may be
\* taken from its assignee.  Teams and capabilities are not modelled.
validateTicketTakeover(t) == Normalize(t.status) \notin {"pending_acceptance", "reopened"}

\* Who may accept or take over the ticket.
CanAccept(t, u) ==
    /\ AcceptTarget(t) # "none"
    /\ \/ u \in Managers
       \/ t.assignee \in {NoUser, u}
       \/ validateTicketTakeover(t)

\* Accept and Takeover.  An account that accepted the ticket already only
\* completes the ownership of its case.
Accept(u) ==
    /\ OwnershipPermitted(ticket, u)
    /\ LET owned == Owned(ticket, u)
       IN  IF AlreadyAccepted(ticket, u)
           THEN ~OwnershipRecorded(ticket, u) /\ Write(owned, <<>>)
           ELSE /\ CanAccept(ticket, u)
                /\ Write(owned, [status |-> AcceptTarget(ticket), assignee |-> u,
                                 accepted |-> TRUE, owner |-> owned.owner])

requireManualTicketAssignmentAuthority(t, by) == by \in Managers \/ t.assignee = by

\* Assign and Transfer.
Assign(by, u) ==
    /\ requireManualTicketAssignmentAuthority(ticket, by)
    /\ canAssignTicketCase(ticket)
    /\ ticket.assignee # u
    /\ OwnershipPermitted(ticket, u)
    /\ LET owned == Owned(ticket, u)
       IN  Write(owned, [status |-> AssignmentStatus(owned.status), assignee |-> u,
                         accepted |-> FALSE])

\* tryAssignTicketTx: automatic dispatch of a ticket without conversation.
Dispatch(u) ==
    /\ ~scope.linked /\ ticket.assignee = NoUser
    /\ ticket.status \in {"pending", "pending_dispatch", "reopened"}
    /\ Write(ticket, [status |-> "pending_assignee_accept", assignee |-> u, accepted |-> FALSE])

ToPool == [status |-> "pending_dispatch", assignee |-> NoUser, accepted |-> FALSE]

\* deferUndispatchableTicket: nobody can be found.
DeferDispatch ==
    /\ ticket.assignee = NoUser
    /\ ticket.status \in {"pending", "pending_dispatch", "reopened"}
    /\ Write(ticket, ToPool)

\* The assignee let the acceptance deadline or the assignment SLA pass.
recycleTicketAfterAcceptTimeout ==
    /\ ticket.assignee # NoUser /\ ~ticket.accepted
    /\ canAssignTicketCase(ticket)
    /\ Write(ticket, ToPool)

\* The assignee went off duty or left the team: only the status is looked at.
recycleTicketAfterAssigneeUnavailable ==
    /\ ticket.assignee # NoUser /\ ~ticket.accepted
    /\ Normalize(ticket.status) = "pending_assignee_accept"
    /\ Write(ticket, ToPool)

\* To the leader of the team, whatever his role, or to a manager.  A recorded
\* case owner stays.
ToSupervisor(t, u) ==
    [status |-> "pending_assignee_accept", assignee |-> u, accepted |-> FALSE]
    ++ (IF t.owner # NoUser THEN [owner |-> t.owner] ELSE <<>>)

EscalateToSupervisor(u) ==
    /\ ticket.assignee # u
    /\ canAssignTicketCase(ticket)
    /\ Write(ticket, ToSupervisor(ticket, u))

\* The last of several assignees in a row did not accept in time.
escalateTicketAfterRepeatedTimeout(u) ==
    /\ ticket.assignee \notin {NoUser, u} /\ ~ticket.accepted
    /\ canAssignTicketCase(ticket)
    /\ Write(ticket, ToSupervisor(ticket, u))

\* SyncConversationDispatchTx: the ticket follows its conversation, to another
\* engineer or back to the pool.
SyncConversationDispatch(u, sameTeam) ==
    /\ scope.linked
    /\ canAssignTicketStatus(ticket.status)
    /\ u # ticket.assignee => canAssignTicketCase(ticket)
    /\ ~(sameTeam /\ u = ticket.assignee
         /\ (u # NoUser \/ ticket.status = "pending_dispatch"))
    /\ Write(ticket,
             IF u = NoUser THEN ToPool
             ELSE IF u = ticket.assignee THEN [assignee |-> u]
             ELSE [status |-> AssignmentStatus(ticket.status), assignee |-> u,
                   accepted |-> FALSE])

\* Escalate.
Escalate(by) ==
    /\ CanEdit(ticket, by)
    /\ ticket.status \in {"accepted", "assigned", "waiting_customer"}
    /\ Write(ticket, [status |-> "escalated"])

----------------------------------------------------------------------------
(* Repair and supplier collaboration *)

\* A repair is not concluded while a meeting of the ticket is unfinished.
validateRepairCompletionReadiness(t) == ~t.meeting

\* CreateRepairRecord without a conclusion.
RecordRepair(by) ==
    /\ CanEdit(ticket, by)
    /\ ~ticket.repaired
    /\ Write(ticket, [repaired |-> TRUE])

\* resolveSupplierCollaborationsForRepairConclusionTx, seen from the ticket.
SuppliersConcluded == [supplier |-> FALSE]

\* CreateRepairRecord with MarkResolved.
MarkResolved(by) ==
    /\ CanEdit(ticket, by)
    /\ canAssignTicketStatus(ticket.status)
    /\ ticket.case \notin {"closed", "cancelled"}
    /\ ticket.status # "resolved"
    /\ canCompleteRepairFromStatus(ticket.status) \/ by \in Managers
    /\ validateRepairCompletionReadiness(ticket)
    /\ OwnershipPermitted(ticket, by)
    /\ Write(Owned(ticket, by), [status |-> "resolved", resolved |-> TRUE,
                                 repaired |-> TRUE] ++ SuppliersConcluded)

\* Invite, up to its transaction: the status is read without a lock.
InviteCheck(by) ==
    /\ Undisturbed
    /\ by \notin inviting
    /\ CanEdit(ticket, by)
    /\ Normalize(ticket.status) \in {"accepted", "processing", "supplier_support"}
    /\ inviting' = inviting \cup {by}
    /\ UNCHANGED <<ticket, scope, calls, receipts, fresh, refused>>

\* The transaction of Invite.  It locks the ticket and, unless the same
\* supplier is already at work, writes its status without a second look.
InviteApply(by) ==
    /\ by \in inviting
    /\ inviting' = inviting \ {by}
    /\ LET columns == [status |-> "supplier_support", supplier |-> TRUE]
       IN  \/ Permitted(ticket, columns) /\ Commit(Updated(ticket, columns))
          \/ /\ ticket.supplier \/ ~Permitted(ticket, columns)
             /\ UNCHANGED <<ticket, scope, fresh>>
    /\ UNCHANGED <<calls, receipts, refused>>

\* The last active collaboration ends, and with it the supplier's support.
LastSupplierLeaves ==
    /\ ticket.supplier
    /\ Write(ticket, [supplier |-> FALSE]
                     ++ (IF ticket.status = "supplier_support"
                         THEN [status |-> "processing"] ELSE <<>>))

\* Its authorization expires.
expireSupplierAuthorization == LastSupplierLeaves

\* Its supplier did not answer the invitation.
timeoutSupplierInvitation == LastSupplierLeaves

\* Its supplier, or staff, resolves it.  The unlocked read of the ticket's
\* status in this transaction is taken as part of the step.
ResolveCollaboration == LastSupplierLeaves

----------------------------------------------------------------------------
(* Meetings and child tickets, as far as the ticket shows them *)

\* CreateMeetingRoomForOperator and CreateMeetingRoomForWorkflow.  An unfinished
\* meeting is used again.
CreateMeetingRoom(by) ==
    LET s == Normalize(ticket.status)
    IN  /\ "meeting" \in Holds /\ ~ticket.meeting
        /\ \/ by \in Managers /\ s \notin {"closed", "cancelled"}
           \/ by = ticket.assignee /\ s \in {"accepted", "processing", "supplier_support"}
        /\ Write(ticket, [meeting |-> TRUE])

\* Staff or the meeting server end it, or it was left open too long.
EndMeeting == ticket.meeting /\ Write(ticket, [meeting |-> FALSE])

\* A child ticket is linked or reopened.
ChildOpens == "child" \in Holds /\ ~ticket.child /\ Write(ticket, [child |-> TRUE])

\* The last open child ticket is closed, cancelled or unlinked.
ChildrenEnd == ticket.child /\ Write(ticket, [child |-> FALSE])

----------------------------------------------------------------------------
(* Closing, cancelling and reopening, by command or by the old endpoints *)

\* closeCollaborationResources, as far as the ticket shows it.
CollaborationClosed == [supplier |-> FALSE, meeting |-> FALSE]

CloseColumns  == [status |-> "closed"] ++ CollaborationClosed
CancelColumns == [status |-> "cancelled", resolved |-> FALSE] ++ CollaborationClosed
ReopenColumns == [status |-> "reopened", assignee |-> NoUser, resolved |-> FALSE,
                  accepted |-> FALSE]

\* Mutants: any open case may be closed; only a pending closure may be.
requireTicketCaseCloseMissing(t) == t.case # "cancelled"
requireTicketCaseCloseNarrow(t) == t.case = "closure_pending" /\ t.resolved

requireTicketCaseClose(t) == t.case \in {"resolved", "closure_pending"} /\ t.resolved

CanCancel(t) ==
    t.case \in {"new", "acknowledged", "in_triage", "assigned", "waiting", "restored"}

CanReopen(t) ==
    /\ t.owner # NoUser \/ t.assignee # NoUser
    /\ t.case \in {"resolved", "closure_pending", "closed"}

\* Close for a customer, who needs no repair record; the automatic close and
\* the staff endpoint pass the same checks and one more.
Close ==
    /\ ticket.status # "closed"
    /\ requireTicketCaseClose(ticket)
    /\ Write(ticket, CloseColumns)

Cancel(by) ==
    /\ CanEdit(ticket, by)
    /\ ticket.status # "cancelled"
    /\ CanCancel(ticket)
    /\ Write(ticket, CancelColumns)

\* Reopen, by a customer or by staff.
Reopen ==
    /\ ticket.status # "reopened"
    /\ CanReopen(ticket)
    /\ Write(ticket, ReopenColumns)

----------------------------------------------------------------------------
(* Case commands *)

\* ticketCaseActiveTechnicalStatus.
ActiveTechnicalStatus(t) ==
    LET s == IF t.status = "waiting_customer" THEN t.resumeTech ELSE t.status
    IN  CASE s = "supplier_support" -> s
          [] s # "supplier_support" /\ t.assignee # NoUser /\ ~t.accepted ->
                "pending_assignee_accept"
          [] s \in {"accepted", "pending_dispatch", "reopened"} /\ t.assignee = NoUser -> s
          [] OTHER -> "processing"

\* The columns ExecuteTicketCaseCommand writes.
CommandColumns(t, action) ==
    LET moved == [case |-> Target(t, action), rev |-> t.rev + 1]
    IN  CASE action = "triage"  -> moved ++ [status |-> ActiveTechnicalStatus(t)]
          [] action = "wait"    -> moved ++ [status |-> "waiting_customer",
                                             resume |-> t.case, resumeTech |-> t.status]
          [] action = "resume"  -> moved ++ [status |-> ActiveTechnicalStatus(t)]
                                         ++ ResumeCleared
          [] action = "restore" -> moved
          [] action = "resolve" -> moved ++ [status |-> "resolved", resolved |-> TRUE,
                                             resolution |-> TRUE]
          [] action = "request_closure" -> moved ++ [status |-> "pending_customer_confirm"]
          [] action = "close"   -> CloseColumns
          [] action = "cancel"  -> CancelColumns
          [] action = "reopen"  -> ReopenColumns

\* The checks of each command's own handler.
Ready(t, action) ==
    CASE action = "resolve"         -> validateRepairCompletionReadiness(t) /\ ~scope.product
      [] action = "request_closure" -> t.resolved
      [] action = "close"           -> requireTicketCaseClose(t) /\ (t.repaired \/ t.resolution)
      [] action = "cancel"          -> CanCancel(t)
      [] action = "reopen"          -> CanReopen(t)
      [] OTHER                      -> TRUE

Succeeds(t, action) == Ready(t, action) /\ Permitted(t, CommandColumns(t, action))

\* Mutant: the receipt is looked up last.
OutcomeCheckingReceiptLast(call) ==
    IF ~CanEdit(ticket, call.by) THEN "forbidden"
    ELSE IF call.rev # ticket.rev \/ call.case # ticket.case THEN "conflict"
    ELSE IF receipts[call.key] # NoReceipt
         THEN IF receipts[call.key] = call THEN "replay" ELSE "conflict"
    ELSE IF call.action \notin Offered(ticket, call.by) THEN "refused"
    ELSE IF ~Succeeds(ticket, call.action) THEN "refused"
    ELSE "applied"

\* What a command is answered: access, receipt, revision, offer and handler
\* are checked in this order.
Outcome(call) ==
    IF ~CanEdit(ticket, call.by) THEN "forbidden"
    ELSE IF receipts[call.key] # NoReceipt
         THEN IF receipts[call.key] = call THEN "replay" ELSE "conflict"
    ELSE IF call.rev # ticket.rev \/ call.case # ticket.case THEN "conflict"
    ELSE IF call.action \notin Offered(ticket, call.by) THEN "refused"
    ELSE IF ~Succeeds(ticket, call.action) THEN "refused"
    ELSE "applied"

\* Somebody sends a command his screen offers.
Send(u, action, key) ==
    LET call == [key |-> key, by |-> u, action |-> action,
                 case |-> ticket.case, rev |-> ticket.rev]
    IN  /\ Undisturbed
        /\ Cardinality(calls) < MaxCalls
        /\ action \in Offered(ticket, u)
        /\ call \notin calls
        /\ calls' = calls \cup {call}
        /\ fresh' = fresh \cup {call}
        /\ UNCHANGED <<ticket, scope, inviting, receipts, refused>>

\* A command that is delivered at once and never again.  Its key is its own,
\* so its receipt is never read and is not kept.
Command(u, action) ==
    /\ action \in Offered(ticket, u)
    /\ Ready(ticket, action)
    /\ Write(ticket, CommandColumns(ticket, action))

\* ExecuteTicketCaseCommand: state and receipt change in one transaction.
Execute(call) ==
    LET outcome == Outcome(call)
    IN  /\ Undisturbed
        /\ IF outcome = "applied"
           THEN /\ Commit(Updated(ticket, CommandColumns(ticket, call.action)))
                /\ receipts' = [receipts EXCEPT ![call.key] = call]
           ELSE UNCHANGED <<ticket, scope, receipts, fresh>>
        /\ refused' = IF outcome = "conflict" THEN refused \cup {call} ELSE refused
        /\ UNCHANGED <<inviting, calls>>

----------------------------------------------------------------------------
Next ==
    \/ \E u \in Staff : Accept(u)
    \/ \E by \in Staff, u \in Engineers : Assign(by, u)
    \/ \E u \in Engineers : Dispatch(u)
    \/ DeferDispatch
    \/ recycleTicketAfterAcceptTimeout
    \/ recycleTicketAfterAssigneeUnavailable
    \/ \E u \in Staff : EscalateToSupervisor(u)
    \/ \E u \in Staff : escalateTicketAfterRepeatedTimeout(u)
    \/ \E u \in Engineers \cup {NoUser}, sameTeam \in BOOLEAN : SyncConversationDispatch(u, sameTeam)
    \/ \E by \in Staff : Escalate(by)
    \/ \E by \in Staff : RecordRepair(by)
    \/ \E by \in Staff : MarkResolved(by)
    \/ \E by \in Staff : InviteCheck(by)
    \/ \E by \in Staff : InviteApply(by)
    \/ expireSupplierAuthorization
    \/ timeoutSupplierInvitation
    \/ ResolveCollaboration
    \/ \E by \in Staff : CreateMeetingRoom(by)
    \/ EndMeeting
    \/ ChildOpens
    \/ ChildrenEnd
    \/ Close
    \/ \E by \in Staff : Cancel(by)
    \/ Reopen
    \/ \E u \in Staff, action \in Actions : Command(u, action)
    \/ \E u \in Staff, action \in Actions, key \in Keys : Send(u, action, key)
    \/ \E call \in calls : Execute(call)

Spec == Init /\ [][Next]_vars

----------------------------------------------------------------------------
(* Properties *)

\* The columns keep their types: in particular no path stores a status or a
\* case the tables do not know, and a command is recorded only under its key.
TypeOK ==
    /\ ticket \in Ticket
    /\ scope \in Scopes
    /\ inviting \subseteq Staff
    /\ calls \subseteq Call
    /\ receipts \in [Keys -> calls \cup {NoReceipt}]
    /\ \A k \in Keys : receipts[k] # NoReceipt => receipts[k].key = k
    /\ fresh \subseteq calls
    /\ refused \subseteq calls

\* A command takes effect only on the case its sender saw: not after the case
\* moved away, and not after it moved away and came back (technical operations
\* move it without writing the case status themselves).
StaleNeverApplied ==
    [][\A k \in Keys : receipts'[k] # receipts[k] => receipts'[k] \in fresh]_vars

\* A command answered with a conflict never takes effect later, whatever is
\* delivered again: its sender may safely refresh and decide anew.
ConflictIsFinal == \A call \in refused : receipts[call.key] # call

\* A command that was applied is answered from its receipt when it is sent
\* again, or forbidden to a sender who lost the ticket: never a conflict, and
\* never a second effect, whatever happened to the case in between.
RetryNeverConflicts ==
    \A call \in calls : receipts[call.key] = call => Outcome(call) \in {"replay", "forbidden"}

\* The lost answer of an applied command can always be fetched by sending the
\* command again.
RetryReturnsReceipt ==
    \A call \in calls : receipts[call.key] = call => Outcome(call) = "replay"

\* A case counts as resolved, pending closure or closed exactly while a
\* resolution time is recorded, and then evidence is recorded too: a repair
\* record or the resolution of a case command.
ResolutionRecorded ==
    /\ ticket.resolved <=> ticket.case \in {"resolved", "closure_pending", "closed"}
    /\ ticket.resolved => ticket.repaired \/ ticket.resolution

\* The saved step of a wait describes a running wait only: an acceptance, a
\* repair or a cancellation that ends the wait leaves nothing to resume.
ResumeOnlyWhileWaiting == ticket.resume # "none" => ticket.case = "waiting"

\* What holds back a step is not on the ticket: the unfinished meeting of a case
\* to be resolved, the open child ticket of one to be closed.
HeldBack(t, action) ==
    \/ action = "resolve" /\ t.meeting
    \/ action = "close" /\ t.child

\* Nothing on the ticket itself makes a step forward fail that its page offers,
\* when it is taken at once: closing needs what resolving recorded, whichever
\* way that happened.  The page offers to resolve a case in spite of its
\* unfinished meeting and to close it in spite of an open child ticket; these
\* are the only offers that fail.
OfferedStepsSucceed ==
    \A u \in Staff, a \in Actions \ {"cancel", "reopen"} :
        a \in Offered(ticket, u) => (Succeeds(ticket, a) <=> ~HeldBack(ticket, a))

\* A case the page offers to cancel can be cancelled.
OfferedCancelSucceeds ==
    \A u \in Staff : "cancel" \in Offered(ticket, u) => Succeeds(ticket, "cancel")

\* A case the page offers to reopen can be reopened.
OfferedReopenSucceeds ==
    \A u \in Staff : "reopen" \in Offered(ticket, u) => Succeeds(ticket, "reopen")

\* No case is stranded, whichever optional edges its workflow drops: a new
\* case can be accepted, and every other open case has a step towards closure
\* that a dispatch manager can take, once a meeting that is in the way was ended
\* (which the manager may do) and open child tickets were ended.
CaseCanAdvance ==
    LET can(u, a) == a \in Offered(ticket, u) /\ Succeeds(ticket, a)
        canMarkResolved(u) ==
            /\ ticket.status # "resolved"
            /\ validateRepairCompletionReadiness(ticket)
            /\ OwnershipPermitted(ticket, u)
            /\ Permitted(Owned(ticket, u), [status |-> "resolved", resolved |-> TRUE])
        canAccept(u) ==
            /\ AcceptTarget(ticket) # "none"
            /\ OwnershipPermitted(ticket, u)
            /\ Permitted(Owned(ticket, u), [status |-> AcceptTarget(ticket), assignee |-> u])
    IN  \A u \in Managers :
            /\ ticket.case = "new" => canAccept(u)
            /\ ticket.case = "acknowledged" => can(u, "triage")
            /\ ticket.case \in {"in_triage", "assigned"} => can(u, "restore")
            /\ ticket.case = "waiting" => can(u, "resume")
            /\ ticket.case = "restored" =>
                  ticket.meeting \/ can(u, "resolve") \/ canMarkResolved(u)
            /\ ticket.case = "resolved" => can(u, "request_closure")
            /\ ticket.case = "closure_pending" => ticket.child \/ can(u, "close")

\* A closed ticket only leaves that status by being reopened, and a cancelled
\* one never does.
TerminalStatusIsFinal ==
    [][/\ ticket.status = "closed" => ticket'.status \in {"closed", "reopened"}
       /\ ticket.status = "cancelled" => ticket'.status = "cancelled"]_vars

\* A case that tells its customer that an engineer is assigned has one.
AssignedHasAssignee == ticket.case = "assigned" => ticket.assignee # NoUser

\* Dispatch leaves a resolved case alone: it returns to the pool of tickets
\* to be assigned only after it was reopened.
ResolvedLeavesDispatch ==
    ticket.case \in {"resolved", "closure_pending"} => ticket.status # "pending_dispatch"

=============================================================================
