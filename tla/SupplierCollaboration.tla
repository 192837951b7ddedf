----------------------- MODULE SupplierCollaboration -----------------------
(***************************************************************************)
(* The supplier collaborations of one ticket, and the clock they pause.    *)
(*                                                                         *)
(* Transactions run at read committed: a read sees what others have        *)
(* committed and what the transaction itself has written.  Ending a        *)
(* collaboration locks its row, closes its wait, reads the other waits,    *)
(* reads the other collaborations and commits.  Those reads are steps of   *)
(* their own, because Resolve holds no lock on the ticket while it makes   *)
(* them; timeout and expiry lock the ticket first.                         *)
(*                                                                         *)
(* Deadlines are left open: an invitation may be overdue, and an           *)
(* authorization may have ended, at any time.                              *)
(*                                                                         *)
(* A supplier's company acts through one account.  Its participation in a  *)
(* collaboration is found by the collaboration's id.  Its authorization    *)
(* scopes hold that id in a JSON text and are found by LIKE, so that the   *)
(* id 1 also finds the scope of 12.  Rows stand for ids, and Prefix tells  *)
(* which ids begin with which.                                             *)
(***************************************************************************)
EXTENDS Naturals, Sequences, FiniteSets

CONSTANTS
    Targets,       \* pairs of product module and partner company
    Company,       \* the company of a target
    Prefix,        \* pairs of ids, the digits of the first beginning the second
    Clients,       \* transactions that may be open at the same time
    MaxRows,       \* bound: collaborations of the ticket
    MaxScopes      \* bound: authorization scopes of the ticket

ASSUME SupplierAssumption ==
    /\ MaxRows \in Nat /\ MaxScopes \in Nat
    /\ "none" \notin Targets \cup Clients
    /\ DOMAIN Company = Targets
    /\ \A c \in 1..MaxRows : <<c, c>> \in Prefix

VARIABLES
    ticket,        \* status, and whether daypop_clock_paused_at is set
    row,           \* ticket_supplier_collaborations with owner's membership and wait
    scopes,        \* partner_authorization_scopes: the id in the text, and the status
    tx,            \* the open transaction of a client
    ticketLock,    \* who has locked the ticket row
    rowLock        \* who has locked a collaboration

vars == <<ticket, row, scopes, tx, ticketLock, rowLock>>

----------------------------------------------------------------------------
Rows     == 1..MaxRows
Active   == {"invited", "processing"}
\* The outcomes of Resolve, timeoutSupplierInvitation, expireSupplierAuthorization.
Terminal == {"resolved", "timeout", "expired"}

\* The statuses in which Invite escalates; accepted and video_support count as
\* processing.
Escalatable == {"processing", "supplier_support"}

NoRow == [target |-> "none", status |-> "none", member |-> FALSE, wait |-> "none"]
Idle  == [op |-> "none", id |-> 0, pc |-> "free", target |-> "none",
          clear |-> FALSE, release |-> FALSE]

FindActive(t) == {c \in Rows : row[c].target = t /\ row[c].status \in Active}

ActiveRows == {c \in Rows : row[c].status \in Active}

\* FindActiveByTicket of the clock pauses.
OpenWaits == {c \in Rows : row[c].wait = "open"}

FreeFor(lock, p) == lock \in {"none", p}

Init ==
    /\ ticket = [status |-> "processing", paused |-> FALSE]
    /\ row = [c \in Rows |-> NoRow]
    /\ scopes = <<>>
    /\ tx = [p \in Clients |-> Idle]
    /\ ticketLock = "none"
    /\ rowLock = [c \in Rows |-> "none"]

----------------------------------------------------------------------------
(* Authorization scopes *)

SameAccount(c, d) ==
    /\ row[c].target # "none" /\ row[d].target # "none"
    /\ Company[row[c].target] = Company[row[d].target]

\* The scopes of the account that LIKE finds for a collaboration.
Matching(c) ==
    {i \in DOMAIN scopes : <<c, scopes[i].of>> \in Prefix /\ SameAccount(c, scopes[i].of)}

\* ensureSupplierAuthorizationScopeTx: the latest match is made the scope of this
\* collaboration, whichever it belonged to.
EnsureScope(c) ==
    LET mine == [of |-> c, on |-> TRUE]
    IN  \/ /\ Matching(c) = {}
           /\ Len(scopes) < MaxScopes
           /\ scopes' = Append(scopes, mine)
        \/ \E i \in Matching(c) :
              /\ \A j \in Matching(c) : j <= i
              /\ scopes' = [scopes EXCEPT ![i] = mine]

\* Mutant: DisableTicketAuthorizationScopes, all scopes of the account.
DisableScopesOfAccount(c) ==
    [i \in DOMAIN scopes |->
        [scopes[i] EXCEPT !.on = @ /\ ~SameAccount(c, scopes[i].of)]]

\* DisableCollaborationAuthorizationScopes.
DisableScopes(c) ==
    [i \in DOMAIN scopes |-> [scopes[i] EXCEPT !.on = @ /\ i \notin Matching(c)]]

DisableAllScopes == [i \in DOMAIN scopes |-> [scopes[i] EXCEPT !.on = FALSE]]

----------------------------------------------------------------------------
(* Invite *)

\* The ticket is read, and its status checked, outside of the transaction.
InviteCheck(p, t) ==
    /\ tx[p].pc = "free"
    /\ ticket.status \in Escalatable
    /\ tx' = [tx EXCEPT ![p] = [Idle EXCEPT !.op = "invite", !.target = t, !.pc = "checked"]]
    /\ UNCHANGED <<ticket, row, scopes, ticketLock, rowLock>>

\* Mutant: the search for an active collaboration does not wait for the lock.
InviteFindUnlocked(p) ==
    /\ tx[p].op = "invite" /\ tx[p].pc = "checked"
    /\ LET found == FindActive(tx[p].target)
           fresh == Cardinality({c \in Rows : row[c].status # "none"}) + 1
       IN  /\ found = {} => fresh \in Rows
           /\ tx' = [tx EXCEPT ![p].pc = "found",
                               ![p].id = IF found = {} THEN 0 ELSE CHOOSE c \in found : TRUE]
    /\ UNCHANGED <<ticket, row, scopes, ticketLock, rowLock>>

\* The transaction locks the ticket and looks for an active collaboration.
InviteFind(p) ==
    /\ tx[p].op = "invite" /\ tx[p].pc = "checked"
    /\ ticketLock = "none"
    /\ ticketLock' = p
    /\ LET found == FindActive(tx[p].target)
           fresh == Cardinality({c \in Rows : row[c].status # "none"}) + 1
       IN  /\ found = {} => fresh \in Rows
           /\ tx' = [tx EXCEPT ![p].pc = "found",
                               ![p].id = IF found = {} THEN 0 ELSE CHOOSE c \in found : TRUE]
    /\ UNCHANGED <<ticket, row, scopes, rowLock>>

\* Nothing active: a new collaboration, its scope, its wait; the ticket moves.
InviteCreate(p) ==
    /\ tx[p].op = "invite" /\ tx[p].pc = "found" /\ tx[p].id = 0
    /\ FreeFor(ticketLock, p)
    /\ LET c == Cardinality({d \in Rows : row[d].status # "none"}) + 1
       IN  /\ c \in Rows
           /\ row' = [row EXCEPT ![c] = [target |-> tx[p].target, status |-> "invited",
                                         member |-> TRUE, wait |-> "open"]]
           /\ Len(scopes) < MaxScopes
           /\ scopes' = Append(scopes, [of |-> c, on |-> TRUE])
    /\ ticket' = [status |-> "supplier_support", paused |-> TRUE]
    /\ tx' = [tx EXCEPT ![p] = Idle]
    /\ ticketLock' = "none"
    /\ UNCHANGED rowLock

\* The invitation is repeated: scope and membership are renewed, and OpenSupplierWaitTx
\* inserts a wait, which does nothing if there is one, and pauses the clock.
InviteRefresh(p) ==
    LET c == tx[p].id
    IN  /\ tx[p].op = "invite" /\ tx[p].pc = "found" /\ c # 0
        /\ FreeFor(ticketLock, p) /\ rowLock[c] = "none"
        /\ EnsureScope(c)
        /\ row' = [row EXCEPT ![c].member = TRUE,
                              ![c].wait = IF @ = "none" THEN "open" ELSE @]
        /\ ticket' = [ticket EXCEPT !.paused = TRUE]
        /\ tx' = [tx EXCEPT ![p] = Idle]
        /\ ticketLock' = "none"
        /\ UNCHANGED rowLock

----------------------------------------------------------------------------
(* The supplier *)

\* Accept: one row, locked; repeating it renews the participation.
Accept(c) ==
    /\ rowLock[c] = "none"
    /\ row[c].status \in Active
    /\ EnsureScope(c)
    /\ row' = [row EXCEPT ![c].status = "processing", ![c].member = TRUE]
    /\ UNCHANGED <<ticket, tx, ticketLock, rowLock>>

\* Assign, AddParticipant and the supplier's messages check the collaboration
\* first...
RenewCheck(p, c) ==
    /\ tx[p].pc = "free"
    /\ row[c].status \in Active
    /\ tx' = [tx EXCEPT ![p] = [Idle EXCEPT !.op = "renew", !.id = c, !.pc = "checked"]]
    /\ UNCHANGED <<ticket, row, scopes, ticketLock, rowLock>>

\* ... and write scope and membership without looking at it again.
Renew(p) ==
    /\ tx[p].op = "renew"
    /\ EnsureScope(tx[p].id)
    /\ row' = [row EXCEPT ![tx[p].id].member = TRUE]
    /\ tx' = [tx EXCEPT ![p] = Idle]
    /\ UNCHANGED <<ticket, ticketLock, rowLock>>

----------------------------------------------------------------------------
(* Resolve, timeoutSupplierInvitation, expireSupplierAuthorization *)

\* Mutant: what the sweep has listed is ended without a second look.
MayEndListed(c, outcome) == row[c].status # "none"

\* What is checked once the row is locked.
MayEnd(c, outcome) == row[c].status \in IF outcome = "timeout" THEN {"invited"} ELSE Active

\* The row is locked and checked; timeout and expiry lock the ticket as well.
BeginEnd(p, c, outcome) ==
    /\ tx[p].pc = "free"
    /\ rowLock[c] = "none"
    /\ MayEnd(c, outcome)
    /\ rowLock' = [rowLock EXCEPT ![c] = p]
    /\ tx' = [tx EXCEPT ![p] = [Idle EXCEPT !.op = outcome, !.id = c, !.pc = "locked"]]
    /\ UNCHANGED <<ticket, row, scopes, ticketLock>>

\* CloseSupplierWaitTx: the wait is closed; the clock is to run again if no
\* other wait is open.
CloseSupplierWait(p) ==
    /\ tx[p].op \in Terminal /\ tx[p].pc = "locked"
    /\ IF tx[p].op = "resolved" THEN UNCHANGED ticketLock
       ELSE ticketLock = "none" /\ ticketLock' = p
    /\ tx' = [tx EXCEPT ![p].pc = "closed",
                        ![p].clear = ticket.paused /\ OpenWaits \subseteq {tx[p].id}]
    /\ UNCHANGED <<ticket, row, scopes, rowLock>>

\* clearTicketPauseDB has locked the ticket, if there was something to clear.
\* CountActiveByTicket, and the status of the ticket.
CountActive(p) ==
    /\ tx[p].op \in Terminal /\ tx[p].pc = "closed"
    /\ IF tx[p].clear THEN FreeFor(ticketLock, p) /\ ticketLock' = p
       ELSE UNCHANGED ticketLock
    /\ tx' = [tx EXCEPT ![p].pc = "counted",
                        ![p].release = /\ ActiveRows \subseteq {tx[p].id}
                                       /\ ticket.status = "supplier_support"]
    /\ UNCHANGED <<ticket, row, scopes, rowLock>>

\* The commit.  Scopes are disabled for the participants: those of the
\* collaboration that are active, for an expired one all of them.
CommitEnd(p) ==
    LET t == tx[p]
    IN  /\ t.op \in Terminal /\ t.pc = "counted"
        /\ t.release => FreeFor(ticketLock, p)
        /\ row' = [row EXCEPT ![t.id].status = t.op,
                              ![t.id].member = FALSE,
                              ![t.id].wait = IF @ = "open" THEN "ended" ELSE @]
        /\ scopes' = IF row[t.id].member \/ t.op = "expired" THEN DisableScopes(t.id)
                     ELSE scopes
        /\ ticket' = [status |-> IF t.release THEN "processing" ELSE ticket.status,
                      paused |-> ticket.paused /\ ~t.clear]
        /\ tx' = [tx EXCEPT ![p] = Idle]
        /\ ticketLock' = IF ticketLock = p THEN "none" ELSE ticketLock
        /\ rowLock' = [rowLock EXCEPT ![t.id] = "none"]

----------------------------------------------------------------------------
(* The ticket; who may do this, and in which case state, is TicketCase's subject *)

\* The locked ticket and, through the UPDATE, all active rows.
LocksFree == ticketLock = "none" /\ \A c \in ActiveRows : rowLock[c] = "none"

\* Mutant: the collaborations get the status of the ticket.
AllClosed ==
    [c \in Rows |-> [row[c] EXCEPT !.status = IF @ \in Active THEN "closed" ELSE @,
                                   !.member = FALSE]]

\* ResolveActiveByTicket and DisableParticipantsByTicket.
AllResolved ==
    [c \in Rows |-> [row[c] EXCEPT !.status = IF @ \in Active THEN "resolved" ELSE @,
                                   !.member = FALSE]]

\* CreateRepairRecord with MarkResolved: the collaborations end, their waits stay.
\* Without an active collaboration it touches neither rows nor scopes.
RepairConclusion ==
    /\ LocksFree
    /\ ticket.status \in Escalatable
    /\ IF ActiveRows = {} THEN UNCHANGED <<row, scopes>>
       ELSE row' = AllResolved /\ scopes' = DisableAllScopes
    /\ ticket' = [ticket EXCEPT !.status = "resolved"]
    /\ UNCHANGED <<tx, ticketLock, rowLock>>

\* Close and Cancel: closeCollaborationResources ends the waits too.
CloseTicket ==
    /\ LocksFree
    /\ ticket.status # "closed"
    /\ row' = [c \in Rows |-> [AllResolved[c] EXCEPT !.wait = IF @ = "open" THEN "ended" ELSE @]]
    /\ scopes' = DisableAllScopes
    /\ ticket' = [status |-> "closed", paused |-> FALSE]
    /\ UNCHANGED <<tx, ticketLock, rowLock>>

\* Reopen, up to the engineer who takes the ticket again.
ReopenTicket ==
    /\ ticketLock = "none"
    /\ ticket.status \in {"resolved", "closed"}
    /\ ticket' = [ticket EXCEPT !.status = "processing"]
    /\ UNCHANGED <<row, scopes, tx, ticketLock, rowLock>>

----------------------------------------------------------------------------
Next ==
    \/ \E p \in Clients, t \in Targets : InviteCheck(p, t)
    \/ \E p \in Clients :
          \/ InviteFind(p) \/ InviteCreate(p) \/ InviteRefresh(p)
          \/ Renew(p)
          \/ CloseSupplierWait(p) \/ CountActive(p) \/ CommitEnd(p)
    \/ \E c \in Rows : Accept(c)
    \/ \E p \in Clients, c \in Rows :
          \/ RenewCheck(p, c)
          \/ \E outcome \in Terminal : BeginEnd(p, c, outcome)
    \/ RepairConclusion \/ CloseTicket \/ ReopenTicket

Spec == Init /\ [][Next]_vars

----------------------------------------------------------------------------
(* Properties *)

\* Ticket, rows, scopes and transactions keep their types.
TypeOK ==
    /\ ticket \in [status : Escalatable \cup {"resolved", "closed"}, paused : BOOLEAN]
    /\ row \in [Rows -> [target : Targets \cup {"none"}, member : BOOLEAN,
                         status : {"none"} \cup Active \cup Terminal,
                         wait : {"none", "open", "ended"}]]
    /\ scopes \in Seq([of : Rows, on : BOOLEAN])
    /\ tx \in [Clients -> [op : {"none", "invite", "renew"} \cup Terminal, id : 0..MaxRows,
                           pc : {"free", "checked", "found", "locked", "closed", "counted"},
                           target : Targets \cup {"none"},
                           clear : BOOLEAN, release : BOOLEAN]]
    /\ ticketLock \in Clients \cup {"none"}
    /\ rowLock \in [Rows -> Clients \cup {"none"}]

\* However invitations overlap, a supplier has at most one active collaboration
\* for a module of the ticket.
OneActivePerSupplier == \A t \in Targets : Cardinality(FindActive(t)) <= 1

\* An authorization scope of the collaboration is valid.
Authorized(c) == \E i \in DOMAIN scopes : scopes[i] = [of |-> c, on |-> TRUE]

\* No other collaboration of the same account has an id that begins with this
\* one's, or begins this one's.
Apart(c) ==
    \A d \in Rows \ {c} : SameAccount(c, d) => <<c, d>> \notin Prefix /\ <<d, c>> \notin Prefix

\* While a collaboration is active its supplier is a participant, its wait is
\* open, and, if its id is not mixed up with another, its scope is valid,
\* whatever happens to the other collaborations of the ticket.
ServedWhileActive ==
    \A c \in ActiveRows :
        /\ row[c].member /\ row[c].wait = "open"
        /\ Apart(c) => Authorized(c)

\* While a collaboration is active its authorization scope is valid.
AuthorizedWhileActive == \A c \in ActiveRows : Authorized(c)

\* A collaboration ends once: what a supplier has resolved does not become a
\* timeout, and no overlapping invitation or acceptance brings it back.
EndedIsFinal ==
    [][\A c \in Rows : row[c].status \in Terminal => row'[c].status = row[c].status]_vars

\* The clock runs again when the last wait has ended.
ClockResumes == OpenWaits = {} => ~ticket.paused

============================================================================
