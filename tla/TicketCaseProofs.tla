-------------------------- MODULE TicketCaseProofs --------------------------
(***************************************************************************)
(* What holds of a ticket for any staff, any kinds of ticket, any workflow *)
(* Validate accepts, any number of commands and any bounds.                *)
(*                                                                         *)
(* The first part says what a write does to a row: SyncTicketCaseColumns   *)
(* completes a write that touches the status or the assignee, and leaves   *)
(* every other write alone.  The second part follows the row through every *)
(* action, the third the commands and their receipts.                      *)
(***************************************************************************)
EXTENDS TicketCase, TLAPS

----------------------------------------------------------------------------
(* What a write does to a row *)

Columns ==
    {"status", "case", "rev", "assignee", "owner", "acknowledged", "accepted",
     "resolved", "resolution", "resume", "resumeTech", "repaired", "supplier", "meeting",
     "child"}

\* The columns technical operations write.
Technical == {"status", "assignee", "accepted", "owner", "resolved"}
             \cup {"repaired", "supplier", "meeting", "child"}

\* Column c of row t after the write w, if nothing is derived.
Val(t, w, c) == IF c \in DOMAIN w THEN w[c] ELSE t[c]

\* The case a technical write leads to.
NextCase(t, w) ==
    Projected(t, Val(t, w, "status"), Val(t, w, "assignee"),
              t.resolved \/ ("resolved" \in DOMAIN w /\ w.resolved))

LEMMA TicketColumns == ASSUME NEW t \in Ticket PROVE DOMAIN t = Columns
  BY DEF Ticket, Columns

\* A row is a function on the columns with the right values.
LEMMA RowIsTicket ==
    ASSUME NEW u, u = [c \in Columns |-> u[c]],
           u.status \in Statuses, u.case \in CaseStates, u.rev \in Nat,
           u.assignee \in Staff \cup {NoUser}, u.owner \in Staff \cup {NoUser},
           u.acknowledged \in BOOLEAN, u.accepted \in BOOLEAN, u.resolved \in BOOLEAN,
           u.resolution \in BOOLEAN, u.repaired \in BOOLEAN, u.supplier \in BOOLEAN,
           u.meeting \in BOOLEAN, u.child \in BOOLEAN,
           u.resume \in CaseStates \cup {"none"}, u.resumeTech \in Statuses \cup {"none"}
    PROVE  u \in Ticket
  BY DEF Ticket, Columns

\* A write over a row is a row, and its columns win.
LEMMA OverRow ==
    ASSUME NEW t \in Ticket, NEW w, DOMAIN w \subseteq Columns
    PROVE  /\ w ++ t = [c \in Columns |-> (w ++ t)[c]]
           /\ \A c \in Columns : (w ++ t)[c] = Val(t, w, c)
  BY TicketColumns DEF ++, Val

\* A write that names the case, or neither status nor assignee, is not completed.
LEMMA PlainWrite ==
    ASSUME NEW t \in Ticket, NEW w, DOMAIN w \subseteq Columns,
           "case" \in DOMAIN w \/ ("status" \notin DOMAIN w /\ "assignee" \notin DOMAIN w)
    PROVE  /\ Updated(t, w) = [c \in Columns |-> Updated(t, w)[c]]
           /\ \A c \in Columns : Updated(t, w)[c] = Val(t, w, c)
  <1>1. Sync(t, w) = w
    BY DEF Sync, SyncWith
  <1> QED BY <1>1, OverRow DEF Updated

\* Row u is row t after the write w and the columns SyncTicketCaseColumns
\* derives from it.
Completed(t, w, u) ==
    LET next    == NextCase(t, w)
        cleared == u.status = "reopened" \/ (next # t.case /\ t.case = "waiting")
    IN  /\ u = [c \in Columns |-> u[c]]
        /\ \A c \in (Technical \ {"owner"}) \cup {"acknowledged"} : u[c] = Val(t, w, c)
        /\ u.case = next
        /\ u.rev = IF next = t.case THEN t.rev ELSE t.rev + 1
        /\ u.owner = IF "assignee" \in DOMAIN w /\ "owner" \notin DOMAIN w
                     THEN w.assignee ELSE Val(t, w, "owner")
        /\ u.resolution = IF u.status = "reopened" THEN FALSE ELSE t.resolution
        /\ u.resume = IF cleared THEN "none" ELSE t.resume
        /\ u.resumeTech = IF cleared THEN "none" ELSE t.resumeTech

LEMMA CompletedWrite ==
    ASSUME NEW t \in Ticket, NEW w, DOMAIN w \subseteq Technical,
           "status" \in DOMAIN w \/ "assignee" \in DOMAIN w
    PROVE  Completed(t, w, Updated(t, w))
  <1> DEFINE next   == NextCase(t, w)
             status == Val(t, w, "status")
             owns   == "assignee" \in DOMAIN w /\ "owner" \notin DOMAIN w
             ends   == next # t.case /\ t.case = "waiting"
             reopened == IF status = "reopened"
                         THEN [resolution |-> FALSE] ++ ResumeCleared ELSE <<>>
             owner    == IF owns THEN [owner |-> w.assignee] ELSE <<>>
             changed  == IF next = t.case THEN <<>>
                         ELSE [case |-> next, rev |-> t.rev + 1]
                              ++ (IF t.case = "waiting" THEN ResumeCleared ELSE <<>>)
  <1>1. Updated(t, w) = (changed ++ owner ++ reopened ++ w) ++ t
    BY DEF Updated, Sync, SyncWith, NextCase, Val, Technical
  <1>2. /\ DOMAIN reopened = IF status = "reopened" THEN {"resolution", "resume", "resumeTech"}
                             ELSE {}
        /\ status = "reopened" => /\ reopened.resolution = FALSE
                                  /\ reopened.resume = "none" /\ reopened.resumeTech = "none"
    BY DEF ++, ResumeCleared
  <1>3. /\ DOMAIN owner = IF owns THEN {"owner"} ELSE {}
        /\ owns => owner.owner = w.assignee
    OBVIOUS
  <1>4. /\ DOMAIN changed = IF next = t.case THEN {}
                            ELSE {"case", "rev"} \cup
                                 (IF t.case = "waiting" THEN {"resume", "resumeTech"} ELSE {})
        /\ next # t.case => changed.case = next /\ changed.rev = t.rev + 1
        /\ ends => changed.resume = "none" /\ changed.resumeTech = "none"
    BY DEF ++, ResumeCleared
  <1>5. DOMAIN t = Columns
    BY TicketColumns
  <1> HIDE DEF reopened, owner, changed, next, status, owns
  <1> DEFINE u == (changed ++ owner ++ reopened ++ w) ++ t
  <1>6. /\ DOMAIN u = Columns
        /\ \A c \in Columns : u[c] = IF c \in DOMAIN changed THEN changed[c]
                                     ELSE IF c \in DOMAIN owner THEN owner[c]
                                     ELSE IF c \in DOMAIN reopened THEN reopened[c]
                                     ELSE Val(t, w, c)
    <2>1. /\ DOMAIN changed \subseteq Columns /\ DOMAIN owner \subseteq Columns
          /\ DOMAIN reopened \subseteq Columns /\ DOMAIN w \subseteq Columns
      BY <1>2, <1>3, <1>4 DEF Technical, Columns
    <2> QED BY <1>5, <2>1 DEF ++, Val
  <1>7. u = [c \in Columns |-> u[c]]
    BY <1>6 DEF ++
  <1> HIDE DEF u
  <1>8. \A c \in (Technical \ {"owner"}) \cup {"acknowledged"} : u[c] = Val(t, w, c)
    BY <1>2, <1>3, <1>4, <1>6 DEF Columns, Technical
  <1>9. u.status = status
    BY <1>8 DEF status, Technical
  <1>10. /\ u.case = next
         /\ u.rev = IF next = t.case THEN t.rev ELSE t.rev + 1
    BY <1>2, <1>3, <1>4, <1>6 DEF Columns, Technical, Val
  <1>11. u.owner = IF owns THEN w.assignee ELSE Val(t, w, "owner")
    BY <1>2, <1>3, <1>4, <1>6 DEF Columns
  <1>12. u.resolution = IF status = "reopened" THEN FALSE ELSE t.resolution
    <2>1. "resolution" \notin DOMAIN changed \cup DOMAIN owner
      BY <1>3, <1>4
    <2>2. Val(t, w, "resolution") = t.resolution
      BY DEF Val, Technical
    <2>3. u.resolution = IF "resolution" \in DOMAIN reopened THEN reopened.resolution
                         ELSE t.resolution
      BY <1>6, <2>1, <2>2 DEF Columns
    <2>4. CASE status = "reopened"
      BY <1>2, <2>3, <2>4
    <2>5. CASE status # "reopened"
      BY <1>2, <2>3, <2>5
    <2> QED BY <2>4, <2>5
  <1>13. u.resume = IF status = "reopened" \/ ends THEN "none" ELSE t.resume
    BY <1>2, <1>3, <1>4, <1>6 DEF Columns, Technical, Val
  <1>14. u.resumeTech = IF status = "reopened" \/ ends THEN "none" ELSE t.resumeTech
    BY <1>2, <1>3, <1>4, <1>6 DEF Columns, Technical, Val
  <1>15. Updated(t, w) = u
    BY <1>1 DEF u
  <1> QED BY <1>7, <1>8, <1>9, <1>10, <1>11, <1>12, <1>13, <1>14, <1>15
     DEF next, owns, Completed

----------------------------------------------------------------------------
(* Rows: types, revisions and the agreement of the two states *)

\* Who changes the case changes the revision, and no write takes it back.
Advances(t, u) == u.rev >= t.rev /\ (u.case # t.case => u.rev > t.rev)

\* The columns of a technical write have their types.
TypedWrite(w) ==
    /\ DOMAIN w \subseteq Technical
    /\ "status" \in DOMAIN w => w.status \in Statuses
    /\ \A c \in {"assignee", "owner"} \cap DOMAIN w : w[c] \in Staff \cup {NoUser}
    /\ \A c \in {"accepted", "resolved", "repaired", "supplier", "meeting", "child"} \cap DOMAIN w :
          w[c] \in BOOLEAN

\* The statuses that stand for a case of their own.
Marks == {"waiting_customer", "resolved", "pending_customer_confirm", "closed", "cancelled",
          "reopened"}

\* ResolutionRecorded and ResumeOnlyWhileWaiting of a row, and the case that
\* belongs to each mark.
RowOK(t) ==
    /\ t.resolved <=> t.case \in {"resolved", "closure_pending", "closed"}
    /\ t.resolved => t.repaired \/ t.resolution
    /\ t.resume # "none" => t.case = "waiting"
    /\ t.status = "waiting_customer" => t.case = "waiting"
    /\ t.status = "resolved" => t.case = "resolved"
    /\ t.status = "pending_customer_confirm" => t.case = "closure_pending"
    /\ t.status = "closed" => t.case = "closed"
    /\ t.status = "cancelled" => t.case = "cancelled"
    /\ t.status = "reopened" => ~t.resolved

LEMMA ProjectedType ==
    ASSUME NEW t \in Ticket, NEW status, NEW assignee, NEW resolvedAt
    PROVE  Projected(t, status, assignee, resolvedAt) \in CaseStates
  <1>1. t.case \in CaseStates
    BY DEF Ticket
  <1> QED BY <1>1 DEF Projected, CaseStates

\* A technical write keeps the types and moves the revision with the case.
LEMMA TechnicalWrite ==
    ASSUME NEW t \in Ticket, NEW w, TypedWrite(w)
    PROVE  Updated(t, w) \in Ticket /\ Advances(t, Updated(t, w))
  <1> DEFINE u == Updated(t, w)
  <1>1. /\ t.status \in Statuses /\ t.case \in CaseStates /\ t.rev \in Nat
        /\ t.assignee \in Staff \cup {NoUser} /\ t.owner \in Staff \cup {NoUser}
        /\ t.acknowledged \in BOOLEAN /\ t.accepted \in BOOLEAN /\ t.resolved \in BOOLEAN
        /\ t.resolution \in BOOLEAN /\ t.repaired \in BOOLEAN /\ t.supplier \in BOOLEAN
        /\ t.meeting \in BOOLEAN /\ t.child \in BOOLEAN
        /\ t.resume \in CaseStates \cup {"none"} /\ t.resumeTech \in Statuses \cup {"none"}
    BY DEF Ticket
  <1>2. /\ Val(t, w, "status") \in Statuses
        /\ Val(t, w, "assignee") \in Staff \cup {NoUser}
        /\ Val(t, w, "owner") \in Staff \cup {NoUser}
    BY <1>1 DEF Val, TypedWrite
  <1>3. \A c \in {"accepted", "resolved", "repaired", "supplier", "meeting", "child"} :
            Val(t, w, c) \in BOOLEAN
    BY <1>1 DEF Val, TypedWrite
  <1>4. CASE "status" \in DOMAIN w \/ "assignee" \in DOMAIN w
    <2> USE <1>4
    <2>1. DOMAIN w \subseteq Technical
      BY DEF TypedWrite
    <2>a. Completed(t, w, u)
      BY <2>1, CompletedWrite
    <2> HIDE DEF u
    <2>b. u.owner \in {Val(t, w, "assignee"), Val(t, w, "owner")}
      BY <2>a DEF Val, Completed
    <2>2. /\ u = [c \in Columns |-> u[c]]
          /\ \A c \in (Technical \ {"owner"}) \cup {"acknowledged"} : u[c] = Val(t, w, c)
          /\ u.case = NextCase(t, w)
          /\ u.rev = IF u.case = t.case THEN t.rev ELSE t.rev + 1
          /\ u.resolution \in {FALSE, t.resolution}
          /\ u.resume \in {"none", t.resume}
          /\ u.resumeTech \in {"none", t.resumeTech}
      BY <2>a DEF Completed
    <2>3. u.case \in CaseStates
      BY <2>2, ProjectedType DEF NextCase
    <2>4. u.acknowledged = t.acknowledged
      BY <2>1, <2>2 DEF Val, Technical
    <2>5. /\ u.status \in Statuses
          /\ u.assignee \in Staff \cup {NoUser}
          /\ u.accepted \in BOOLEAN /\ u.resolved \in BOOLEAN
          /\ u.repaired \in BOOLEAN /\ u.supplier \in BOOLEAN
          /\ u.meeting \in BOOLEAN /\ u.child \in BOOLEAN
      BY <1>2, <1>3, <2>2 DEF Technical
    <2>6. /\ u.owner \in Staff \cup {NoUser} /\ u.rev \in Nat
          /\ u.resume \in CaseStates \cup {"none"} /\ u.resumeTech \in Statuses \cup {"none"}
      BY <1>1, <1>2, <2>2, <2>b
    <2>7. u.resolution \in BOOLEAN /\ u.acknowledged \in BOOLEAN
      BY <1>1, <2>2, <2>4
    <2>8. u \in Ticket
      BY <2>2, <2>3, <2>5, <2>6, <2>7, RowIsTicket
    <2>9. Advances(t, u)
      BY <1>1, <2>2 DEF Advances
    <2> QED BY <2>8, <2>9 DEF u
  <1>5. CASE ~("status" \in DOMAIN w \/ "assignee" \in DOMAIN w)
    <2> USE <1>5
    <2>1. DOMAIN w \subseteq Technical
      BY DEF TypedWrite
    <2>2. DOMAIN w \subseteq Columns
      BY <2>1 DEF Technical, Columns
    <2>3. u = [c \in Columns |-> u[c]] /\ \A c \in Columns : u[c] = Val(t, w, c)
      BY <2>2, PlainWrite
    <2> HIDE DEF u
    <2>4. \A c \in Columns \ Technical : u[c] = t[c]
      BY <2>1, <2>3 DEF Val
    <2>5. /\ u.case = t.case /\ u.rev = t.rev /\ u.acknowledged = t.acknowledged
          /\ u.resolution = t.resolution /\ u.resume = t.resume /\ u.resumeTech = t.resumeTech
      BY <2>4 DEF Columns, Technical
    <2>6. /\ u.status \in Statuses
          /\ u.assignee \in Staff \cup {NoUser} /\ u.owner \in Staff \cup {NoUser}
      BY <1>2, <2>3 DEF Columns
    <2>7. /\ u.accepted \in BOOLEAN /\ u.resolved \in BOOLEAN
          /\ u.repaired \in BOOLEAN /\ u.supplier \in BOOLEAN
          /\ u.meeting \in BOOLEAN /\ u.child \in BOOLEAN
      BY <1>3, <2>3 DEF Columns
    <2>8. u \in Ticket
      BY <1>1, <2>3, <2>5, <2>6, <2>7, RowIsTicket
    <2>9. Advances(t, u)
      BY <1>1, <2>5 DEF Advances
    <2> QED BY <2>8, <2>9 DEF u
  <1> QED BY <1>4, <1>5

\* What a completed write leaves in the columns RowOK reads.
Follows(t, w, u) ==
    /\ u.status = Val(t, w, "status") /\ u.assignee = Val(t, w, "assignee")
    /\ u.resolved = Val(t, w, "resolved") /\ u.repaired = Val(t, w, "repaired")
    /\ u.case = Projected(t, u.status, u.assignee,
                          t.resolved \/ ("resolved" \in DOMAIN w /\ w.resolved))
    /\ u.resolution = IF u.status = "reopened" THEN FALSE ELSE t.resolution
    /\ u.resume = IF u.status = "reopened" \/ (u.case # t.case /\ t.case = "waiting")
                  THEN "none" ELSE t.resume

LEMMA CompletedRow ==
    ASSUME NEW t \in Ticket, NEW w, TypedWrite(w),
           "status" \in DOMAIN w \/ "assignee" \in DOMAIN w
    PROVE  Follows(t, w, Updated(t, w))
  <1> DEFINE u == Updated(t, w)
  <1>1. Completed(t, w, u)
    BY CompletedWrite DEF TypedWrite
  <1> HIDE DEF u
  <1>2. /\ u.status = Val(t, w, "status") /\ u.assignee = Val(t, w, "assignee")
        /\ u.resolved = Val(t, w, "resolved") /\ u.repaired = Val(t, w, "repaired")
    BY <1>1 DEF Completed, Technical
  <1>3. u.case = NextCase(t, w)
    BY <1>1 DEF Completed
  <1>4. /\ u.resolution = IF u.status = "reopened" THEN FALSE ELSE t.resolution
        /\ u.resume = IF u.status = "reopened" \/ (u.case # t.case /\ t.case = "waiting")
                      THEN "none" ELSE t.resume
    BY <1>1, <1>3 DEF Completed
  <1> QED BY <1>2, <1>3, <1>4 DEF u, NextCase, Follows

\* A write of a status that is no mark leaves the resolution of a case alone.
LEMMA OrdinaryWrite ==
    ASSUME NEW t \in Ticket, RowOK(t), NEW w, TypedWrite(w),
           "resolved" \notin DOMAIN w, "repaired" \notin DOMAIN w,
           "status" \in DOMAIN w, w.status \notin Marks
    PROVE  /\ RowOK(Updated(t, w))
           /\ Updated(t, w).case = "new" => t.case = "new"
           /\ Updated(t, w).status = w.status
           /\ Updated(t, w).assignee = Val(t, w, "assignee")
  <1> DEFINE u == Updated(t, w)
  <1>0. Follows(t, w, u)
    BY CompletedRow
  <1> HIDE DEF u
  <1>1. /\ u.status = w.status /\ u.assignee = Val(t, w, "assignee")
        /\ u.resolved = t.resolved /\ u.repaired = t.repaired
        /\ u.case = Projected(t, u.status, u.assignee,
                              t.resolved \/ ("resolved" \in DOMAIN w /\ w.resolved))
        /\ u.resolution = IF u.status = "reopened" THEN FALSE ELSE t.resolution
        /\ u.resume = IF u.status = "reopened" \/ (u.case # t.case /\ t.case = "waiting")
                      THEN "none" ELSE t.resume
    BY <1>0 DEF Follows, Val
  <1>2. u.status \notin Marks
    BY <1>1
  <1>3. u.case = IF t.case \notin {"acknowledged", "in_triage", "assigned"} THEN t.case
                 ELSE IF u.assignee # NoUser THEN "assigned"
                 ELSE IF t.case = "assigned" THEN "in_triage" ELSE t.case
    BY <1>1, <1>2 DEF Projected, Marks
  <1>4. u.resolution = t.resolution
    BY <1>1, <1>2 DEF Marks
  <1>5. RowOK(u)
    BY <1>1, <1>2, <1>3, <1>4 DEF RowOK, Marks
  <1> QED BY <1>1, <1>3, <1>5 DEF u

\* A write of the same assignee derives nothing new from the kept status.
LEMMA AssigneeWrite ==
    ASSUME NEW t \in Ticket, RowOK(t), NEW a \in Staff \cup {NoUser}
    PROVE  LET u == Updated(t, [assignee |-> a])
           IN  /\ RowOK(u)
               /\ u.case = "new" => t.case = "new"
               /\ u.status = t.status /\ u.assignee = a
  <1> DEFINE w == [assignee |-> a]
             u == Updated(t, w)
  <1>1. TypedWrite(w)
    BY DEF TypedWrite, Technical
  <1>2. DOMAIN w = {"assignee"} /\ w.assignee = a
    OBVIOUS
  <1> HIDE DEF w
  <1>3. /\ u.status = t.status /\ u.assignee = a
        /\ u.resolved = t.resolved /\ u.repaired = t.repaired
        /\ u.case = Projected(t, t.status, a, t.resolved)
        /\ u.resolution = IF u.status = "reopened" THEN FALSE ELSE t.resolution
        /\ u.resume = IF u.status = "reopened" \/ (u.case # t.case /\ t.case = "waiting")
                      THEN "none" ELSE t.resume
    <2>1. ~("resolved" \in DOMAIN w)
      BY <1>2
    <2>2. t.resolved \in BOOLEAN
      BY DEF Ticket
    <2>3. (t.resolved \/ ("resolved" \in DOMAIN w /\ w.resolved)) = t.resolved
      BY <2>1, <2>2
    <2>4. /\ Val(t, w, "status") = t.status /\ Val(t, w, "assignee") = a
          /\ Val(t, w, "resolved") = t.resolved /\ Val(t, w, "repaired") = t.repaired
      BY <1>2 DEF Val
    <2>5. Follows(t, w, u)
      BY <1>1, <1>2, CompletedRow
    <2> HIDE DEF u
    <2> QED BY <2>3, <2>4, <2>5 DEF Follows
  <1> HIDE DEF u
  <1>4. \/ t.status = "reopened" /\ u.case = "in_triage"
        \/ t.status \in Marks \ {"reopened"} /\ u.case = t.case
        \/ /\ t.status \notin Marks
           /\ u.case = IF t.case \notin {"acknowledged", "in_triage", "assigned"} THEN t.case
                       ELSE IF a # NoUser THEN "assigned"
                       ELSE IF t.case = "assigned" THEN "in_triage" ELSE t.case
    BY <1>3 DEF Projected, Marks, RowOK
  <1>5. t.resolved \in BOOLEAN
    BY DEF Ticket
  <1>6. RowOK(u)
    BY <1>3, <1>4, <1>5 DEF RowOK, Marks
  <1> QED BY <1>3, <1>4, <1>6 DEF u, w, Marks

\* Neither a repair record nor the rows beside the ticket touch the case.
LEMMA SideWrite ==
    ASSUME NEW t \in Ticket, RowOK(t), NEW w,
           DOMAIN w \subseteq {"supplier", "repaired", "meeting", "child"},
           "repaired" \in DOMAIN w => w.repaired
    PROVE  LET u == Updated(t, w)
           IN  /\ RowOK(u)
               /\ u.case = t.case /\ u.status = t.status /\ u.assignee = t.assignee
  <1> DEFINE u == Updated(t, w)
  <1>1. DOMAIN w \subseteq Columns
    BY DEF Columns
  <1>2. \A c \in Columns : u[c] = Val(t, w, c)
    BY <1>1, PlainWrite
  <1> HIDE DEF u
  <1>3. /\ u.case = t.case /\ u.status = t.status /\ u.assignee = t.assignee
        /\ u.resolved = t.resolved /\ u.resolution = t.resolution /\ u.resume = t.resume
    BY <1>2 DEF Columns, Val
  <1>4. t.repaired => u.repaired
    BY <1>2 DEF Columns, Val
  <1>5. RowOK(u)
    BY <1>3, <1>4 DEF RowOK
  <1> QED BY <1>3, <1>5 DEF u

----------------------------------------------------------------------------
(* Resolving, closing, cancelling and reopening *)

RepairColumns == [status |-> "resolved", resolved |-> TRUE, repaired |-> TRUE]
                 ++ SuppliersConcluded

\* A row after one of the writes that set a mark.
MarkWritten(t, w, status, case) ==
    LET u == Updated(t, w)
    IN  /\ u \in Ticket /\ Advances(t, u) /\ RowOK(u)
        /\ u.status = status /\ u.case = case

\* Recording a repair with its conclusion resolves the case, whatever it was.
LEMMA ResolveWrite ==
    ASSUME NEW t \in Ticket, RowOK(t)
    PROVE  MarkWritten(t, RepairColumns, "resolved", "resolved")
  <1> DEFINE w == RepairColumns
             u == Updated(t, w)
  <1>1. /\ DOMAIN w = {"status", "resolved", "repaired", "supplier"}
        /\ w.status = "resolved" /\ w.resolved = TRUE /\ w.repaired = TRUE /\ w.supplier = FALSE
    BY DEF RepairColumns, SuppliersConcluded, ++
  <1> HIDE DEF w
  <1>2. TypedWrite(w)
    BY <1>1 DEF TypedWrite, Technical, Statuses
  <1>3. u \in Ticket /\ Advances(t, u)
    BY <1>2, TechnicalWrite
  <1>4. Follows(t, w, u)
    BY <1>1, <1>2, CompletedRow
  <1> HIDE DEF u
  <1>5. u.status = "resolved" /\ u.resolved = TRUE /\ u.repaired = TRUE
    BY <1>1, <1>4 DEF Val, Follows
  <1>6. u.case = "resolved"
    BY <1>4, <1>5 DEF Projected, Follows
  <1>7. RowOK(u)
    BY <1>4, <1>5, <1>6 DEF RowOK, Follows
  <1> QED BY <1>3, <1>5, <1>6, <1>7 DEF u, w, MarkWritten

\* A case closes with the resolution it has.
LEMMA CloseWrite ==
    ASSUME NEW t \in Ticket, RowOK(t), t.resolved
    PROVE  MarkWritten(t, CloseColumns, "closed", "closed")
  <1> DEFINE w == CloseColumns
             u == Updated(t, w)
  <1>1. /\ DOMAIN w = {"status", "supplier", "meeting"}
        /\ w.status = "closed" /\ w.supplier = FALSE /\ w.meeting = FALSE
    BY DEF CloseColumns, CollaborationClosed, ++
  <1> HIDE DEF w
  <1>2. TypedWrite(w)
    BY <1>1 DEF TypedWrite, Technical, Statuses
  <1>3. u \in Ticket /\ Advances(t, u)
    BY <1>2, TechnicalWrite
  <1>4. Follows(t, w, u)
    BY <1>1, <1>2, CompletedRow
  <1> HIDE DEF u
  <1>5. u.status = "closed" /\ u.resolved = t.resolved /\ u.repaired = t.repaired
    BY <1>1, <1>4 DEF Val, Follows
  <1>6. u.case = "closed" /\ u.resolution = t.resolution
    BY <1>4, <1>5 DEF Projected, Follows
  <1>7. RowOK(u)
    BY <1>4, <1>5, <1>6 DEF RowOK, Follows
  <1> QED BY <1>3, <1>5, <1>6, <1>7 DEF u, w, MarkWritten

\* A cancelled case has no resolution.
LEMMA CancelWrite ==
    ASSUME NEW t \in Ticket, RowOK(t)
    PROVE  MarkWritten(t, CancelColumns, "cancelled", "cancelled")
  <1> DEFINE w == CancelColumns
             u == Updated(t, w)
  <1>1. /\ DOMAIN w = {"status", "resolved", "supplier", "meeting"}
        /\ w.status = "cancelled" /\ w.resolved = FALSE
        /\ w.supplier = FALSE /\ w.meeting = FALSE
    BY DEF CancelColumns, CollaborationClosed, ++
  <1> HIDE DEF w
  <1>2. TypedWrite(w)
    BY <1>1 DEF TypedWrite, Technical, Statuses
  <1>3. u \in Ticket /\ Advances(t, u)
    BY <1>2, TechnicalWrite
  <1>4. Follows(t, w, u)
    BY <1>1, <1>2, CompletedRow
  <1> HIDE DEF u
  <1>5. u.status = "cancelled" /\ u.resolved = FALSE
    BY <1>1, <1>4 DEF Val, Follows
  <1>6. u.case = "cancelled"
    BY <1>4, <1>5 DEF Projected, Follows
  <1>7. RowOK(u)
    BY <1>4, <1>5, <1>6 DEF RowOK, Follows
  <1> QED BY <1>3, <1>5, <1>6, <1>7 DEF u, w, MarkWritten

\* A reopened case starts again, without resolution and without a saved wait.
LEMMA ReopenWrite ==
    ASSUME NEW t \in Ticket, RowOK(t)
    PROVE  MarkWritten(t, ReopenColumns, "reopened", "in_triage")
  <1> DEFINE w == ReopenColumns
             u == Updated(t, w)
  <1>1. /\ DOMAIN w = {"status", "assignee", "resolved", "accepted"}
        /\ w.status = "reopened" /\ w.assignee = NoUser
        /\ w.resolved = FALSE /\ w.accepted = FALSE
    BY DEF ReopenColumns
  <1> HIDE DEF w
  <1>2. TypedWrite(w)
    BY <1>1 DEF TypedWrite, Technical, Statuses
  <1>3. u \in Ticket /\ Advances(t, u)
    BY <1>2, TechnicalWrite
  <1>4. Follows(t, w, u)
    BY <1>1, <1>2, CompletedRow
  <1> HIDE DEF u
  <1>5. u.status = "reopened" /\ u.resolved = FALSE
    BY <1>1, <1>4 DEF Val, Follows
  <1>6. u.case = "in_triage" /\ u.resume = "none"
    BY <1>4, <1>5 DEF Projected, Follows
  <1>7. RowOK(u)
    BY <1>5, <1>6 DEF RowOK
  <1> QED BY <1>3, <1>5, <1>6, <1>7 DEF u, w, MarkWritten

----------------------------------------------------------------------------
(* Ownership and case commands *)

\* The cases each command starts from.
LEMMA CommandStarts ==
    ASSUME NEW t \in Ticket, NEW by, NEW a \in ticketCaseActions(t, by)
    PROVE  /\ t.case # "cancelled"
           /\ t.case = "closed" => a = "reopen"
           /\ a = "triage" => t.case \in {"new", "acknowledged", "assigned", "restored"}
           /\ a = "wait" => t.case \in {"acknowledged", "in_triage", "assigned", "restored"}
           /\ a = "resume" => t.case = "waiting"
           /\ a = "restore" => t.case \in {"in_triage", "assigned"}
           /\ a = "resolve" => t.case \in {"in_triage", "assigned", "restored"} /\ ~scope.product
           /\ a = "request_closure" => t.case = "resolved"
           /\ a = "close" => t.case \in {"resolved", "closure_pending"}
           /\ CanEdit(t, by)
  <1>1. t.case \in CaseStates
    BY DEF Ticket
  <1>2. CASE t.case \in {"cancelled", "closed"}
    BY <1>2 DEF ticketCaseActions
  <1>3. CASE t.case = "new"
    BY <1>3 DEF ticketCaseActions
  <1>4. CASE t.case = "acknowledged"
    BY <1>4 DEF ticketCaseActions
  <1>5. CASE t.case = "in_triage"
    BY <1>5 DEF ticketCaseActions
  <1>6. CASE t.case = "assigned"
    BY <1>6 DEF ticketCaseActions
  <1>7. CASE t.case = "waiting"
    BY <1>7 DEF ticketCaseActions
  <1>8. CASE t.case = "restored"
    BY <1>8 DEF ticketCaseActions
  <1>9. CASE t.case = "resolved"
    BY <1>9 DEF ticketCaseActions
  <1>10. CASE t.case = "closure_pending"
    BY <1>10 DEF ticketCaseActions
  <1> QED BY <1>1, <1>2, <1>3, <1>4, <1>5, <1>6, <1>7, <1>8, <1>9, <1>10 DEF CaseStates

\* A write that names the case itself moves the revision.
LEMMA DirectWrite ==
    ASSUME NEW t \in Ticket, NEW w,
           DOMAIN w \subseteq {"case", "rev", "status", "owner", "acknowledged", "resolved",
                               "resolution", "resume", "resumeTech"},
           "case" \in DOMAIN w, w.case \in CaseStates,
           "rev" \in DOMAIN w, w.rev = t.rev + 1,
           Val(t, w, "status") \in Statuses, Val(t, w, "owner") \in Staff \cup {NoUser},
           Val(t, w, "acknowledged") \in BOOLEAN, Val(t, w, "resolved") \in BOOLEAN,
           Val(t, w, "resolution") \in BOOLEAN, Val(t, w, "resume") \in CaseStates \cup {"none"},
           Val(t, w, "resumeTech") \in Statuses \cup {"none"}
    PROVE  LET u == Updated(t, w)
           IN  /\ u \in Ticket /\ Advances(t, u)
               /\ u.case = w.case /\ u.status = Val(t, w, "status")
               /\ u.assignee = t.assignee /\ u.accepted = t.accepted
               /\ u.resolved = Val(t, w, "resolved") /\ u.resolution = Val(t, w, "resolution")
               /\ u.repaired = t.repaired /\ u.resume = Val(t, w, "resume")
  <1> DEFINE u == Updated(t, w)
  <1>1. DOMAIN w \subseteq Columns
    BY DEF Columns
  <1>2. u = [c \in Columns |-> u[c]] /\ \A c \in Columns : u[c] = Val(t, w, c)
    BY <1>1, PlainWrite
  <1> HIDE DEF u
  <1>3. /\ u.case = w.case /\ u.rev = t.rev + 1 /\ u.status = Val(t, w, "status")
        /\ u.owner = Val(t, w, "owner") /\ u.acknowledged = Val(t, w, "acknowledged")
        /\ u.resolved = Val(t, w, "resolved") /\ u.resolution = Val(t, w, "resolution")
        /\ u.resume = Val(t, w, "resume") /\ u.resumeTech = Val(t, w, "resumeTech")
    <2>1. Val(t, w, "case") = w.case /\ Val(t, w, "rev") = t.rev + 1
      BY DEF Val
    <2> QED BY <1>2, <2>1 DEF Columns
  <1>4. /\ u.assignee = t.assignee /\ u.accepted = t.accepted /\ u.repaired = t.repaired
        /\ u.supplier = t.supplier /\ u.meeting = t.meeting /\ u.child = t.child
    BY <1>2 DEF Columns, Val
  <1>5. /\ t.rev \in Nat /\ t.assignee \in Staff \cup {NoUser} /\ t.accepted \in BOOLEAN
        /\ t.repaired \in BOOLEAN /\ t.supplier \in BOOLEAN
        /\ t.meeting \in BOOLEAN /\ t.child \in BOOLEAN
    BY DEF Ticket
  <1>6. u \in Ticket
    BY <1>2, <1>3, <1>4, <1>5, RowIsTicket
  <1>7. Advances(t, u)
    BY <1>3, <1>5 DEF Advances
  <1> QED BY <1>3, <1>4, <1>6, <1>7 DEF u

\* Recording the owner gives a new case its first state and changes nothing
\* else the properties read.
LEMMA OwnedRow ==
    ASSUME NEW t \in Ticket, RowOK(t), NEW owner \in Staff
    PROVE  LET u == Owned(t, owner)
           IN  /\ u \in Ticket /\ Advances(t, u) /\ RowOK(u)
               /\ u.assignee = t.assignee /\ u.accepted = t.accepted
               /\ u.case = IF t.case = "new" THEN FirstCase ELSE t.case
               /\ t.case # "new" => u.status = t.status
               /\ u.status \in {t.status, "accepted"}
  <1> DEFINE u == Owned(t, owner)
             w == OwnershipColumns(t, owner)
  <1>0. /\ t.status \in Statuses /\ t.case \in CaseStates /\ t.rev \in Nat
        /\ t.owner \in Staff \cup {NoUser} /\ t.acknowledged \in BOOLEAN
        /\ t.resolved \in BOOLEAN /\ t.resolution \in BOOLEAN
        /\ t.resume \in CaseStates \cup {"none"} /\ t.resumeTech \in Statuses \cup {"none"}
    BY DEF Ticket
  <1>1. CASE OwnershipRecorded(t, owner)
    <2>1. u = t
      BY <1>1 DEF Owned
    <2>2. t.case # "new"
      BY <1>1 DEF OwnershipRecorded
    <2>3. Advances(t, t)
      BY <1>0 DEF Advances
    <2> QED BY <2>1, <2>2, <2>3
  <1>2. CASE ~OwnershipRecorded(t, owner)
    <2>1. u = Updated(t, w)
      BY <1>2 DEF Owned
    <2>2. /\ DOMAIN w = {"owner", "rev", "acknowledged", "case", "status"}
          /\ w.owner = RecordedOwner(t, owner) /\ w.rev = t.rev + 1 /\ w.acknowledged = TRUE
          /\ w.case = IF t.case = "new" THEN FirstCase ELSE t.case
          /\ w.status = IF t.case = "new" /\ t.assignee = NoUser THEN "accepted" ELSE t.status
      BY DEF OwnershipColumns
    <2> HIDE DEF w
    <2>3. w.case \in CaseStates
      BY <1>0, <2>2 DEF FirstCase, CaseStates
    <2>4. /\ Val(t, w, "status") = w.status
          /\ Val(t, w, "owner") \in Staff \cup {NoUser}
      BY <1>0, <2>2 DEF Val, RecordedOwner
    <2>5. /\ Val(t, w, "acknowledged") \in BOOLEAN
          /\ Val(t, w, "resolved") = t.resolved /\ Val(t, w, "resolution") = t.resolution
          /\ Val(t, w, "resume") = t.resume /\ Val(t, w, "resumeTech") = t.resumeTech
      BY <2>2 DEF Val
    <2>6. w.status \in Statuses /\ w.status \in {t.status, "accepted"}
      BY <1>0, <2>2 DEF Statuses
    <2>7. /\ u \in Ticket /\ Advances(t, u)
          /\ u.case = w.case /\ u.status = w.status
          /\ u.assignee = t.assignee /\ u.accepted = t.accepted
          /\ u.resolved = t.resolved /\ u.resolution = t.resolution
          /\ u.repaired = t.repaired /\ u.resume = t.resume
      BY <1>0, <2>1, <2>2, <2>3, <2>4, <2>5, <2>6, DirectWrite
    <2> HIDE DEF u
    <2>8. FirstCase \in {"assigned", "acknowledged"}
      BY DEF FirstCase
    <2>9. RowOK(u)
      BY <2>2, <2>6, <2>7, <2>8 DEF RowOK
    <2> QED BY <2>2, <2>6, <2>7, <2>9 DEF u
  <1> QED BY <1>1, <1>2

\* The commands that write the case themselves.
Direct == {"triage", "wait", "resume", "restore", "resolve", "request_closure"}

LEMMA ActiveStatus ==
    ASSUME NEW t
    PROVE  ActiveTechnicalStatus(t) \in {"supplier_support", "pending_assignee_accept",
                                         "accepted", "pending_dispatch", "reopened", "processing"}
  BY DEF ActiveTechnicalStatus

LEMMA Targets ==
    ASSUME NEW t
    PROVE  /\ Target(t, "triage") = "in_triage" /\ Target(t, "reopen") = "in_triage"
           /\ Target(t, "wait") = "waiting"
           /\ Target(t, "resume") \in {"acknowledged", "in_triage", "assigned", "restored"}
           /\ Target(t, "restore") = "restored" /\ Target(t, "resolve") = "resolved"
           /\ Target(t, "request_closure") = "closure_pending"
           /\ Target(t, "close") = "closed" /\ Target(t, "cancel") = "cancelled"
  BY DEF Target

\* The columns w of a direct command a.
DirectlyWrites(t, a, w) ==
    /\ "case" \in DOMAIN w /\ "rev" \in DOMAIN w
    /\ w.case = Target(t, a) /\ w.rev = t.rev + 1
    /\ DOMAIN w = {"case", "rev"} \cup
          CASE a \in {"triage", "request_closure"} -> {"status"}
            [] a \in {"wait", "resume"} -> {"status", "resume", "resumeTech"}
            [] a = "resolve" -> {"status", "resolved", "resolution"}
            [] OTHER -> {}
    /\ a \in {"triage", "resume"} => w.status = ActiveTechnicalStatus(t)
    /\ a = "wait" => /\ w.status = "waiting_customer"
                     /\ w.resume = t.case /\ w.resumeTech = t.status
    /\ a = "resume" => w.resume = "none" /\ w.resumeTech = "none"
    /\ a = "resolve" => /\ w.status = "resolved"
                        /\ w.resolved = TRUE /\ w.resolution = TRUE
    /\ a = "request_closure" => w.status = "pending_customer_confirm"

LEMMA DirectColumns ==
    ASSUME NEW t, NEW a \in Direct
    PROVE  DirectlyWrites(t, a, CommandColumns(t, a))
  <1> DEFINE moved == [case |-> Target(t, a), rev |-> t.rev + 1]
  <1>1. CASE a = "triage"
    <2>1. CommandColumns(t, a) = moved ++ [status |-> ActiveTechnicalStatus(t)]
      BY <1>1 DEF CommandColumns
    <2> QED BY <1>1, <2>1 DEF ++, DirectlyWrites
  <1>2. CASE a = "wait"
    <2>1. CommandColumns(t, a) = moved ++ [status |-> "waiting_customer", resume |-> t.case,
                                           resumeTech |-> t.status]
      BY <1>2 DEF CommandColumns
    <2> QED BY <1>2, <2>1 DEF ++, DirectlyWrites
  <1>3. CASE a = "resume"
    <2>1. CommandColumns(t, a) = moved ++ [status |-> ActiveTechnicalStatus(t)] ++ ResumeCleared
      BY <1>3 DEF CommandColumns
    <2> QED BY <1>3, <2>1 DEF ++, ResumeCleared, DirectlyWrites
  <1>4. CASE a = "restore"
    <2>1. CommandColumns(t, a) = moved
      BY <1>4 DEF CommandColumns
    <2> QED BY <1>4, <2>1 DEF DirectlyWrites
  <1>5. CASE a = "resolve"
    <2>1. CommandColumns(t, a) = moved ++ [status |-> "resolved", resolved |-> TRUE,
                                           resolution |-> TRUE]
      BY <1>5 DEF CommandColumns
    <2> QED BY <1>5, <2>1 DEF ++, DirectlyWrites
  <1>6. CASE a = "request_closure"
    <2>1. CommandColumns(t, a) = moved ++ [status |-> "pending_customer_confirm"]
      BY <1>6 DEF CommandColumns
    <2> QED BY <1>6, <2>1 DEF ++, DirectlyWrites
  <1> QED BY <1>1, <1>2, <1>3, <1>4, <1>5, <1>6 DEF Direct

\* A command the ticket page offers leads to its target and keeps RowOK.
LEMMA CommandRow ==
    ASSUME NEW t \in Ticket, RowOK(t), NEW by, NEW a \in Actions,
           a \in ticketCaseActions(t, by), Ready(t, a)
    PROVE  LET u == Updated(t, CommandColumns(t, a))
           IN  /\ u \in Ticket /\ Advances(t, u) /\ RowOK(u)
               /\ u.case = Target(t, a)
               /\ t.status = "closed" => u.status = "reopened"
               /\ t.status # "cancelled"
  <1> DEFINE w == CommandColumns(t, a)
             u == Updated(t, w)
  <1>0. /\ t.case # "cancelled"
        /\ t.case = "closed" => a = "reopen"
        /\ a = "triage" => t.case \in {"new", "acknowledged", "assigned", "restored"}
        /\ a = "wait" => t.case \in {"acknowledged", "in_triage", "assigned", "restored"}
        /\ a = "resume" => t.case = "waiting"
        /\ a = "restore" => t.case \in {"in_triage", "assigned"}
        /\ a = "resolve" => t.case \in {"in_triage", "assigned", "restored"}
        /\ a = "request_closure" => t.case = "resolved"
        /\ a = "close" => t.case \in {"resolved", "closure_pending"}
    BY CommandStarts
  <1>1. /\ t.status # "cancelled"
        /\ t.status = "closed" => a = "reopen"
    BY <1>0 DEF RowOK
  <1>2. CASE a = "close"
    <2>1. t.resolved
      BY <1>2 DEF Ready, requireTicketCaseClose
    <2>2. w = CloseColumns
      BY <1>2 DEF CommandColumns
    <2> QED BY <1>1, <1>2, <2>1, <2>2, CloseWrite, Targets DEF MarkWritten
  <1>3. CASE a = "cancel"
    <2>1. w = CancelColumns
      BY <1>3 DEF CommandColumns
    <2> QED BY <1>1, <1>3, <2>1, CancelWrite, Targets DEF MarkWritten
  <1>4. CASE a = "reopen"
    <2>1. w = ReopenColumns
      BY <1>4 DEF CommandColumns
    <2> QED BY <1>1, <1>4, <2>1, ReopenWrite, Targets DEF MarkWritten
  <1>5. CASE a \in Direct
    <2> USE <1>5
    <2>0. /\ t.status \in Statuses /\ t.case \in CaseStates
          /\ t.owner \in Staff \cup {NoUser} /\ t.acknowledged \in BOOLEAN
          /\ t.resolved \in BOOLEAN /\ t.resolution \in BOOLEAN
          /\ t.resume \in CaseStates \cup {"none"} /\ t.resumeTech \in Statuses \cup {"none"}
      BY DEF Ticket
    <2>a. DirectlyWrites(t, a, w)
      BY DirectColumns
    <2> HIDE DEF w
    <2>1. /\ "case" \in DOMAIN w /\ "rev" \in DOMAIN w
          /\ w.case = Target(t, a) /\ w.rev = t.rev + 1
      BY <2>a DEF DirectlyWrites
    <2>2. DOMAIN w \subseteq {"case", "rev", "status", "owner", "acknowledged", "resolved",
                              "resolution", "resume", "resumeTech"}
      BY <2>a DEF Direct, DirectlyWrites
    <2>3. w.case \in CaseStates
      BY <2>1, Targets DEF Direct, CaseStates
    <2>4. /\ Val(t, w, "status") =
                CASE a \in {"triage", "resume"} -> ActiveTechnicalStatus(t)
                  [] a = "wait" -> "waiting_customer"
                  [] a = "resolve" -> "resolved"
                  [] a = "request_closure" -> "pending_customer_confirm"
                  [] OTHER -> t.status
          /\ Val(t, w, "resume") =
                CASE a = "wait" -> t.case [] a = "resume" -> "none" [] OTHER -> t.resume
          /\ Val(t, w, "resumeTech") =
                CASE a = "wait" -> t.status [] a = "resume" -> "none" [] OTHER -> t.resumeTech
      BY <2>a DEF Val, Direct, DirectlyWrites
    <2>5. /\ Val(t, w, "resolved") = IF a = "resolve" THEN TRUE ELSE t.resolved
          /\ Val(t, w, "resolution") = IF a = "resolve" THEN TRUE ELSE t.resolution
      BY <2>a DEF Val, Direct, DirectlyWrites
    <2>6. Val(t, w, "owner") = t.owner /\ Val(t, w, "acknowledged") = t.acknowledged
      BY <2>a DEF Val, Direct, DirectlyWrites
    <2>7. Val(t, w, "status") \in Statuses
      BY <2>0, <2>4, ActiveStatus DEF Statuses
    <2>8. /\ Val(t, w, "resume") \in CaseStates \cup {"none"}
          /\ Val(t, w, "resumeTech") \in Statuses \cup {"none"}
      BY <2>0, <2>4
    <2>9. Val(t, w, "resolved") \in BOOLEAN /\ Val(t, w, "resolution") \in BOOLEAN
      BY <2>0, <2>5
    <2>10. /\ u \in Ticket /\ Advances(t, u)
           /\ u.case = Target(t, a) /\ u.status = Val(t, w, "status")
           /\ u.resolved = Val(t, w, "resolved") /\ u.resolution = Val(t, w, "resolution")
           /\ u.repaired = t.repaired /\ u.resume = Val(t, w, "resume")
      BY <2>0, <2>1, <2>2, <2>3, <2>6, <2>7, <2>8, <2>9, DirectWrite
    <2> HIDE DEF u
    <2>11. t.status # "closed"
      BY <1>0, <1>1 DEF Direct
    <2>12. RowOK(u)
      <3>1. CASE a = "triage"
        BY <3>1, <1>0, <2>4, <2>5, <2>10, Targets, ActiveStatus DEF RowOK
      <3>2. CASE a = "wait"
        BY <3>2, <1>0, <2>4, <2>5, <2>10, Targets DEF RowOK
      <3>3. CASE a = "resume"
        BY <3>3, <1>0, <2>4, <2>5, <2>10, Targets, ActiveStatus DEF RowOK
      <3>4. CASE a = "restore"
        BY <3>4, <1>0, <2>4, <2>5, <2>10, Targets DEF RowOK
      <3>5. CASE a = "resolve"
        BY <3>5, <1>0, <2>4, <2>5, <2>10, Targets DEF RowOK
      <3>6. CASE a = "request_closure"
        BY <3>6, <1>0, <2>4, <2>5, <2>10, Targets DEF RowOK
      <3> QED BY <3>1, <3>2, <3>3, <3>4, <3>5, <3>6 DEF Direct
    <2> QED BY <1>1, <2>10, <2>11, <2>12 DEF u, w
  <1> QED BY <1>2, <1>3, <1>4, <1>5 DEF Actions, Direct

----------------------------------------------------------------------------
(* The row through every action *)

\* A status a new case may have, with its assignee: somebody can accept it.
Acceptable(status, assignee) ==
    \/ status \in {"pending", "pending_dispatch"}
    \/ /\ Normalize(status) \in {"pending_assignee_accept", "processing", "supplier_support"}
       /\ assignee # NoUser

NewOK(t) == t.case = "new" => Acceptable(t.status, t.assignee)

\* Row t becomes u: whatever happens inside an invitation ...
Moves(t, u) == u \in Ticket /\ Advances(t, u) /\ RowOK(u)

\* ... and in addition when no write overtakes a check.
Orderly(t, u) ==
    /\ NewOK(t) => NewOK(u)
    /\ t.status = "closed" => u.status \in {"closed", "reopened"}
    /\ t.status = "cancelled" => u.status = "cancelled"

\* What the next-state relation says of an operation that writes the row.
RowWritten ==
    /\ Undisturbed
    /\ Moves(ticket, ticket') /\ Orderly(ticket, ticket')
    /\ fresh' = IF ticket'.case = ticket.case THEN fresh ELSE {}
    /\ UNCHANGED <<scope, inviting, calls, receipts, refused>>

LEMMA WriteIsRowWritten ==
    ASSUME NEW t, NEW w, Write(t, w),
           Moves(ticket, Updated(t, w)), Orderly(ticket, Updated(t, w))
    PROVE  RowWritten
  BY DEF Write, Commit, RowWritten

LEMMA AdvancesTransitive ==
    ASSUME NEW t \in Ticket, NEW u \in Ticket, NEW v \in Ticket, Advances(t, u), Advances(u, v)
    PROVE  Advances(t, v)
  <1>1. t.rev \in Nat /\ u.rev \in Nat /\ v.rev \in Nat
    BY DEF Ticket
  <1> QED BY <1>1 DEF Advances

\* An operation that writes a status which is no mark, after it recorded an
\* owner or not (t is the row it writes to).
LEMMA OrdinaryStep ==
    ASSUME ticket \in Ticket, canAssignTicketStatus(ticket.status),
           NEW t \in Ticket, RowOK(t), Advances(ticket, t),
           NEW w, TypedWrite(w), "resolved" \notin DOMAIN w, "repaired" \notin DOMAIN w,
           "status" \in DOMAIN w, w.status \notin Marks,
           NewOK(ticket) /\ t.case = "new" => Acceptable(w.status, Val(t, w, "assignee")),
           Write(t, w)
    PROVE  RowWritten
  <1> DEFINE u == Updated(t, w)
  <1>1. u \in Ticket /\ Advances(t, u)
    BY TechnicalWrite
  <1>2. /\ RowOK(u)
        /\ u.case = "new" => t.case = "new"
        /\ u.status = w.status /\ u.assignee = Val(t, w, "assignee")
    BY OrdinaryWrite
  <1> HIDE DEF u
  <1>3. Advances(ticket, u)
    BY <1>1, AdvancesTransitive
  <1>4. Orderly(ticket, u)
    BY <1>2 DEF Orderly, NewOK, canAssignTicketStatus
  <1> QED BY <1>1, <1>2, <1>3, <1>4, WriteIsRowWritten DEF u, Moves

LEMMA StaffIsSomebody == NoUser \notin Staff /\ Engineers \subseteq Staff
  BY TicketAssumption DEF Staff

LEMMA AcceptStep ==
    ASSUME ticket \in Ticket, RowOK(ticket), NEW u \in Staff, Accept(u)
    PROVE  RowWritten
  <1> DEFINE owned == Owned(ticket, u)
             w == [status |-> AcceptTarget(ticket), assignee |-> u, accepted |-> TRUE,
                   owner |-> owned.owner]
  <1>1. /\ owned \in Ticket /\ Advances(ticket, owned) /\ RowOK(owned)
        /\ owned.case = IF ticket.case = "new" THEN FirstCase ELSE ticket.case
        /\ owned.status \in {ticket.status, "accepted"}
        /\ ticket.case # "new" => owned.status = ticket.status
    BY OwnedRow
  <1>2. owned.case # "new"
    BY <1>1 DEF FirstCase
  <1> HIDE DEF owned
  <1>3. CASE AlreadyAccepted(ticket, u)
    <2>1. Write(owned, <<>>)
      BY <1>3 DEF Accept, owned
    <2>2. DOMAIN <<>> = {}
      OBVIOUS
    <2>3. Updated(owned, <<>>) \in Ticket /\ Advances(owned, Updated(owned, <<>>))
      BY <1>1, <2>2, TechnicalWrite DEF TypedWrite
    <2>4. /\ RowOK(Updated(owned, <<>>))
          /\ Updated(owned, <<>>).case = owned.case
          /\ Updated(owned, <<>>).status = owned.status
      BY <1>1, <2>2, SideWrite
    <2>5. ticket.status \notin {"closed", "cancelled"}
      BY <1>3 DEF AlreadyAccepted, Normalize
    <2>6. Moves(ticket, Updated(owned, <<>>))
      BY <1>1, <2>3, <2>4, AdvancesTransitive DEF Moves
    <2>7. Orderly(ticket, Updated(owned, <<>>))
      BY <1>2, <2>4, <2>5 DEF Orderly, NewOK
    <2> QED BY <2>1, <2>6, <2>7, WriteIsRowWritten
  <1>4. CASE ~AlreadyAccepted(ticket, u)
    <2>1. CanAccept(ticket, u) /\ Write(owned, w)
      BY <1>4 DEF Accept, owned
    <2>2. AcceptTarget(ticket) \in Statuses \ Marks /\ canAssignTicketStatus(ticket.status)
      BY <2>1 DEF CanAccept, AcceptTarget, Normalize, canAssignTicketStatus, Statuses, Marks
    <2>3. /\ DOMAIN w = {"status", "assignee", "accepted", "owner"}
          /\ w.status = AcceptTarget(ticket) /\ w.assignee = u /\ w.accepted = TRUE
          /\ w.owner = owned.owner
      OBVIOUS
    <2>4. owned.owner \in Staff \cup {NoUser}
      BY <1>1 DEF Ticket
    <2> HIDE DEF w
    <2>5. TypedWrite(w)
      BY <2>2, <2>3, <2>4 DEF TypedWrite, Technical
    <2> QED BY <1>1, <1>2, <2>1, <2>2, <2>3, <2>5, OrdinaryStep
  <1> QED BY <1>3, <1>4

LEMMA AssignmentStatusType ==
    ASSUME NEW s
    PROVE  AssignmentStatus(s) \in {"assigned", "pending_assignee_accept"}
  BY DEF AssignmentStatus

LEMMA AssignStep ==
    ASSUME ticket \in Ticket, RowOK(ticket), NEW by, NEW u \in Engineers, Assign(by, u)
    PROVE  RowWritten
  <1> DEFINE owned == Owned(ticket, u)
             w == [status |-> AssignmentStatus(owned.status), assignee |-> u, accepted |-> FALSE]
  <1>1. /\ owned \in Ticket /\ Advances(ticket, owned) /\ RowOK(owned)
        /\ owned.case = IF ticket.case = "new" THEN FirstCase ELSE ticket.case
    BY OwnedRow, StaffIsSomebody
  <1>2. owned.case # "new"
    BY <1>1 DEF FirstCase
  <1>3. Write(owned, w) /\ canAssignTicketStatus(ticket.status)
    BY DEF Assign, canAssignTicketCase
  <1> HIDE DEF owned
  <1>4. /\ DOMAIN w = {"status", "assignee", "accepted"}
        /\ w.status \in {"assigned", "pending_assignee_accept"}
        /\ w.assignee = u /\ w.accepted = FALSE
    BY AssignmentStatusType
  <1> HIDE DEF w
  <1>5. TypedWrite(w) /\ w.status \notin Marks
    BY <1>4, StaffIsSomebody DEF TypedWrite, Technical, Statuses, Marks
  <1> QED BY <1>1, <1>2, <1>3, <1>4, <1>5, OrdinaryStep

\* Every way to give the ticket to somebody without recording an owner first.
LEMMA HandOver ==
    ASSUME ticket \in Ticket, RowOK(ticket), canAssignTicketStatus(ticket.status),
           NEW u \in Staff, NEW status \in {"assigned", "pending_assignee_accept"},
           NEW w, Write(ticket, w),
           DOMAIN w \subseteq {"status", "assignee", "accepted", "owner"},
           {"status", "assignee", "accepted"} \subseteq DOMAIN w,
           w.status = status, w.assignee = u, w.accepted = FALSE,
           "owner" \in DOMAIN w => w.owner \in Staff \cup {NoUser}
    PROVE  RowWritten
  <1>1. TypedWrite(w) /\ w.status \notin Marks
    BY DEF TypedWrite, Technical, Statuses, Marks
  <1>2. Acceptable(w.status, Val(ticket, w, "assignee"))
    BY StaffIsSomebody DEF Acceptable, Normalize, Val
  <1>3. Advances(ticket, ticket)
    BY DEF Advances, Ticket
  <1> QED BY <1>1, <1>2, <1>3, OrdinaryStep

LEMMA ToPoolStep ==
    ASSUME ticket \in Ticket, RowOK(ticket), canAssignTicketStatus(ticket.status),
           Write(ticket, ToPool)
    PROVE  RowWritten
  <1>1. /\ DOMAIN ToPool = {"status", "assignee", "accepted"}
        /\ ToPool.status = "pending_dispatch" /\ ToPool.assignee = NoUser
        /\ ToPool.accepted = FALSE
    BY DEF ToPool
  <1>2. TypedWrite(ToPool) /\ ToPool.status \notin Marks
    BY <1>1 DEF TypedWrite, Technical, Statuses, Marks
  <1>3. Acceptable(ToPool.status, Val(ticket, ToPool, "assignee"))
    BY <1>1 DEF Acceptable
  <1>4. Advances(ticket, ticket)
    BY DEF Advances, Ticket
  <1> QED BY <1>1, <1>2, <1>3, <1>4, OrdinaryStep

LEMMA DispatchSteps ==
    ASSUME ticket \in Ticket, RowOK(ticket),
           \/ \E u \in Engineers : Dispatch(u)
           \/ DeferDispatch
           \/ recycleTicketAfterAcceptTimeout
           \/ recycleTicketAfterAssigneeUnavailable
    PROVE  RowWritten
  <1>1. ASSUME NEW u \in Engineers, Dispatch(u) PROVE RowWritten
    <2> USE <1>1
    <2> DEFINE w == [status |-> "pending_assignee_accept", assignee |-> u, accepted |-> FALSE]
    <2>1. Write(ticket, w) /\ canAssignTicketStatus(ticket.status)
      BY DEF Dispatch, canAssignTicketStatus
    <2>2. /\ DOMAIN w = {"status", "assignee", "accepted"}
          /\ w.status = "pending_assignee_accept" /\ w.assignee = u /\ w.accepted = FALSE
      OBVIOUS
    <2> HIDE DEF w
    <2> QED BY <2>1, <2>2, HandOver, StaffIsSomebody
  <1>2. ASSUME DeferDispatch PROVE RowWritten
    <2>1. Write(ticket, ToPool) /\ canAssignTicketStatus(ticket.status)
      BY <1>2 DEF DeferDispatch, canAssignTicketStatus
    <2> QED BY <2>1, ToPoolStep
  <1>3. ASSUME recycleTicketAfterAcceptTimeout PROVE RowWritten
    <2>1. Write(ticket, ToPool) /\ canAssignTicketStatus(ticket.status)
      BY <1>3 DEF recycleTicketAfterAcceptTimeout, canAssignTicketCase
    <2> QED BY <2>1, ToPoolStep
  <1>4. ASSUME recycleTicketAfterAssigneeUnavailable PROVE RowWritten
    <2>1. Write(ticket, ToPool) /\ canAssignTicketStatus(ticket.status)
      BY <1>4 DEF recycleTicketAfterAssigneeUnavailable, canAssignTicketStatus, Normalize
    <2> QED BY <2>1, ToPoolStep
  <1> QED BY <1>1, <1>2, <1>3, <1>4

LEMMA SupervisorSteps ==
    ASSUME ticket \in Ticket, RowOK(ticket), NEW u \in Staff,
           EscalateToSupervisor(u) \/ escalateTicketAfterRepeatedTimeout(u)
    PROVE  RowWritten
  <1> DEFINE w == ToSupervisor(ticket, u)
  <1>1. Write(ticket, w) /\ canAssignTicketStatus(ticket.status)
    BY DEF EscalateToSupervisor, escalateTicketAfterRepeatedTimeout, canAssignTicketCase
  <1>2. /\ DOMAIN w \subseteq {"status", "assignee", "accepted", "owner"}
        /\ {"status", "assignee", "accepted"} \subseteq DOMAIN w
        /\ w.status = "pending_assignee_accept" /\ w.assignee = u /\ w.accepted = FALSE
        /\ "owner" \in DOMAIN w => w.owner = ticket.owner
    BY DEF ToSupervisor, ++
  <1>3. ticket.owner \in Staff \cup {NoUser}
    BY DEF Ticket
  <1> HIDE DEF w
  <1> QED BY <1>1, <1>2, <1>3, HandOver

LEMMA SyncConversationDispatchStep ==
    ASSUME ticket \in Ticket, RowOK(ticket),
           NEW u \in Engineers \cup {NoUser}, NEW sameTeam \in BOOLEAN,
           SyncConversationDispatch(u, sameTeam)
    PROVE  RowWritten
  <1> DEFINE w == [status |-> AssignmentStatus(ticket.status), assignee |-> u,
                   accepted |-> FALSE]
             a == [assignee |-> u]
  <1>1. /\ canAssignTicketStatus(ticket.status)
        /\ Write(ticket, IF u = NoUser THEN ToPool ELSE IF u = ticket.assignee THEN a ELSE w)
    BY DEF SyncConversationDispatch
  <1>2. CASE u = NoUser
    BY <1>1, <1>2, ToPoolStep
  <1>3. CASE u # NoUser /\ u = ticket.assignee
    <2>1. Write(ticket, a)
      BY <1>1, <1>3
    <2>2. TypedWrite(a)
      BY StaffIsSomebody DEF TypedWrite, Technical
    <2>3. Updated(ticket, a) \in Ticket /\ Advances(ticket, Updated(ticket, a))
      BY <2>2, TechnicalWrite
    <2>4. LET v == Updated(ticket, a)
          IN  /\ RowOK(v)
              /\ v.case = "new" => ticket.case = "new"
              /\ v.status = ticket.status /\ v.assignee = u
      BY StaffIsSomebody, AssigneeWrite
    <2> HIDE DEF a
    <2>5. Orderly(ticket, Updated(ticket, a))
      BY <1>3, <2>4 DEF Orderly, NewOK
    <2> QED BY <2>1, <2>3, <2>4, <2>5, WriteIsRowWritten DEF Moves
  <1>4. CASE u # NoUser /\ u # ticket.assignee
    <2>1. Write(ticket, w)
      BY <1>1, <1>4
    <2>2. /\ DOMAIN w = {"status", "assignee", "accepted"}
          /\ w.status = AssignmentStatus(ticket.status)
          /\ w.assignee = u /\ w.accepted = FALSE
      OBVIOUS
    <2> HIDE DEF w
    <2> QED BY <1>1, <1>4, <2>1, <2>2, HandOver, StaffIsSomebody, AssignmentStatusType
  <1> QED BY <1>2, <1>3, <1>4

LEMMA EscalateStep ==
    ASSUME ticket \in Ticket, RowOK(ticket), NEW by, Escalate(by)
    PROVE  RowWritten
  <1> DEFINE w == [status |-> "escalated"]
  <1>1. /\ Write(ticket, w)
        /\ ticket.status \in {"accepted", "assigned", "waiting_customer"}
    BY DEF Escalate
  <1>2. DOMAIN w = {"status"} /\ w.status = "escalated"
    OBVIOUS
  <1> HIDE DEF w
  <1>3. TypedWrite(w) /\ w.status \notin Marks
    BY <1>2 DEF TypedWrite, Technical, Statuses, Marks
  <1>4. NewOK(ticket) /\ ticket.case = "new" =>
            Acceptable(w.status, Val(ticket, w, "assignee"))
    BY <1>1, <1>2 DEF NewOK, Acceptable, Normalize, Val
  <1>5. Advances(ticket, ticket) /\ canAssignTicketStatus(ticket.status)
    BY <1>1 DEF Advances, Ticket, canAssignTicketStatus
  <1> QED BY <1>1, <1>2, <1>3, <1>4, <1>5, OrdinaryStep

\* Steps that leave status, assignee and case alone.
LEMMA SideStep ==
    ASSUME ticket \in Ticket, RowOK(ticket), NEW w, Write(ticket, w), TypedWrite(w),
           DOMAIN w \subseteq {"supplier", "repaired", "meeting", "child"},
           "repaired" \in DOMAIN w => w.repaired
    PROVE  RowWritten
  <1> DEFINE v == Updated(ticket, w)
  <1>1. v \in Ticket /\ Advances(ticket, v)
    BY TechnicalWrite
  <1>2. /\ RowOK(v)
        /\ v.case = ticket.case /\ v.status = ticket.status /\ v.assignee = ticket.assignee
    BY SideWrite
  <1> HIDE DEF v
  <1>3. Orderly(ticket, v)
    BY <1>2 DEF Orderly, NewOK
  <1> QED BY <1>1, <1>2, <1>3, WriteIsRowWritten DEF v, Moves

LEMMA RecordRepairStep ==
    ASSUME ticket \in Ticket, RowOK(ticket), NEW by, RecordRepair(by)
    PROVE  RowWritten
  <1> DEFINE w == [repaired |-> TRUE]
  <1>1. Write(ticket, w)
    BY DEF RecordRepair
  <1>2. DOMAIN w = {"repaired"} /\ w.repaired = TRUE
    OBVIOUS
  <1> HIDE DEF w
  <1>3. TypedWrite(w)
    BY <1>2 DEF TypedWrite, Technical
  <1> QED BY <1>1, <1>2, <1>3, SideStep

\* A meeting or a child ticket begins or ends.
LEMMA HoldSteps ==
    ASSUME ticket \in Ticket, RowOK(ticket),
           (\E by \in Staff : CreateMeetingRoom(by)) \/ EndMeeting \/ ChildOpens \/ ChildrenEnd
    PROVE  RowWritten
  <1>1. PICK b \in BOOLEAN : Write(ticket, [meeting |-> b]) \/ Write(ticket, [child |-> b])
    BY DEF CreateMeetingRoom, EndMeeting, ChildOpens, ChildrenEnd
  <1>2. CASE Write(ticket, [meeting |-> b])
    <2> DEFINE w == [meeting |-> b]
    <2>1. DOMAIN w = {"meeting"} /\ w.meeting = b
      OBVIOUS
    <2>2. Write(ticket, w)
      BY <1>2
    <2> HIDE DEF w
    <2>3. TypedWrite(w)
      BY <2>1 DEF TypedWrite, Technical
    <2> QED BY <2>1, <2>2, <2>3, SideStep
  <1>3. CASE Write(ticket, [child |-> b])
    <2> DEFINE w == [child |-> b]
    <2>1. DOMAIN w = {"child"} /\ w.child = b
      OBVIOUS
    <2>2. Write(ticket, w)
      BY <1>3
    <2> HIDE DEF w
    <2>3. TypedWrite(w)
      BY <2>1 DEF TypedWrite, Technical
    <2> QED BY <2>1, <2>2, <2>3, SideStep
  <1> QED BY <1>1, <1>2, <1>3

LEMMA LastSupplierLeavesStep ==
    ASSUME ticket \in Ticket, RowOK(ticket), LastSupplierLeaves
    PROVE  RowWritten
  <1> DEFINE w == [supplier |-> FALSE] ++ (IF ticket.status = "supplier_support"
                                           THEN [status |-> "processing"] ELSE <<>>)
  <1>1. Write(ticket, w)
    BY DEF LastSupplierLeaves
  <1>2. CASE ticket.status = "supplier_support"
    <2>1. /\ DOMAIN w = {"supplier", "status"}
          /\ w.supplier = FALSE /\ w.status = "processing"
      BY <1>2 DEF ++
    <2> HIDE DEF w
    <2>2. TypedWrite(w) /\ w.status \notin Marks
      BY <2>1 DEF TypedWrite, Technical, Statuses, Marks
    <2>3. NewOK(ticket) /\ ticket.case = "new" =>
              Acceptable(w.status, Val(ticket, w, "assignee"))
      BY <1>2, <2>1 DEF NewOK, Acceptable, Normalize, Val
    <2>4. Advances(ticket, ticket) /\ canAssignTicketStatus(ticket.status)
      BY <1>2 DEF Advances, Ticket, canAssignTicketStatus
    <2> QED BY <1>1, <2>1, <2>2, <2>3, <2>4, OrdinaryStep
  <1>3. CASE ticket.status # "supplier_support"
    <2>1. DOMAIN w = {"supplier"} /\ w.supplier = FALSE
      BY <1>3 DEF ++
    <2> HIDE DEF w
    <2>2. TypedWrite(w)
      BY <2>1 DEF TypedWrite, Technical
    <2> QED BY <1>1, <2>1, <2>2, SideStep
  <1> QED BY <1>2, <1>3

LEMMA MarkResolvedStep ==
    ASSUME ticket \in Ticket, RowOK(ticket), NEW by \in Staff, MarkResolved(by)
    PROVE  RowWritten
  <1> DEFINE owned == Owned(ticket, by)
             v == Updated(owned, RepairColumns)
  <1>1. owned \in Ticket /\ Advances(ticket, owned) /\ RowOK(owned)
    BY OwnedRow
  <1>2. Write(owned, RepairColumns) /\ canAssignTicketStatus(ticket.status)
    BY DEF MarkResolved, RepairColumns
  <1> HIDE DEF owned
  <1>3. /\ v \in Ticket /\ Advances(owned, v) /\ RowOK(v)
        /\ v.status = "resolved" /\ v.case = "resolved"
    BY <1>1, ResolveWrite DEF MarkWritten
  <1> HIDE DEF v
  <1>4. Advances(ticket, v)
    BY <1>1, <1>3, AdvancesTransitive
  <1>5. Orderly(ticket, v)
    BY <1>2, <1>3 DEF Orderly, NewOK, canAssignTicketStatus
  <1> QED BY <1>2, <1>3, <1>4, <1>5, WriteIsRowWritten DEF v, Moves

LEMMA ClosingSteps ==
    ASSUME ticket \in Ticket, RowOK(ticket),
           Close \/ (\E by \in Staff : Cancel(by)) \/ Reopen
    PROVE  RowWritten
  <1>1. ASSUME Close PROVE RowWritten
    <2>1. Write(ticket, CloseColumns) /\ requireTicketCaseClose(ticket)
      BY <1>1 DEF Close
    <2>2. MarkWritten(ticket, CloseColumns, "closed", "closed")
      BY <2>1, CloseWrite DEF requireTicketCaseClose
    <2>3. Moves(ticket, Updated(ticket, CloseColumns))
      BY <2>2 DEF MarkWritten, Moves
    <2>4. Orderly(ticket, Updated(ticket, CloseColumns))
      BY <2>1, <2>2 DEF MarkWritten, Orderly, NewOK, RowOK, requireTicketCaseClose
    <2> QED BY <2>1, <2>3, <2>4, WriteIsRowWritten
  <1>2. ASSUME NEW by \in Staff, Cancel(by) PROVE RowWritten
    <2>1. Write(ticket, CancelColumns) /\ CanCancel(ticket)
      BY <1>2 DEF Cancel
    <2>2. MarkWritten(ticket, CancelColumns, "cancelled", "cancelled")
      BY CancelWrite
    <2>3. Moves(ticket, Updated(ticket, CancelColumns))
      BY <2>2 DEF MarkWritten, Moves
    <2>4. Orderly(ticket, Updated(ticket, CancelColumns))
      BY <2>1, <2>2 DEF MarkWritten, Orderly, NewOK, RowOK, CanCancel
    <2> QED BY <2>1, <2>3, <2>4, WriteIsRowWritten
  <1>3. ASSUME Reopen PROVE RowWritten
    <2>1. Write(ticket, ReopenColumns) /\ CanReopen(ticket)
      BY <1>3 DEF Reopen
    <2>2. MarkWritten(ticket, ReopenColumns, "reopened", "in_triage")
      BY ReopenWrite
    <2>3. Moves(ticket, Updated(ticket, ReopenColumns))
      BY <2>2 DEF MarkWritten, Moves
    <2>4. Orderly(ticket, Updated(ticket, ReopenColumns))
      BY <2>1, <2>2 DEF MarkWritten, Orderly, NewOK, RowOK, CanReopen
    <2> QED BY <2>1, <2>3, <2>4, WriteIsRowWritten
  <1> QED BY <1>1, <1>2, <1>3

\* A command moves the row, whichever way it arrives.
LEMMA CommandMoves ==
    ASSUME ticket \in Ticket, RowOK(ticket), NEW by, NEW a \in Actions,
           a \in Offered(ticket, by), Ready(ticket, a)
    PROVE  LET u == Updated(ticket, CommandColumns(ticket, a))
           IN  Moves(ticket, u) /\ Orderly(ticket, u)
  <1> DEFINE u == Updated(ticket, CommandColumns(ticket, a))
  <1>1. a \in ticketCaseActions(ticket, by)
    BY DEF Offered
  <1>2. /\ u \in Ticket /\ Advances(ticket, u) /\ RowOK(u)
        /\ u.case = Target(ticket, a)
        /\ ticket.status = "closed" => u.status = "reopened"
        /\ ticket.status # "cancelled"
    BY <1>1, CommandRow
  <1> HIDE DEF u
  <1>3. Target(ticket, a) # "new"
    BY Targets DEF Actions
  <1>4. Orderly(ticket, u)
    BY <1>2, <1>3 DEF Orderly, NewOK
  <1> QED BY <1>2, <1>4 DEF Moves, u

LEMMA CommandStep ==
    ASSUME ticket \in Ticket, RowOK(ticket), NEW by, NEW a \in Actions, Command(by, a)
    PROVE  RowWritten
  <1>1. /\ a \in Offered(ticket, by) /\ Ready(ticket, a)
        /\ Write(ticket, CommandColumns(ticket, a))
    BY DEF Command
  <1> QED BY <1>1, CommandMoves, WriteIsRowWritten

----------------------------------------------------------------------------
(* The kinds of step *)

Active == {"accepted", "processing", "supplier_support"}

\* The row stays, or moves and takes the fresh commands with it.
RowMoves ==
    /\ Moves(ticket, ticket')
    /\ fresh' = IF ticket'.case = ticket.case THEN fresh ELSE {}
    /\ UNCHANGED scope

\* An invitation writes the status without a second look.
Invited(by) ==
    /\ by \in inviting /\ inviting' = inviting \ {by}
    /\ RowMoves
    /\ \/ UNCHANGED ticket
       \/ /\ ticket'.status = "supplier_support" /\ ticket'.assignee = ticket.assignee
          /\ ticket'.case = "new" => ticket.case = "new"
    /\ UNCHANGED <<calls, receipts, refused>>

\* A command takes effect ...
Applied(call) ==
    /\ Undisturbed
    /\ receipts[call.key] = NoReceipt
    /\ call.rev = ticket.rev /\ call.case = ticket.case
    /\ RowMoves /\ Orderly(ticket, ticket')
    /\ receipts' = [receipts EXCEPT ![call.key] = call]
    /\ UNCHANGED <<inviting, calls, refused>>

\* ... or is answered without one.
Answered(call) ==
    /\ \/ UNCHANGED refused
       \/ /\ refused' = refused \cup {call}
          /\ \/ receipts[call.key] \notin {NoReceipt, call}
             \/ /\ receipts[call.key] = NoReceipt
                /\ call.rev # ticket.rev \/ call.case # ticket.case
    /\ UNCHANGED <<ticket, scope, inviting, calls, receipts, fresh>>

LEMMA StaysPut == ASSUME ticket \in Ticket, RowOK(ticket) PROVE Moves(ticket, ticket)
  BY DEF Moves, Advances, Ticket

LEMMA InviteApplyStep ==
    ASSUME ticket \in Ticket, RowOK(ticket), NEW by, InviteApply(by)
    PROVE  Invited(by)
  <1> DEFINE w == [status |-> "supplier_support", supplier |-> TRUE]
             v == Updated(ticket, w)
  <1>1. /\ by \in inviting /\ inviting' = inviting \ {by}
        /\ Commit(v) \/ UNCHANGED <<ticket, scope, fresh>>
        /\ UNCHANGED <<calls, receipts, refused>>
    BY DEF InviteApply
  <1>2. CASE Commit(v)
    <2>1. DOMAIN w = {"status", "supplier"} /\ w.status = "supplier_support" /\ w.supplier = TRUE
      OBVIOUS
    <2> HIDE DEF w
    <2>2. TypedWrite(w) /\ w.status \notin Marks
      BY <2>1 DEF TypedWrite, Technical, Statuses, Marks
    <2>3. v \in Ticket /\ Advances(ticket, v)
      BY <2>2, TechnicalWrite
    <2>4. /\ RowOK(v) /\ (v.case = "new" => ticket.case = "new")
          /\ v.status = "supplier_support" /\ v.assignee = Val(ticket, w, "assignee")
      BY <2>1, <2>2, OrdinaryWrite
    <2>5. v.assignee = ticket.assignee
      BY <2>1, <2>4 DEF Val
    <2>6. /\ ticket' = v /\ fresh' = IF v.case = ticket.case THEN fresh ELSE {}
          /\ UNCHANGED scope
      BY <1>2 DEF Commit
    <2> HIDE DEF v
    <2> QED BY <1>1, <2>3, <2>4, <2>5, <2>6 DEF Invited, RowMoves, Moves
  <1>3. CASE UNCHANGED <<ticket, scope, fresh>>
    <2>1. RowMoves
      BY <1>3, StaysPut DEF RowMoves
    <2> QED BY <1>1, <1>3, <2>1 DEF Invited
  <1> QED BY <1>1, <1>2, <1>3

LEMMA ExecuteStep ==
    ASSUME ticket \in Ticket, RowOK(ticket), NEW call \in Call, Execute(call)
    PROVE  Applied(call) \/ Answered(call)
  <1>1. CASE Outcome(call) = "applied"
    <2>1. /\ receipts[call.key] = NoReceipt
          /\ call.rev = ticket.rev /\ call.case = ticket.case
          /\ call.action \in Offered(ticket, call.by) /\ Succeeds(ticket, call.action)
      BY <1>1 DEF Outcome
    <2> DEFINE v == Updated(ticket, CommandColumns(ticket, call.action))
    <2>2. call.action \in Actions
      BY DEF Call
    <2>3. Moves(ticket, v) /\ Orderly(ticket, v)
      BY <2>1, <2>2, CommandMoves DEF Succeeds
    <2>4. /\ Undisturbed /\ Commit(v) /\ refused' = refused
          /\ receipts' = [receipts EXCEPT ![call.key] = call]
          /\ UNCHANGED <<inviting, calls>>
      BY <1>1 DEF Execute
    <2> HIDE DEF v
    <2>5. RowMoves /\ Orderly(ticket, ticket')
      BY <2>3, <2>4 DEF Commit, RowMoves
    <2> QED BY <2>1, <2>4, <2>5 DEF Applied
  <1>2. CASE Outcome(call) # "applied"
    <2>1. /\ UNCHANGED <<ticket, scope, receipts, fresh, inviting, calls>>
          /\ refused' = IF Outcome(call) = "conflict" THEN refused \cup {call} ELSE refused
      BY <1>2 DEF Execute
    <2>2. Outcome(call) = "conflict" =>
             \/ receipts[call.key] \notin {NoReceipt, call}
             \/ /\ receipts[call.key] = NoReceipt
                /\ call.rev # ticket.rev \/ call.case # ticket.case
      BY DEF Outcome
    <2> HIDE DEF Outcome
    <2> QED BY <2>1, <2>2 DEF Answered
  <1> QED BY <1>1, <1>2

\* Every step is of one of these kinds.
LEMMA StepKinds ==
    ASSUME TypeOK, RowOK(ticket), [Next]_vars
    PROVE  \/ UNCHANGED vars
           \/ RowWritten
           \/ \E by \in Staff : InviteCheck(by) \/ Invited(by)
           \/ \E u \in Staff, a \in Actions, key \in Keys : Send(u, a, key)
           \/ \E call \in calls : Applied(call) \/ Answered(call)
  <1> USE DEF TypeOK
  <1>1. ASSUME NEW u \in Staff, Accept(u) PROVE RowWritten
    BY <1>1, AcceptStep
  <1>2. ASSUME NEW by \in Staff, NEW u \in Engineers, Assign(by, u) PROVE RowWritten
    BY <1>2, AssignStep
  <1>3. ASSUME \/ \E u \in Engineers : Dispatch(u)
               \/ DeferDispatch
               \/ recycleTicketAfterAcceptTimeout
               \/ recycleTicketAfterAssigneeUnavailable
        PROVE  RowWritten
    BY <1>3, DispatchSteps
  <1>4. ASSUME NEW u \in Staff,
               EscalateToSupervisor(u) \/ escalateTicketAfterRepeatedTimeout(u)
        PROVE  RowWritten
    BY <1>4, SupervisorSteps
  <1>5. ASSUME NEW u \in Engineers \cup {NoUser}, NEW sameTeam \in BOOLEAN,
               SyncConversationDispatch(u, sameTeam)
        PROVE  RowWritten
    BY <1>5, SyncConversationDispatchStep
  <1>6. ASSUME NEW by \in Staff, Escalate(by) PROVE RowWritten
    BY <1>6, EscalateStep
  <1>7. ASSUME NEW by \in Staff, RecordRepair(by) PROVE RowWritten
    BY <1>7, RecordRepairStep
  <1>8. ASSUME NEW by \in Staff, MarkResolved(by) PROVE RowWritten
    BY <1>8, MarkResolvedStep
  <1>9. ASSUME expireSupplierAuthorization \/ timeoutSupplierInvitation \/ ResolveCollaboration
        PROVE  RowWritten
    BY <1>9, LastSupplierLeavesStep
       DEF expireSupplierAuthorization, timeoutSupplierInvitation, ResolveCollaboration
  <1>10. ASSUME Close \/ (\E by \in Staff : Cancel(by)) \/ Reopen PROVE RowWritten
    BY <1>10, ClosingSteps
  <1>11. ASSUME NEW u \in Staff, NEW a \in Actions, Command(u, a) PROVE RowWritten
    BY <1>11, CommandStep
  <1>12. ASSUME NEW by \in Staff, InviteApply(by) PROVE Invited(by)
    BY <1>12, InviteApplyStep
  <1>13. ASSUME NEW call \in calls, Execute(call) PROVE Applied(call) \/ Answered(call)
    BY <1>13, ExecuteStep
  <1>14. ASSUME \/ \E by \in Staff : CreateMeetingRoom(by)
                \/ EndMeeting \/ ChildOpens \/ ChildrenEnd
         PROVE  RowWritten
    BY <1>14, HoldSteps
  <1> QED BY <1>1, <1>2, <1>3, <1>4, <1>5, <1>6, <1>7, <1>8, <1>9, <1>10, <1>11, <1>12, <1>13,
             <1>14
          DEF Next

----------------------------------------------------------------------------
(* Invariants *)

\* The sender of a command saw a revision the case has had; while it is still
\* the revision, he also sees the case.  A refused command is out of date, or
\* another command holds its key.
CommandOK ==
    /\ \A call \in calls :
          /\ call.rev <= ticket.rev
          /\ call.rev = ticket.rev => call.case = ticket.case /\ call \in fresh
    /\ \A call \in refused :
          \/ receipts[call.key] \notin {NoReceipt, call}
          \/ call.rev < ticket.rev /\ receipts[call.key] # call

Inv == TypeOK /\ RowOK(ticket) /\ CommandOK

LEMMA InitInv == Init => Inv
  <1> SUFFICES ASSUME Init PROVE Inv
    OBVIOUS
  <1>1. PICK a \in Engineers \cup {NoUser} :
          ticket = [status |-> IF a = NoUser THEN "pending" ELSE "pending_assignee_accept",
                    case |-> "new", rev |-> 0, assignee |-> a, owner |-> NoUser,
                    acknowledged |-> FALSE, accepted |-> FALSE, resolved |-> FALSE,
                    resolution |-> FALSE, resume |-> "none", resumeTech |-> "none",
                    repaired |-> FALSE, supplier |-> FALSE, meeting |-> FALSE,
                    child |-> FALSE]
    BY DEF Init
  <1>2. /\ ticket.status \in {"pending", "pending_assignee_accept"}
        /\ ticket.case = "new" /\ ticket.resolved = FALSE /\ ticket.resume = "none"
    BY <1>1
  <1>3. ticket \in Ticket
    BY <1>1, StaffIsSomebody DEF Ticket, Statuses, CaseStates
  <1>4. TypeOK
    BY <1>3 DEF Init, TypeOK
  <1>5. RowOK(ticket)
    BY <1>2 DEF RowOK
  <1>6. CommandOK
    BY DEF Init, CommandOK
  <1> QED BY <1>4, <1>5, <1>6 DEF Inv

\* A step that only moves the row.
LEMMA RowKeepsInv ==
    ASSUME Inv, RowMoves, inviting' \subseteq Staff, UNCHANGED <<calls, receipts, refused>>
    PROVE  Inv'
  <1>1. /\ ticket \in Ticket /\ ticket' \in Ticket
        /\ Advances(ticket, ticket') /\ RowOK(ticket')
    BY DEF Inv, TypeOK, RowMoves, Moves
  <1>2. ticket.rev \in Nat /\ ticket'.rev \in Nat
    BY <1>1 DEF Ticket
  <1>3. fresh' \subseteq fresh
    BY DEF RowMoves
  <1>4. TypeOK'
    BY <1>1, <1>3 DEF Inv, TypeOK, RowMoves
  <1>5. CommandOK'
    <2>1. \A call \in calls : call.rev \in Nat
      BY DEF Inv, TypeOK, Call
    <2>2. refused \subseteq calls
      BY DEF Inv, TypeOK
    <2>3. ASSUME NEW call \in calls
          PROVE  /\ call.rev <= ticket'.rev
                 /\ call.rev = ticket'.rev => call.case = ticket'.case /\ call \in fresh'
      <3>1. /\ call.rev <= ticket.rev
            /\ call.rev = ticket.rev => call.case = ticket.case /\ call \in fresh
        BY <2>3 DEF Inv, CommandOK
      <3>2. call.rev = ticket'.rev => ticket'.rev = ticket.rev /\ ticket'.case = ticket.case
        BY <1>1, <1>2, <2>1, <3>1 DEF Advances
      <3>3. call.rev <= ticket'.rev
        BY <1>1, <1>2, <2>1, <3>1 DEF Advances
      <3> QED BY <3>1, <3>2, <3>3 DEF RowMoves
    <2>4. ASSUME NEW call \in refused
          PROVE  \/ receipts[call.key] \notin {NoReceipt, call}
                 \/ call.rev < ticket'.rev /\ receipts[call.key] # call
      <3>1. \/ receipts[call.key] \notin {NoReceipt, call}
            \/ call.rev < ticket.rev /\ receipts[call.key] # call
        BY <2>4 DEF Inv, CommandOK
      <3>2. call.rev \in Nat
        BY <2>1, <2>2
      <3> QED BY <1>1, <1>2, <3>1, <3>2 DEF Advances
    <2> QED BY <2>3, <2>4 DEF CommandOK
  <1> QED BY <1>1, <1>4, <1>5 DEF Inv

LEMMA NextInv == Inv /\ [Next]_vars => Inv'
  <1> SUFFICES ASSUME Inv, [Next]_vars PROVE Inv'
    OBVIOUS
  <1>0. TypeOK /\ RowOK(ticket)
    BY DEF Inv
  <1>1. CASE UNCHANGED vars
    BY <1>1 DEF Inv, TypeOK, RowOK, CommandOK, vars
  <1>2. CASE RowWritten
    <2>1. RowMoves /\ inviting' \subseteq Staff
      BY <1>0, <1>2 DEF RowWritten, RowMoves, TypeOK
    <2> QED BY <1>2, <2>1, RowKeepsInv DEF RowWritten
  <1>3. ASSUME NEW by \in Staff, InviteCheck(by) PROVE Inv'
    <2>1. RowMoves
      BY <1>0, <1>3, StaysPut DEF InviteCheck, RowMoves, TypeOK
    <2>2. inviting' \subseteq Staff /\ UNCHANGED <<calls, receipts, refused>>
      BY <1>0, <1>3 DEF InviteCheck, TypeOK
    <2> QED BY <2>1, <2>2, RowKeepsInv
  <1>4. ASSUME NEW by \in Staff, Invited(by) PROVE Inv'
    <2>1. RowMoves /\ inviting' \subseteq Staff /\ UNCHANGED <<calls, receipts, refused>>
      BY <1>0, <1>4 DEF Invited, TypeOK
    <2> QED BY <2>1, RowKeepsInv
  <1>5. ASSUME NEW u \in Staff, NEW a \in Actions, NEW key \in Keys, Send(u, a, key) PROVE Inv'
    <2> DEFINE call == [key |-> key, by |-> u, action |-> a,
                        case |-> ticket.case, rev |-> ticket.rev]
    <2>1. /\ calls' = calls \cup {call} /\ fresh' = fresh \cup {call}
          /\ UNCHANGED <<ticket, scope, inviting, receipts, refused>>
      BY <1>5 DEF Send
    <2>2. ticket.rev \in Nat /\ ticket.case \in CaseStates
      BY <1>0 DEF TypeOK, Ticket
    <2>3. call \in Call /\ call.rev = ticket.rev /\ call.case = ticket.case
      BY <1>5, <2>2 DEF Call
    <2> HIDE DEF call
    <2>4. TypeOK'
      BY <1>0, <2>1, <2>3 DEF TypeOK
    <2>5. CommandOK'
      BY <2>1, <2>2, <2>3 DEF CommandOK, Inv
    <2>6. RowOK(ticket')
      BY <1>0, <2>1
    <2> QED BY <2>4, <2>5, <2>6 DEF Inv
  <1>6. ASSUME NEW call \in calls, Applied(call) PROVE Inv'
    <2>1. /\ receipts[call.key] = NoReceipt
          /\ call.rev = ticket.rev /\ call.case = ticket.case
          /\ RowMoves
          /\ receipts' = [receipts EXCEPT ![call.key] = call]
          /\ UNCHANGED <<inviting, calls, refused>>
      BY <1>6 DEF Applied
    <2>2. /\ ticket' \in Ticket /\ Advances(ticket, ticket') /\ RowOK(ticket')
          /\ ticket.rev \in Nat /\ ticket'.rev \in Nat
      BY <1>0, <2>1 DEF TypeOK, RowMoves, Moves, Ticket
    <2>3. call \in Call /\ call.key \in Keys
      BY <1>0, <1>6 DEF TypeOK, Call
    <2>4. receipts' \in [Keys -> calls \cup {NoReceipt}]
      BY <1>0, <1>6, <2>1, <2>3 DEF TypeOK
    <2>5. \A k \in Keys : receipts'[k] # NoReceipt => receipts'[k].key = k
      BY <1>0, <2>1, <2>3 DEF TypeOK
    <2>6. TypeOK'
      BY <1>0, <2>1, <2>2, <2>4, <2>5 DEF TypeOK, RowMoves
    <2>7. \A c \in calls : c.rev \in Nat
      BY <1>0 DEF TypeOK, Call
    <2>8. ASSUME NEW c \in calls
          PROVE  /\ c.rev <= ticket'.rev
                 /\ c.rev = ticket'.rev => c.case = ticket'.case /\ c \in fresh'
      <3>1. /\ c.rev <= ticket.rev
            /\ c.rev = ticket.rev => c.case = ticket.case /\ c \in fresh
        BY <2>8 DEF Inv, CommandOK
      <3>2. c.rev = ticket'.rev => ticket'.rev = ticket.rev /\ ticket'.case = ticket.case
        BY <2>2, <2>7, <3>1 DEF Advances
      <3>3. c.rev <= ticket'.rev
        BY <2>2, <2>7, <3>1 DEF Advances
      <3> QED BY <2>1, <3>1, <3>2, <3>3 DEF RowMoves
    <2>9. ASSUME NEW c \in refused
          PROVE  \/ receipts'[c.key] \notin {NoReceipt, c}
                 \/ c.rev < ticket'.rev /\ receipts'[c.key] # c
      <3>1. \/ receipts[c.key] \notin {NoReceipt, c}
            \/ c.rev < ticket.rev /\ receipts[c.key] # c
        BY <2>9 DEF Inv, CommandOK
      <3>2. c \in calls /\ c.rev \in Nat
        BY <1>0, <2>7, <2>9 DEF TypeOK
      <3>3. c.key \in Keys
        BY <1>0, <3>2 DEF TypeOK, Call
      <3>4. CASE c.key = call.key
        <4>1. c.rev < ticket.rev
          BY <2>1, <3>1, <3>4
        <4>2. c # call
          BY <2>1, <2>2, <4>1
        <4>3. receipts'[c.key] = call
          BY <1>0, <2>1, <2>3, <3>4 DEF TypeOK
        <4>4. c.rev < ticket'.rev
          BY <2>2, <3>2, <4>1 DEF Advances
        <4> QED BY <4>2, <4>3, <4>4
      <3>5. CASE c.key # call.key
        <4>1. receipts'[c.key] = receipts[c.key]
          BY <1>0, <2>1, <2>3, <3>3, <3>5 DEF TypeOK
        <4> QED BY <2>2, <3>1, <3>2, <4>1 DEF Advances
      <3> QED BY <3>4, <3>5
    <2>10. CommandOK'
      BY <2>1, <2>8, <2>9 DEF CommandOK
    <2> QED BY <2>2, <2>6, <2>10 DEF Inv
  <1>7. ASSUME NEW call \in calls, Answered(call) PROVE Inv'
    <2>1. UNCHANGED <<ticket, scope, inviting, calls, receipts, fresh>>
      BY <1>7 DEF Answered
    <2>2. refused' \subseteq refused \cup {call}
      BY <1>7 DEF Answered
    <2>3. TypeOK'
      BY <1>0, <1>7, <2>1, <2>2 DEF TypeOK
    <2>4. ASSUME NEW c \in refused'
          PROVE  \/ receipts[c.key] \notin {NoReceipt, c}
                 \/ c.rev < ticket.rev /\ receipts[c.key] # c
      <3>1. CASE c \in refused
        BY <3>1 DEF Inv, CommandOK
      <3>2. CASE c \notin refused
        <4>1. /\ c = call
              /\ \/ receipts[call.key] \notin {NoReceipt, call}
                 \/ /\ receipts[call.key] = NoReceipt
                    /\ call.rev # ticket.rev \/ call.case # ticket.case
          BY <1>7, <2>4, <3>2 DEF Answered
        <4>2. /\ call.rev <= ticket.rev
              /\ call.rev = ticket.rev => call.case = ticket.case
          BY <1>7 DEF Inv, CommandOK
        <4>3. call \in Call /\ call.rev \in Nat /\ ticket.rev \in Nat
          BY <1>0, <1>7 DEF TypeOK, Call, Ticket
        <4>4. call # NoReceipt
          BY <4>3, ReceiptAssumption
        <4> QED BY <4>1, <4>2, <4>3, <4>4
      <3> QED BY <3>1, <3>2
    <2>5. CommandOK'
      BY <2>1, <2>4 DEF CommandOK, Inv
    <2>6. RowOK(ticket')
      BY <1>0, <2>1
    <2> QED BY <2>3, <2>5, <2>6 DEF Inv
  <1> QED BY <1>0, <1>1, <1>2, <1>3, <1>4, <1>5, <1>6, <1>7, StepKinds

\* Inv holds in every reachable state of TicketCase, for every workflow and
\* kind of ticket and whatever the interleaving of invitations: the types, what
\* the row of the ticket relates, and what the receipts of commands relate.
THEOREM Invariance == Spec => []Inv
  <1>1. Inv /\ [Next]_vars => Inv'
    BY NextInv
  <1> QED BY <1>1, InitInv, PTL DEF Spec

----------------------------------------------------------------------------
(* Theorems *)

\* The columns of the ticket, the receipts and the histories keep their types:
\* no path stores a status or a case the tables do not know.
THEOREM TypeCorrect == Spec => []TypeOK
  <1>1. Inv => TypeOK
    BY DEF Inv
  <1> QED BY <1>1, Invariance, PTL

\* A case is resolved, pending closure or closed exactly while a resolution
\* time is recorded, and then a repair record or a resolution is there too,
\* for every order of technical operations, commands and late invitations.
THEOREM ResolutionRecordedHolds == Spec => []ResolutionRecorded
  <1>1. Inv => ResolutionRecorded
    BY DEF Inv, RowOK, ResolutionRecorded
  <1> QED BY <1>1, Invariance, PTL

\* The saved step of a wait exists only while the case waits.
THEOREM ResumeOnlyWhileWaitingHolds == Spec => []ResumeOnlyWhileWaiting
  <1>1. Inv => ResumeOnlyWhileWaiting
    BY DEF Inv, RowOK, ResumeOnlyWhileWaiting
  <1> QED BY <1>1, Invariance, PTL

\* A command answered with ErrTicketCaseConflict never takes effect later.
THEOREM ConflictIsFinalHolds == Spec => []ConflictIsFinal
  <1>1. Inv => ConflictIsFinal
    BY DEF Inv, CommandOK, ConflictIsFinal
  <1> QED BY <1>1, Invariance, PTL

\* A command with a receipt is replayed or forbidden: it neither conflicts nor
\* takes effect again.
THEOREM RetryNeverConflictsHolds == Spec => []RetryNeverConflicts
  <1>1. Inv => RetryNeverConflicts
    <2> SUFFICES ASSUME Inv, NEW call \in calls, receipts[call.key] = call
                 PROVE  Outcome(call) \in {"replay", "forbidden"}
      BY DEF RetryNeverConflicts
    <2>1. call # NoReceipt
      BY ReceiptAssumption DEF Inv, TypeOK
    <2> QED BY <2>1 DEF Outcome
  <1> QED BY <1>1, Invariance, PTL

\* A receipt is written only for a command whose sender's view of the case is
\* still current: not after the case moved away, nor after it came back.
THEOREM StaleNeverAppliedHolds == Spec => StaleNeverApplied
  <1>1. Inv /\ [Next]_vars =>
            [\A k \in Keys : receipts'[k] # receipts[k] => receipts'[k] \in fresh]_vars
    <2> SUFFICES ASSUME Inv, [Next]_vars, NEW k \in Keys, receipts'[k] # receipts[k]
                 PROVE  receipts'[k] \in fresh
      OBVIOUS
    <2>1. TypeOK /\ RowOK(ticket)
      BY DEF Inv
    <2>2. PICK call \in calls : Applied(call)
      BY <2>1, StepKinds DEF vars, RowWritten, InviteCheck, Invited, Send, Answered
    <2>3. call \in fresh
      BY <2>2 DEF Applied, Inv, CommandOK
    <2>4. receipts'[k] = call
      BY <2>1, <2>2 DEF Applied, TypeOK
    <2> QED BY <2>3, <2>4
  <1> QED BY <1>1, Invariance, PTL DEF Spec, StaleNeverApplied

----------------------------------------------------------------------------
(* Steps offered and steps taken *)

\* The guard of a write is a guard on the case it leads to, and on the child
\* tickets of a ticket it ends.
LEMMA PermittedCase ==
    ASSUME NEW t, NEW w, Allows(scope.workflow, t.case, Updated(t, w).case)
    PROVE  Permitted(t, w) <=> RelationsPermit(t, w)
  <1> DEFINE all == Sync(t, w)
  <1>1. "case" \in DOMAIN all => Updated(t, w).case = all.case
    <2> HIDE DEF all
    <2>1. "case" \in DOMAIN all => (all ++ t).case = all.case
      BY DEF ++
    <2> QED BY <2>1 DEF Updated, all
  <1> QED BY <1>1 DEF Permitted, WorkflowPermits

\* Of the steps forward, only closing asks for the child tickets.
LEMMA CommandRelations ==
    ASSUME NEW t, NEW a \in Actions \ {"cancel", "reopen"}
    PROVE  RelationsPermit(t, CommandColumns(t, a)) <=> ~(a = "close" /\ t.child)
  <1> DEFINE w == CommandColumns(t, a)
  <1>1. CASE a = "close"
    <2>1. "status" \in DOMAIN w /\ w.status = "closed"
      BY <1>1 DEF CommandColumns, CloseColumns, CollaborationClosed, ++
    <2> QED BY <1>1, <2>1 DEF RelationsPermit
  <1>2. CASE a # "close"
    <2>1. a \in Direct
      BY <1>2 DEF Actions, Direct
    <2>2. DirectlyWrites(t, a, w)
      BY <2>1, DirectColumns
    <2> HIDE DEF w
    <2>3. "status" \in DOMAIN w => w.status \notin {"closed", "cancelled"}
      BY <2>1, <2>2, ActiveStatus DEF DirectlyWrites, Direct
    <2> QED BY <1>2, <2>3 DEF RelationsPermit, w
  <1> QED BY <1>1, <1>2

LEMMA OfferedSucceeds ==
    ASSUME Inv, NEW u, NEW a \in Actions \ {"cancel", "reopen"}, a \in Offered(ticket, u)
    PROVE  Succeeds(ticket, a) <=> ~HeldBack(ticket, a)
  <1>1. ticket \in Ticket /\ RowOK(ticket)
    BY DEF Inv, TypeOK
  <1>2. /\ a \in ticketCaseActions(ticket, u)
        /\ Allows(scope.workflow, ticket.case, Target(ticket, a))
    BY DEF Offered
  <1>3. /\ a = "resolve" => ~scope.product
        /\ a = "request_closure" => ticket.case = "resolved"
        /\ a = "close" => ticket.case \in {"resolved", "closure_pending"}
    BY <1>1, <1>2, CommandStarts
  <1>4. Ready(ticket, a) <=> ~(a = "resolve" /\ ticket.meeting)
    BY <1>1, <1>3 DEF Ready, RowOK, requireTicketCaseClose, validateRepairCompletionReadiness
  <1>5. CASE Ready(ticket, a)
    <2>1. Updated(ticket, CommandColumns(ticket, a)).case = Target(ticket, a)
      BY <1>1, <1>2, <1>5, CommandRow
    <2>2. Permitted(ticket, CommandColumns(ticket, a)) <=> ~(a = "close" /\ ticket.child)
      BY <1>2, <2>1, PermittedCase, CommandRelations
    <2> QED BY <1>4, <1>5, <2>2 DEF Succeeds, HeldBack
  <1>6. CASE ~Ready(ticket, a)
    BY <1>4, <1>6 DEF Succeeds, HeldBack
  <1> QED BY <1>5, <1>6

\* Of the steps forward the ticket page offers, resolving a case with an
\* unfinished meeting and closing one with an open child ticket fail; every
\* other one succeeds when it is taken at once.
THEOREM OfferedStepsSucceedHolds == Spec => []OfferedStepsSucceed
  <1>1. Inv => OfferedStepsSucceed
    BY OfferedSucceeds DEF OfferedStepsSucceed
  <1> QED BY <1>1, Invariance, PTL

\* A ticket's workflow has all the required edges.
LEMMA RequiredEdge ==
    ASSUME Inv, NEW from \in CaseStates, NEW to \in RequiredCaseTransitions[from]
    PROVE  Allows(scope.workflow, from, to)
  <1>1. scope \in Scopes
    BY DEF Inv, TypeOK
  <1>2. scope.workflow = Unbound \/ Validate(scope.workflow)
    BY <1>1, TicketAssumption
  <1>3. to \in CaseStates
    BY DEF RequiredCaseTransitions, CaseStates
  <1>4. CASE scope.workflow = Unbound
    BY <1>3, <1>4 DEF Unbound, Allows
  <1>5. CASE Validate(scope.workflow)
    BY <1>5 DEF Validate, Allows
  <1> QED BY <1>2, <1>4, <1>5

\* What the page offers a dispatch manager.
LEMMA ManagerActions ==
    ASSUME Inv, NEW u \in Managers
    PROVE  /\ ticket.case = "acknowledged" => "triage" \in ticketCaseActions(ticket, u)
           /\ ticket.case \in {"in_triage", "assigned"} =>
                 "restore" \in ticketCaseActions(ticket, u)
           /\ ticket.case = "waiting" => "resume" \in ticketCaseActions(ticket, u)
           /\ ticket.case = "restored" /\ ~scope.product =>
                 "resolve" \in ticketCaseActions(ticket, u)
           /\ ticket.case = "resolved" => "request_closure" \in ticketCaseActions(ticket, u)
           /\ ticket.case = "closure_pending" => "close" \in ticketCaseActions(ticket, u)
  <1>1. CanEdit(ticket, u)
    BY TicketAssumption DEF CanEdit
  <1>2. CASE ticket.case = "acknowledged"
    BY <1>1, <1>2 DEF ticketCaseActions
  <1>3. CASE ticket.case = "in_triage"
    BY <1>1, <1>3 DEF ticketCaseActions
  <1>4. CASE ticket.case = "assigned"
    BY <1>1, <1>4 DEF ticketCaseActions
  <1>5. CASE ticket.case = "waiting"
    BY <1>1, <1>5 DEF ticketCaseActions
  <1>6. CASE ticket.case = "restored"
    BY <1>1, <1>6 DEF ticketCaseActions
  <1>7. CASE ticket.case = "resolved"
    BY <1>1, <1>7 DEF ticketCaseActions
  <1>8. CASE ticket.case = "closure_pending"
    BY <1>1, <1>8 DEF ticketCaseActions
  <1> QED BY <1>2, <1>3, <1>4, <1>5, <1>6, <1>7, <1>8

----------------------------------------------------------------------------
(* Without a write inside an invitation *)

\* While a supplier is being invited the ticket stays active.
InviteOK == inviting # {} => Normalize(ticket.status) \in Active

OrderInv == Inv /\ NewOK(ticket) /\ InviteOK

LEMMA OrderedSteps ==
    ASSUME ~LateInvite, OrderInv, [Next]_vars
    PROVE  OrderInv' /\ (UNCHANGED ticket \/ Orderly(ticket, ticket'))
  <1>0. Inv /\ TypeOK /\ RowOK(ticket) /\ NewOK(ticket) /\ InviteOK
    BY DEF OrderInv, Inv
  <1>1. Inv'
    BY <1>0, NextInv
  <1>2. CASE UNCHANGED vars
    <2>1. NewOK(ticket') /\ InviteOK'
      BY <1>0, <1>2 DEF vars, InviteOK
    <2> QED BY <1>1, <1>2, <2>1 DEF vars, OrderInv
  <1>3. CASE RowWritten
    <2>1. inviting' = {} /\ Orderly(ticket, ticket')
      BY <1>3 DEF RowWritten, Undisturbed
    <2>2. NewOK(ticket') /\ InviteOK'
      BY <1>0, <2>1 DEF Orderly, InviteOK
    <2> QED BY <1>1, <2>1, <2>2 DEF OrderInv
  <1>4. ASSUME NEW by \in Staff, InviteCheck(by)
        PROVE  OrderInv' /\ UNCHANGED ticket
    <2>1. UNCHANGED ticket /\ Normalize(ticket.status) \in Active
      BY <1>4 DEF InviteCheck, Active
    <2>2. NewOK(ticket') /\ InviteOK'
      BY <1>0, <2>1 DEF InviteOK
    <2> QED BY <1>1, <2>1, <2>2 DEF OrderInv
  <1>5. ASSUME NEW by \in Staff, Invited(by)
        PROVE  OrderInv' /\ (UNCHANGED ticket \/ Orderly(ticket, ticket'))
    <2>1. Normalize(ticket.status) \in Active
      BY <1>0, <1>5 DEF Invited, InviteOK
    <2>2. CASE UNCHANGED ticket
      <3>1. NewOK(ticket') /\ InviteOK'
        BY <1>0, <2>1, <2>2 DEF InviteOK
      <3> QED BY <1>1, <2>2, <3>1 DEF OrderInv
    <2>3. CASE /\ ticket'.status = "supplier_support" /\ ticket'.assignee = ticket.assignee
               /\ ticket'.case = "new" => ticket.case = "new"
      <3>1. ticket.status \notin {"closed", "cancelled", "pending", "pending_dispatch"}
        BY <2>1 DEF Normalize, Active
      <3>2. NewOK(ticket')
        BY <1>0, <2>3, <3>1 DEF NewOK, Acceptable, Normalize
      <3>3. InviteOK'
        BY <2>3 DEF InviteOK, Normalize, Active
      <3>4. Orderly(ticket, ticket')
        BY <3>1, <3>2 DEF Orderly
      <3> QED BY <1>1, <3>2, <3>3, <3>4 DEF OrderInv
    <2> QED BY <1>5, <2>2, <2>3 DEF Invited
  <1>6. ASSUME NEW u \in Staff, NEW a \in Actions, NEW key \in Keys, Send(u, a, key)
        PROVE  OrderInv' /\ UNCHANGED ticket
    <2>1. UNCHANGED <<ticket, inviting>>
      BY <1>6 DEF Send
    <2>2. NewOK(ticket') /\ InviteOK'
      BY <1>0, <2>1 DEF InviteOK
    <2> QED BY <1>1, <2>1, <2>2 DEF OrderInv
  <1>7. ASSUME NEW call \in calls, Applied(call)
        PROVE  OrderInv' /\ Orderly(ticket, ticket')
    <2>1. inviting' = {} /\ Orderly(ticket, ticket')
      BY <1>7 DEF Applied, Undisturbed
    <2>2. NewOK(ticket') /\ InviteOK'
      BY <1>0, <2>1 DEF Orderly, InviteOK
    <2> QED BY <1>1, <2>1, <2>2 DEF OrderInv
  <1>8. ASSUME NEW call \in calls, Answered(call)
        PROVE  OrderInv' /\ UNCHANGED ticket
    <2>1. UNCHANGED <<ticket, inviting>>
      BY <1>8 DEF Answered
    <2>2. NewOK(ticket') /\ InviteOK'
      BY <1>0, <2>1 DEF InviteOK
    <2> QED BY <1>1, <2>1, <2>2 DEF OrderInv
  <1> QED BY <1>0, <1>2, <1>3, <1>4, <1>5, <1>6, <1>7, <1>8, StepKinds

LEMMA OrderInvariance == ASSUME ~LateInvite PROVE Spec => []OrderInv
  <1>1. Init => OrderInv
    <2> SUFFICES ASSUME Init PROVE NewOK(ticket) /\ InviteOK
      BY InitInv DEF OrderInv
    <2>1. PICK a \in Engineers \cup {NoUser} :
            /\ ticket.status = IF a = NoUser THEN "pending" ELSE "pending_assignee_accept"
            /\ ticket.assignee = a
      BY DEF Init
    <2> QED BY <2>1 DEF Init, NewOK, Acceptable, Normalize, InviteOK
  <1>2. OrderInv /\ [Next]_vars => OrderInv'
    BY OrderedSteps
  <1> QED BY <1>1, <1>2, PTL DEF Spec

\* When nothing runs between the check and the transaction of an invitation, a
\* closed ticket leaves that status by being reopened only, and a cancelled one
\* never does.
THEOREM TerminalStatusIsFinalHolds == ASSUME ~LateInvite PROVE Spec => TerminalStatusIsFinal
  <1>1. OrderInv /\ [Next]_vars =>
          [/\ ticket.status = "closed" => ticket'.status \in {"closed", "reopened"}
           /\ ticket.status = "cancelled" => ticket'.status = "cancelled"]_vars
    BY OrderedSteps DEF Orderly
  <1> QED BY <1>1, OrderInvariance, PTL DEF Spec, TerminalStatusIsFinal

LEMMA AcceptTargetOfNew ==
    ASSUME NEW t, NewOK(t), t.case = "new"
    PROVE  AcceptTarget(t) \in {"processing", "accepted", "supplier_support"}
  BY DEF NewOK, Acceptable, AcceptTarget, Normalize

\* No case is stranded, for any workflow Validate accepts: a new case can be
\* accepted, and every other open one has a step towards its closure, except
\* while a meeting or a child ticket is in the way.
THEOREM CaseCanAdvanceHolds == ASSUME ~LateInvite PROVE Spec => []CaseCanAdvance
  <1>1. ASSUME OrderInv PROVE CaseCanAdvance
    <2> USE <1>1
    <2>0. Inv /\ ticket \in Ticket /\ RowOK(ticket) /\ NewOK(ticket)
      BY DEF OrderInv, Inv, TypeOK
    <2> SUFFICES ASSUME NEW u \in Managers
                 PROVE  /\ ticket.case = "new" =>
                              /\ AcceptTarget(ticket) # "none"
                              /\ OwnershipPermitted(ticket, u)
                              /\ Permitted(Owned(ticket, u),
                                           [status |-> AcceptTarget(ticket), assignee |-> u])
                        /\ ticket.case = "acknowledged" =>
                              "triage" \in Offered(ticket, u) /\ Succeeds(ticket, "triage")
                        /\ ticket.case \in {"in_triage", "assigned"} =>
                              "restore" \in Offered(ticket, u) /\ Succeeds(ticket, "restore")
                        /\ ticket.case = "waiting" =>
                              "resume" \in Offered(ticket, u) /\ Succeeds(ticket, "resume")
                        /\ ticket.case = "restored" =>
                              \/ ticket.meeting
                              \/ "resolve" \in Offered(ticket, u) /\ Succeeds(ticket, "resolve")
                              \/ /\ ticket.status # "resolved"
                                 /\ validateRepairCompletionReadiness(ticket)
                                 /\ OwnershipPermitted(ticket, u)
                                 /\ Permitted(Owned(ticket, u),
                                              [status |-> "resolved", resolved |-> TRUE])
                        /\ ticket.case = "resolved" =>
                              /\ "request_closure" \in Offered(ticket, u)
                              /\ Succeeds(ticket, "request_closure")
                        /\ ticket.case = "closure_pending" =>
                              ticket.child \/ ("close" \in Offered(ticket, u) /\ Succeeds(ticket, "close"))
      BY DEF CaseCanAdvance
    <2>1. /\ u \in Staff /\ u # NoUser
          /\ u \in Staff \cup {NoUser}
      BY StaffIsSomebody DEF Staff
    <2> DEFINE owned == Owned(ticket, u)
    <2>2. /\ owned \in Ticket /\ RowOK(owned)
          /\ owned.case = IF ticket.case = "new" THEN FirstCase ELSE ticket.case
      BY <2>0, <2>1, OwnedRow
    <2>a. ticket.case \in {"new", "restored"} =>
             RelationsPermit(ticket, OwnershipColumns(ticket, u))
      <3>1. ticket.case \in {"new", "restored"} => ticket.status \notin {"closed", "cancelled"}
        BY <2>0 DEF RowOK
      <3>2. OwnershipColumns(ticket, u).status \in {"accepted", ticket.status}
        BY DEF OwnershipColumns
      <3> QED BY <3>1, <3>2 DEF RelationsPermit
    <2>3. ticket.case = "restored" => OwnershipPermitted(ticket, u)
      <3>1. ticket.case = "restored" => OwnershipColumns(ticket, u).case = ticket.case
        BY DEF OwnershipColumns
      <3>2. "case" \in DOMAIN OwnershipColumns(ticket, u)
        BY DEF OwnershipColumns
      <3>3. Sync(ticket, OwnershipColumns(ticket, u)) = OwnershipColumns(ticket, u)
        BY <3>2 DEF Sync, SyncWith
      <3> QED BY <2>a, <3>1, <3>3 DEF OwnershipPermitted, Permitted, WorkflowPermits, Allows
    <2>4. ASSUME NEW a \in Actions \ {"cancel", "reopen"}, a \in ticketCaseActions(ticket, u),
                 Target(ticket, a) \in RequiredCaseTransitions[ticket.case],
                 ~HeldBack(ticket, a)
          PROVE  a \in Offered(ticket, u) /\ Succeeds(ticket, a)
      <3>1. ticket.case \in CaseStates
        BY <2>0 DEF Ticket
      <3>2. Allows(scope.workflow, ticket.case, Target(ticket, a))
        BY <2>0, <2>4, <3>1, RequiredEdge
      <3>3. a \in Offered(ticket, u)
        BY <2>4, <3>2 DEF Offered
      <3> QED BY <2>0, <2>4, <3>3, OfferedSucceeds
    <2>5. CASE ticket.case = "new"
      <3> DEFINE w == [status |-> AcceptTarget(ticket), assignee |-> u]
                 v == Updated(owned, w)
      <3>1. AcceptTarget(ticket) \in {"processing", "accepted", "supplier_support"}
        BY <2>0, <2>5, AcceptTargetOfNew
      <3>2. /\ Allows(scope.workflow, "new", FirstCase)
            /\ FirstCase \in {"assigned", "acknowledged"}
            /\ Allows(scope.workflow, FirstCase, "assigned")
        <4>1. /\ "acknowledged" \in RequiredCaseTransitions["new"]
              /\ "assigned" \in RequiredCaseTransitions["acknowledged"]
          BY DEF RequiredCaseTransitions
        <4>2. /\ Allows(scope.workflow, "new", "acknowledged")
              /\ Allows(scope.workflow, "acknowledged", "assigned")
          BY <2>0, <4>1, RequiredEdge DEF CaseStates
        <4>3. Allows(scope.workflow, "assigned", "assigned")
          BY DEF Allows
        <4> QED BY <4>2, <4>3 DEF FirstCase
      <3>3. OwnershipPermitted(ticket, u)
        <4>1. /\ OwnershipColumns(ticket, u).case = FirstCase
              /\ "case" \in DOMAIN OwnershipColumns(ticket, u)
          BY <2>5 DEF OwnershipColumns
        <4>2. Sync(ticket, OwnershipColumns(ticket, u)) = OwnershipColumns(ticket, u)
          BY <4>1 DEF Sync, SyncWith
        <4> QED BY <2>5, <2>a, <3>2, <4>1, <4>2
               DEF OwnershipPermitted, Permitted, WorkflowPermits
      <3>4. /\ DOMAIN w = {"status", "assignee"}
            /\ w.status = AcceptTarget(ticket) /\ w.assignee = u
        OBVIOUS
      <3> HIDE DEF owned, w
      <3>5. TypedWrite(w)
        BY <2>1, <3>1, <3>4 DEF TypedWrite, Technical, Statuses
      <3>6. Follows(owned, w, v)
        BY <2>2, <3>4, <3>5, CompletedRow
      <3> HIDE DEF v
      <3>7. v.status = AcceptTarget(ticket) /\ v.assignee = u
        BY <3>4, <3>6 DEF Val, Follows
      <3>8. v.case = "assigned"
        BY <2>1, <2>2, <2>5, <3>1, <3>2, <3>6, <3>7 DEF Projected, Follows
      <3>9. Permitted(owned, w)
        <4>1. RelationsPermit(owned, w)
          BY <3>1, <3>4 DEF RelationsPermit
        <4> QED BY <2>2, <2>5, <3>2, <3>8, <4>1, PermittedCase DEF v
      <3> QED BY <2>5, <3>1, <3>3, <3>9 DEF owned, w
    <2>6. CASE ticket.case = "restored"
      <3> DEFINE w == [status |-> "resolved", resolved |-> TRUE]
                 v == Updated(owned, w)
      <3>1. ticket.status # "resolved"
        BY <2>0, <2>6 DEF RowOK
      <3>2. Allows(scope.workflow, "restored", "resolved")
        BY <2>0, RequiredEdge DEF CaseStates, RequiredCaseTransitions
      <3>3. DOMAIN w = {"status", "resolved"} /\ w.status = "resolved" /\ w.resolved = TRUE
        OBVIOUS
      <3> HIDE DEF owned, w
      <3>4. TypedWrite(w)
        BY <3>3 DEF TypedWrite, Technical, Statuses
      <3>5. Follows(owned, w, v)
        BY <2>2, <3>3, <3>4, CompletedRow
      <3> HIDE DEF v
      <3>6. v.case = "resolved"
        BY <3>3, <3>5 DEF Val, Projected, Follows
      <3>7. Permitted(owned, w)
        <4>1. RelationsPermit(owned, w)
          BY <3>3 DEF RelationsPermit
        <4> QED BY <2>2, <2>6, <3>2, <3>6, <4>1, PermittedCase DEF v
      <3> QED BY <2>3, <2>6, <3>1, <3>7 DEF owned, w, validateRepairCompletionReadiness
    <2>7. CASE ticket.case \notin {"new", "restored"}
      <3>1. ticket.case = "acknowledged" =>
               "triage" \in Offered(ticket, u) /\ Succeeds(ticket, "triage")
        BY <2>0, <2>4, ManagerActions, Targets DEF Actions, RequiredCaseTransitions, HeldBack
      <3>2. ticket.case \in {"in_triage", "assigned"} =>
               "restore" \in Offered(ticket, u) /\ Succeeds(ticket, "restore")
        BY <2>0, <2>4, ManagerActions, Targets DEF Actions, RequiredCaseTransitions, HeldBack
      <3>3. ticket.case = "waiting" =>
               "resume" \in Offered(ticket, u) /\ Succeeds(ticket, "resume")
        BY <2>0, <2>4, ManagerActions, Targets DEF Actions, RequiredCaseTransitions, HeldBack
      <3>4. ticket.case = "resolved" =>
               "request_closure" \in Offered(ticket, u) /\ Succeeds(ticket, "request_closure")
        BY <2>0, <2>4, ManagerActions, Targets DEF Actions, RequiredCaseTransitions, HeldBack
      <3>5. ticket.case = "closure_pending" =>
               ticket.child \/ ("close" \in Offered(ticket, u) /\ Succeeds(ticket, "close"))
        BY <2>0, <2>4, ManagerActions, Targets DEF Actions, RequiredCaseTransitions, HeldBack
      <3> QED BY <2>7, <3>1, <3>2, <3>3, <3>4, <3>5
    <2> QED BY <2>5, <2>6, <2>7
  <1>2. OrderInv => CaseCanAdvance
    BY <1>1
  <1> QED BY <1>2, OrderInvariance, PTL

=============================================================================
