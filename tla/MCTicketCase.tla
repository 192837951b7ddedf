---------------------------- MODULE MCTicketCase ----------------------------
(* Small instances of TicketCase for TLC. *)
EXTENDS TicketCase

Kinds(workflows) == [product : BOOLEAN, linked : BOOLEAN, workflow : workflows]

\* Every kind of ticket under the strictest workflow; under the most permissive
\* one, and without a workflow, tickets that are both product and linked or none.
StateScopes ==
    Kinds({RequiredCaseTransitions})
    \cup {s \in Kinds({DefaultWorkflow, Unbound}) : s.product = s.linked}

\* Bound: a ticket does not have a meeting and an open child at the same time.
OneHold == ~(ticket.meeting /\ ticket.child)

BoundScopes == Kinds({RequiredCaseTransitions, DefaultWorkflow})

UnboundScopes == Kinds({Unbound})

\* Tickets all case commands apply to, and that dispatch may assign.
CommandScopes ==
    {s \in Kinds({DefaultWorkflow}) : ~s.product /\ ~s.linked}

StrictCommandScopes ==
    {s \in Kinds({RequiredCaseTransitions}) : ~s.product /\ ~s.linked}

=============================================================================
