---------------------------- MODULE CaseWorkflow ----------------------------
(***************************************************************************)
(* The transition policy of customer cases, internal/pkg/ticketpolicy.     *)
(*                                                                         *)
(* A workflow is the table an administrator publishes for a project: the   *)
(* states a case may move to from each state.  A ticket keeps the version  *)
(* it was created with.                                                    *)
(***************************************************************************)
EXTENDS Naturals

CaseStates ==
    {"new", "acknowledged", "in_triage", "assigned", "waiting", "restored",
     "resolved", "closure_pending", "closed", "cancelled"}

\* Every transition the product knows; a workflow selects some of them.
caseWorkflow ==
    [new             |-> {"acknowledged", "in_triage", "assigned", "cancelled"},
     acknowledged    |-> {"in_triage", "assigned", "waiting", "resolved", "cancelled"},
     in_triage       |-> {"assigned", "waiting", "restored", "resolved", "cancelled"},
     assigned        |-> {"in_triage", "waiting", "restored", "resolved", "cancelled"},
     waiting         |-> {"acknowledged", "in_triage", "assigned", "restored", "resolved",
                          "closure_pending", "cancelled"},
     restored        |-> {"in_triage", "waiting", "resolved", "cancelled"},
     resolved        |-> {"closure_pending", "closed", "in_triage"},
     closure_pending |-> {"closed", "in_triage"},
     closed          |-> {"in_triage"},
     cancelled       |-> {}]

CanTransitionCase(from, to) == to \in caseWorkflow[from]

DefaultWorkflow == caseWorkflow

\* Mutant: the edge from restored to resolved is forgotten.
RequiredWithoutResolve ==
    [new             |-> {"acknowledged", "cancelled"},
     acknowledged    |-> {"in_triage", "assigned"},
     in_triage       |-> {"assigned", "restored"},
     assigned        |-> {"in_triage", "restored"},
     waiting         |-> {"acknowledged", "in_triage", "assigned", "restored"},
     restored        |-> {},
     resolved        |-> {"closure_pending"},
     closure_pending |-> {"closed"},
     closed          |-> {},
     cancelled       |-> {}]

\* The edges no published workflow may remove.
RequiredCaseTransitions ==
    [new             |-> {"acknowledged", "cancelled"},
     acknowledged    |-> {"in_triage", "assigned"},
     in_triage       |-> {"assigned", "restored"},
     assigned        |-> {"in_triage", "restored"},
     waiting         |-> {"acknowledged", "in_triage", "assigned", "restored"},
     restored        |-> {"resolved"},
     resolved        |-> {"closure_pending"},
     closure_pending |-> {"closed"},
     closed          |-> {},
     cancelled       |-> {}]

\* What the guards see for a ticket that is bound to no workflow version.
Unbound == [s \in CaseStates |-> CaseStates]

Allows(workflow, from, to) == from = to \/ to \in workflow[from]

\* Validate: only known transitions, and all the required ones.
Validate(workflow) ==
    /\ workflow \in [CaseStates -> SUBSET CaseStates]
    /\ \A s \in CaseStates :
          /\ \A t \in workflow[s] : CanTransitionCase(s, t)
          /\ RequiredCaseTransitions[s] \subseteq workflow[s]

=============================================================================
