------------------------- MODULE CaseWorkflowProofs -------------------------
(* What Validate guarantees of every workflow an administrator publishes. *)
EXTENDS CaseWorkflow, TLAPS

\* How many steps of the shortest required path are left to closure.
Distance ==
    [new |-> 6, acknowledged |-> 5, in_triage |-> 4, assigned |-> 4, waiting |-> 4,
     restored |-> 3, resolved |-> 2, closure_pending |-> 1, closed |-> 0, cancelled |-> 0]

\* The required edges alone lead every open state one step closer to closure.
LEMMA RequiredEdgesLeadToClosure ==
    ASSUME NEW s \in CaseStates \ {"closed", "cancelled"}
    PROVE  \E t \in RequiredCaseTransitions[s] : Distance[t] = Distance[s] - 1
<1>1. CASE s = "new"
  <2>1. "acknowledged" \in RequiredCaseTransitions[s] BY <1>1 DEF RequiredCaseTransitions
  <2>2. Distance["acknowledged"] = Distance[s] - 1 BY <1>1 DEF Distance
  <2>3. QED BY <2>1, <2>2
<1>2. CASE s = "acknowledged"
  <2>1. "in_triage" \in RequiredCaseTransitions[s] BY <1>2 DEF RequiredCaseTransitions
  <2>2. Distance["in_triage"] = Distance[s] - 1 BY <1>2 DEF Distance
  <2>3. QED BY <2>1, <2>2
<1>3. CASE s \in {"in_triage", "assigned", "waiting"}
  <2>1. "restored" \in RequiredCaseTransitions[s] BY <1>3 DEF RequiredCaseTransitions
  <2>2. Distance["restored"] = Distance[s] - 1 BY <1>3 DEF Distance
  <2>3. QED BY <2>1, <2>2
<1>4. CASE s = "restored"
  <2>1. "resolved" \in RequiredCaseTransitions[s] BY <1>4 DEF RequiredCaseTransitions
  <2>2. Distance["resolved"] = Distance[s] - 1 BY <1>4 DEF Distance
  <2>3. QED BY <2>1, <2>2
<1>5. CASE s = "resolved"
  <2>1. "closure_pending" \in RequiredCaseTransitions[s] BY <1>5 DEF RequiredCaseTransitions
  <2>2. Distance["closure_pending"] = Distance[s] - 1 BY <1>5 DEF Distance
  <2>3. QED BY <2>1, <2>2
<1>6. CASE s = "closure_pending"
  <2>1. "closed" \in RequiredCaseTransitions[s] BY <1>6 DEF RequiredCaseTransitions
  <2>2. Distance["closed"] = Distance[s] - 1 BY <1>6 DEF Distance
  <2>3. QED BY <2>1, <2>2
<1>7. QED BY <1>1, <1>2, <1>3, <1>4, <1>5, <1>6 DEF CaseStates

\* However many optional edges an administrator removes, Validate only lets a
\* workflow through (ticketpolicy Workflow.Validate) in which every open case
\* state has an allowed successor strictly closer to closure: publishing a
\* workflow never strands the cases bound to it.
THEOREM ValidWorkflowStrandsNoCase ==
    ASSUME NEW w, Validate(w),
           NEW s \in CaseStates \ {"closed", "cancelled"}
    PROVE  \E t \in CaseStates :
              /\ Allows(w, s, t)
              /\ CanTransitionCase(s, t)
              /\ Distance[t] < Distance[s]
<1>1. PICK t \in RequiredCaseTransitions[s] : Distance[t] = Distance[s] - 1
  BY RequiredEdgesLeadToClosure
<1>2. w \in [CaseStates -> SUBSET CaseStates] /\ RequiredCaseTransitions[s] \subseteq w[s]
  BY DEF Validate
<1>3. t \in w[s] /\ t \in CaseStates
  BY <1>1, <1>2
<1>4. CanTransitionCase(s, t)
  BY <1>3 DEF Validate
<1>5. Distance[s] \in Nat
  BY DEF Distance, CaseStates
<1>6. Distance[t] < Distance[s]
  BY <1>1, <1>5
<1>7. QED BY <1>3, <1>4, <1>6 DEF Allows

=============================================================================
