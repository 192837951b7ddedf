------------------------- MODULE MCWorkflowEffects -------------------------
(* Small instances of WorkflowEffects for TLC. *)
EXTENDS WorkflowEffects, TLC

\* Executors and results are interchangeable.
EffectSymmetry == Permutations(Executors) \cup Permutations(Results)

============================================================================
