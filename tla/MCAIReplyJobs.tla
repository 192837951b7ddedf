--------------------------- MODULE MCAIReplyJobs ---------------------------
(* TLC instances of AIReplyJobs. *)
EXTENDS AIReplyJobs, TLC

\* Workers differ in nothing but their names; used by the safety run only.
WorkerSymmetry == Permutations(Workers)

============================================================================
