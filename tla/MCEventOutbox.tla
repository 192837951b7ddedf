--------------------------- MODULE MCEventOutbox ---------------------------
(* TLC instances of EventOutbox. *)
EXTENDS EventOutbox

\* The cap on age loses nothing: no backoff reaches further back.
ASSUME AgeCapAssumption ==
    \A m \in RetryLimits \cup {PublishRetries} : RetryDelay(m - 1) <= AgeCap


============================================================================
