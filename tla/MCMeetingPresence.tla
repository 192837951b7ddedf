------------------------ MODULE MCMeetingPresence --------------------------
(* Small instances of MeetingPresence for TLC. *)
EXTENDS MeetingPresence, TLC

HandlerSymmetry == Permutations(Handlers)

\* Bound: two handlers are at work at once only while no user of the helpdesk
\* takes part in the meeting and no sweep is under way; and once such a user
\* takes part, a sweep is under way only if nothing has failed.
OverlapBound ==
    LET busy   == {h \in Handlers : handler[h].pc # "free"}
        guests == \A p \in Registered : ~attendance[p].exists
    IN  /\ Cardinality(busy) > 1 => sweep = AtRest /\ guests
        /\ sweep # AtRest => guests \/ faults = 0

============================================================================
