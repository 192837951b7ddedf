-------------------------- MODULE MeetingPresence --------------------------
(***************************************************************************)
(* One video meeting, the attendance of its participants, and the inbox    *)
(* through which the callbacks of the Jitsi provider reach them.           *)
(*                                                                         *)
(* A callback is claimed in the inbox, applied, and marked processed: three *)
(* separate writes, so a crash leaves a row that RecoverPending applies    *)
(* again later, after newer callbacks.  The callback itself reads the      *)
(* meeting before it opens the transaction that merges the attendance.     *)
(* Users of the helpdesk (Registered) also report themselves through the   *)
(* browser; the others are known from callbacks only.                      *)
(*                                                                         *)
(* Times are numbers of one clock, 0 stands for NULL.  fresh tells that    *)
(* updated_at is younger than three minutes, locked that locked_until lies *)
(* in the future.  Durations follow from the times and are left out.       *)
(***************************************************************************)
EXTENDS Naturals, FiniteSets, FiniteSetsExt

CONSTANTS
    Participants,
    Registered,    \* participants with an account (user_type is not external)
    Handlers,      \* invocations of Process and items of RecoverPending batches
    Reorder,       \* TRUE: the provider delivers callbacks out of order
    Sweeps,        \* bound: FALSE leaves out the periodic sweeps
    MaxAttempts,   \* jitsiWebhookInboxMaxAttempts (12 in the code)
    MaxClaims,     \* bound: claims of a callback, deliveries included
    MaxEvents,     \* bound: callbacks
    MaxClock,      \* bound: points in time
    MaxFaults      \* bound: crashes and failed writes

ASSUME PresenceAssumption ==
    /\ Registered \subseteq Participants
    /\ Reorder \in BOOLEAN /\ Sweeps \in BOOLEAN
    /\ MaxAttempts \in Nat \ {0}
    /\ MaxClaims \in Nat \ {0}
    /\ MaxEvents \in Nat /\ MaxClock \in Nat /\ MaxFaults \in Nat
    /\ "none" \notin Participants

VARIABLES
    clock,
    callback,      \* what the provider has sent or will send, in order of time
    inbox,         \* t_webhook_event_inbox, by callback
    meeting,       \* t_meeting_room_jitsi
    attendance,    \* t_meeting_participant
    handler,       \* the callback a handler works on, and the ended_at it read
    sweep,         \* what reconcileStaleMeetingPresence has read
    faults,
    \* History, read by the properties only:
    applied,       \* callbacks that were applied at least once
    swept          \* participants whose window a sweep has closed

inboxVars == <<callback, inbox, handler, applied>>
roomVars  == <<meeting, attendance>>
sweepVars == <<sweep, swept>>
vars      == <<clock, inboxVars, roomVars, sweepVars, faults>>

----------------------------------------------------------------------------
Times     == 0..MaxClock
Callbacks == 1..MaxEvents

Callback == [action : {"none", "joined", "left", "ended"},
             who : Participants \cup {"none"}, at : Times]

NoCallback == [action |-> "none", who |-> "none", at |-> 0]

InboxRow == [status : {"none", "processing", "processed", "failed"},
             attempts : Nat, locked : BOOLEAN]

Idle  == [id |-> 0, pc |-> "free", endedAt |-> 0]
AtRest == [pc |-> "rest", stale |-> {}, quiet |-> FALSE]

Sent == {i \in Callbacks : callback[i].action # "none"}

Online(p) == attendance[p].joined # 0 /\ attendance[p].left = 0

Ended == meeting.status = "ended"

Earlier(s, t) == IF s < t THEN s ELSE t

----------------------------------------------------------------------------
Init ==
    /\ clock = 0
    /\ callback = [i \in Callbacks |-> NoCallback]
    /\ inbox = [i \in Callbacks |-> [status |-> "none", attempts |-> 0, locked |-> FALSE]]
    /\ meeting = [status |-> "waiting", started |-> 0, ended |-> 0, announced |-> FALSE]
    /\ attendance = [p \in Participants |->
                       [exists |-> FALSE, joined |-> 0, left |-> 0, fresh |-> FALSE]]
    /\ handler = [h \in Handlers |-> Idle]
    /\ sweep = AtRest
    /\ faults = 0
    /\ applied = {}
    /\ swept = {}

Tick == clock < MaxClock /\ clock' = clock + 1

Fault == faults < MaxFaults /\ faults' = faults + 1

----------------------------------------------------------------------------
(* The provider *)

\* Whether p is in the room, by the last thing the provider saw.
InRoom(p) ==
    LET mine == {i \in Sent : callback[i].who = p}
    IN  mine # {} /\ callback[Max(mine)].action = "joined"

\* Something happens in the room; the provider has a callback to deliver.
Occur(action, who) ==
    LET i == Cardinality(Sent) + 1
    IN  /\ i \in Callbacks
        /\ \A j \in Sent : callback[j].action # "ended"
        /\ Tick
        /\ callback' = [callback EXCEPT ![i] = [action |-> action, who |-> who, at |-> clock']]
        /\ UNCHANGED <<inbox, handler, applied, roomVars, sweepVars, faults>>

\* A user of the helpdesk needs the token of JoinMeeting to enter.
Enter(p) == ~InRoom(p) /\ (p \in Registered => attendance[p].exists) /\ Occur("joined", p)
Leave(p) == InRoom(p) /\ Occur("left", p)
RoomEnds == Occur("ended", "none")

----------------------------------------------------------------------------
(* The inbox *)

\* The lease part of the WHERE clause of both claims.
Claimable(i) == inbox[i].status # "processed" /\ ~inbox[i].locked

\* Mutant: a repetition of a callback that is in work marks it as processed.
ProcessMarksRepeated(h, i) ==
    /\ i \in Sent
    /\ handler[h].pc = "free"
    /\ Reorder \/ \A j \in Sent : j < i => j \in applied
    /\ inbox[i].status # "processed" /\ inbox[i].attempts < MaxClaims
    /\ \/ /\ ~inbox[i].locked
          /\ inbox' = [inbox EXCEPT ![i] = [status |-> "processing", attempts |-> @.attempts + 1,
                                            locked |-> TRUE]]
          /\ handler' = [handler EXCEPT ![h] = [id |-> i, pc |-> "claimed", endedAt |-> 0]]
       \/ /\ inbox[i].locked
          /\ inbox' = [inbox EXCEPT ![i].status = "processed"]
          /\ UNCHANGED handler
    /\ UNCHANGED <<clock, callback, applied, roomVars, sweepVars, faults>>

\* Process: Claim inserts the row or takes it over.  A callback that is finished
\* or in work is answered as a duplicate and changes nothing.
Process(h, i) ==
    /\ i \in Sent
    /\ handler[h].pc = "free"
    /\ Reorder \/ \A j \in Sent : j < i => j \in applied
    /\ Claimable(i) /\ inbox[i].attempts < MaxClaims
    /\ inbox' = [inbox EXCEPT ![i] = [status |-> "processing", attempts |-> @.attempts + 1,
                                      locked |-> TRUE]]
    /\ handler' = [handler EXCEPT ![h] = [id |-> i, pc |-> "claimed", endedAt |-> 0]]
    /\ UNCHANGED <<clock, callback, applied, roomVars, sweepVars, faults>>

\* RecoverPending: ClaimRetryable takes over what failed or was abandoned.  The
\* items of a batch are applied one after the other; here each is a handler.
RecoverPending(h, i) ==
    /\ handler[h].pc = "free"
    /\ inbox[i].status # "none"
    /\ Claimable(i) /\ inbox[i].attempts < MaxAttempts
    /\ inbox' = [inbox EXCEPT ![i] = [status |-> "processing", attempts |-> @.attempts + 1,
                                      locked |-> TRUE]]
    /\ handler' = [handler EXCEPT ![h] = [id |-> i, pc |-> "claimed", endedAt |-> 0]]
    /\ UNCHANGED <<clock, callback, applied, roomVars, sweepVars, faults>>

\* resolveWebhookMeeting: the meeting is read outside of the transaction.
ResolveMeeting(h) ==
    /\ handler[h].pc = "claimed"
    /\ \/ /\ handler' = [handler EXCEPT ![h].pc = "resolved", ![h].endedAt = meeting.ended]
          /\ UNCHANGED faults
       \/ Fault /\ handler' = [handler EXCEPT ![h].pc = "failed"]
    /\ UNCHANGED <<clock, callback, inbox, applied, roomVars, sweepVars>>

\* MarkProcessed and MarkFailed write by id, whoever holds the row by now.
MarkProcessed(h) ==
    /\ handler[h].pc = "applied"
    /\ \/ /\ inbox' = [inbox EXCEPT ![handler[h].id].status = "processed",
                                    ![handler[h].id].locked = FALSE]
          /\ UNCHANGED faults
       \/ Fault /\ UNCHANGED inbox
    /\ handler' = [handler EXCEPT ![h] = Idle]
    /\ UNCHANGED <<clock, callback, applied, roomVars, sweepVars>>

MarkFailed(h) ==
    /\ handler[h].pc = "failed"
    /\ inbox' = [inbox EXCEPT ![handler[h].id].status = "failed",
                              ![handler[h].id].locked = TRUE]
    /\ handler' = [handler EXCEPT ![h] = Idle]
    /\ UNCHANGED <<clock, callback, applied, roomVars, sweepVars, faults>>

\* locked_until passes: the minute of a claim, or the delay before a retry.
LockEnds(i) ==
    /\ inbox[i].locked
    /\ inbox' = [inbox EXCEPT ![i].locked = FALSE]
    /\ UNCHANGED <<clock, callback, handler, applied, roomVars, sweepVars, faults>>

\* The instance of a handler dies.
Crash(h) ==
    /\ handler[h].pc # "free"
    /\ Fault
    /\ handler' = [handler EXCEPT ![h] = Idle]
    /\ UNCHANGED <<clock, callback, inbox, applied, roomVars, sweepVars>>

----------------------------------------------------------------------------
(* Applying a callback *)

\* Mutant: a meeting that has ended is activated again.
ActivateAlways(m, people) ==
    LET joins == {people[p].joined : p \in Participants} \ {0}
    IN  IF joins = {} THEN m
        ELSE [m EXCEPT !.status = "active",
                       !.started = IF @ = 0 THEN Min(joins) ELSE Earlier(@, Min(joins))]

\* Mutant: the start that is recorded first stays.
ActivateFirstOnly(m, people) ==
    LET joins == {people[p].joined : p \in Participants} \ {0}
    IN  IF joins = {} \/ m.status = "ended" THEN m
        ELSE [m EXCEPT !.status = "active", !.started = IF @ = 0 THEN Min(joins) ELSE @]

\* activateMeetingFromAttendance.
Activate(m, people) ==
    LET joins == {people[p].joined : p \in Participants} \ {0}
    IN  IF joins = {} \/ m.status = "ended" THEN m
        ELSE [m EXCEPT !.status = "active",
                       !.started = IF @ = 0 THEN Min(joins) ELSE Earlier(@, Min(joins))]

\* mergeWebhookParticipantJoin: the row after a join at t, endedAt as read.
MergeJoin(p, t, endedAt) ==
    LET old    == attendance[p]
        reopen == old.left # 0 /\ t > old.left
        joined == CASE ~old.exists \/ reopen -> t
                    [] old.left # 0 /\ ~reopen -> IF t > old.joined THEN t ELSE old.joined
                    [] OTHER -> IF old.joined = 0 \/ p \in Registered THEN t ELSE old.joined
        left   == CASE endedAt # 0 -> endedAt
                    [] endedAt = 0 /\ reopen -> 0
                    [] OTHER -> old.left
    IN  [exists |-> TRUE, joined |-> joined, left |-> left, fresh |-> TRUE]

ApplyJoin(h) ==
    LET e == callback[handler[h].id]
        endedAt == handler[h].endedAt
    IN  /\ handler[h].pc = "resolved" /\ e.action = "joined"
        /\ IF endedAt # 0 /\ e.at > endedAt
           THEN UNCHANGED roomVars
           ELSE /\ attendance' = [attendance EXCEPT ![e.who] = MergeJoin(e.who, e.at, endedAt)]
                /\ meeting' = Activate(meeting, attendance')
        /\ handler' = [handler EXCEPT ![h].pc = "applied"]
        /\ applied' = applied \cup {handler[h].id}
        /\ UNCHANGED <<clock, callback, inbox, sweepVars, faults>>

\* Mutant: a leave closes whatever window is open.
LeaveClosesAny(old, t) == IF old.left # 0 /\ t >= old.left THEN old
                          ELSE [old EXCEPT !.exists = TRUE, !.left = t, !.fresh = TRUE]

\* recordWebhookParticipantLeave: the row after a leave at t.
MergeLeave(old, t) ==
    IF \/ old.exists /\ old.left # 0 /\ t >= old.left
       \/ old.exists /\ old.joined # 0 /\ t < old.joined
    THEN old
    ELSE [old EXCEPT !.exists = TRUE, !.left = t, !.fresh = TRUE]

ApplyLeave(h) ==
    LET e == callback[handler[h].id]
        endedAt == handler[h].endedAt
        t == IF endedAt # 0 THEN Earlier(e.at, endedAt) ELSE e.at
    IN  /\ handler[h].pc = "resolved" /\ e.action = "left"
        /\ attendance' = [attendance EXCEPT ![e.who] = MergeLeave(@, t)]
        /\ handler' = [handler EXCEPT ![h].pc = "applied"]
        /\ applied' = applied \cup {handler[h].id}
        /\ UNCHANGED <<clock, callback, inbox, meeting, sweepVars, faults>>

\* endMeetingAtDB: one transaction closes the meeting and all open rows, takes
\* the ticket out of video support, writes the progress note and the archive,
\* and announces the end; the ticket and the archive are not part of this model.
EndMeetingAt(t) ==
    IF Ended THEN UNCHANGED roomVars
    ELSE /\ meeting' = [meeting EXCEPT !.status = "ended", !.ended = t, !.announced = TRUE]
         /\ attendance' = [p \in Participants |->
                             IF attendance[p].exists /\ attendance[p].left = 0
                             THEN [attendance[p] EXCEPT !.left = t]
                             ELSE attendance[p]]

ApplyEnd(h) ==
    LET e == callback[handler[h].id]
    IN  /\ handler[h].pc = "resolved" /\ e.action = "ended"
        /\ EndMeetingAt(e.at)
        /\ handler' = [handler EXCEPT ![h].pc = "applied"]
        /\ applied' = applied \cup {handler[h].id}
        /\ UNCHANGED <<clock, callback, inbox, sweepVars, faults>>

----------------------------------------------------------------------------
(* The users of the helpdesk *)

\* JoinMeeting: issuing a token registers the user, and does not make him join.
JoinMeeting(p) ==
    /\ ~Ended
    /\ attendance' = [attendance EXCEPT ![p].exists = TRUE, ![p].fresh = TRUE]
    /\ UNCHANGED <<clock, inboxVars, meeting, sweepVars, faults>>

\* confirmParticipantJoin: the browser has joined.
ConfirmJoin(p) ==
    /\ ~Ended
    /\ attendance[p].exists
    /\ Tick
    /\ attendance' = [attendance EXCEPT ![p] =
                        IF Online(p) THEN [@ EXCEPT !.fresh = TRUE]
                        ELSE [@ EXCEPT !.joined = clock', !.left = 0, !.fresh = TRUE]]
    /\ meeting' = Activate(meeting, attendance')
    /\ UNCHANGED <<inboxVars, sweepVars, faults>>

\* confirmParticipantLeave: the browser has left.
ConfirmLeave(p) ==
    /\ Online(p)
    /\ Tick
    /\ LET t == IF Ended THEN meeting.ended ELSE clock'
       IN  attendance' = [attendance EXCEPT ![p].left = Max({t, attendance[p].joined}),
                                            ![p].fresh = TRUE]
    /\ UNCHANGED <<inboxVars, meeting, sweepVars, faults>>

\* heartbeatParticipant.
Heartbeat(p) ==
    /\ ~Ended
    /\ Online(p) /\ ~attendance[p].fresh
    /\ attendance' = [attendance EXCEPT ![p].fresh = TRUE]
    /\ UNCHANGED <<clock, inboxVars, meeting, sweepVars, faults>>

\* EndMeetingForOperator.
EndMeeting ==
    /\ ~Ended
    /\ Tick
    /\ EndMeetingAt(clock')
    /\ UNCHANGED <<inboxVars, sweepVars, faults>>

----------------------------------------------------------------------------
(* The periodic sweeps *)

\* Three minutes without a sign of the participant; after the end nobody looks.
GoStale(p) ==
    /\ Sweeps /\ ~Ended
    /\ attendance[p].fresh /\ attendance[p].joined # 0
    /\ attendance' = [attendance EXCEPT ![p].fresh = FALSE]
    /\ UNCHANGED <<clock, inboxVars, meeting, sweepVars, faults>>

\* reconcileStaleMeetingPresence reads the stale rows and the latest activity...
ReadStale ==
    /\ Sweeps
    /\ sweep.pc = "rest"
    /\ meeting.status = "active"
    /\ sweep' = [pc |-> "read",
                 stale |-> {<<p, attendance[p].joined>> :
                               p \in {q \in Participants : Online(q) /\ ~attendance[q].fresh}},
                 quiet |-> \A p \in Participants : attendance[p].joined # 0 => ~attendance[p].fresh]
    /\ UNCHANGED <<clock, inboxVars, roomVars, swept, faults>>

\* ... closes those that are still open, three minutes after their last sign...
CloseStale ==
    /\ sweep.pc = "read"
    /\ \E t \in [sweep.stale -> 1..clock] :
          /\ \A s \in sweep.stale : t[s] >= s[2]
          /\ attendance' = [p \in Participants |->
               IF attendance[p].left = 0 /\ \E s \in sweep.stale : s[1] = p
               THEN [attendance[p] EXCEPT !.left = t[CHOOSE s \in sweep.stale : s[1] = p],
                                          !.fresh = TRUE]
               ELSE attendance[p]]
    /\ swept' = swept \cup {p \in Participants : attendance'[p] # attendance[p]}
    /\ sweep' = [sweep EXCEPT !.pc = "closed"]
    /\ UNCHANGED <<clock, inboxVars, meeting, faults>>

\* ... and ends a meeting in which nobody is left.
EndAbandoned ==
    /\ sweep.pc = "closed"
    /\ IF sweep.quiet /\ \A p \in Participants : ~Online(p)
       THEN \E t \in 1..clock : EndMeetingAt(t)
       ELSE UNCHANGED roomVars
    /\ sweep' = AtRest
    /\ UNCHANGED <<clock, inboxVars, swept, faults>>

\* ExpireStaleMeetings: twelve hours after its start, or its creation.
ExpireStaleMeetings ==
    /\ Sweeps
    /\ ~Ended
    /\ \E t \in 1..clock : t >= meeting.started /\ EndMeetingAt(t)
    /\ UNCHANGED <<clock, inboxVars, sweepVars, faults>>

----------------------------------------------------------------------------
Next ==
    \/ \E p \in Participants : Enter(p) \/ Leave(p)
    \/ RoomEnds
    \/ \E h \in Handlers, i \in Callbacks : Process(h, i) \/ RecoverPending(h, i)
    \/ \E h \in Handlers :
          \/ ResolveMeeting(h) \/ ApplyJoin(h) \/ ApplyLeave(h) \/ ApplyEnd(h)
          \/ MarkProcessed(h) \/ MarkFailed(h) \/ Crash(h)
    \/ \E i \in Callbacks : LockEnds(i)
    \/ \E p \in Registered :
          JoinMeeting(p) \/ ConfirmJoin(p) \/ ConfirmLeave(p) \/ Heartbeat(p)
    \/ EndMeeting
    \/ \E p \in Participants : GoStale(p)
    \/ ReadStale \/ CloseStale \/ EndAbandoned \/ ExpireStaleMeetings

Spec == Init /\ [][Next]_vars

----------------------------------------------------------------------------
(* Properties *)

\* Rows, callbacks and handlers keep their types.
TypeOK ==
    /\ clock \in Times
    /\ callback \in [Callbacks -> Callback]
    /\ inbox \in [Callbacks -> InboxRow]
    /\ meeting \in [status : {"waiting", "active", "ended"}, started : Times, ended : Times,
                    announced : BOOLEAN]
    /\ attendance \in [Participants -> [exists : BOOLEAN, joined : Times, left : Times,
                                        fresh : BOOLEAN]]
    /\ handler \in [Handlers -> [id : 0..MaxEvents, endedAt : Times,
                                 pc : {"free", "claimed", "resolved", "applied", "failed"}]]
    /\ sweep \in [pc : {"rest", "read", "closed"}, stale : SUBSET (Participants \X Times),
                  quiet : BOOLEAN]
    /\ applied \subseteq Callbacks /\ swept \subseteq Participants
    /\ faults \in 0..MaxFaults

\* The attendance follows the room: once all callbacks about a participant who
\* has no account are applied, he is online exactly if he is in the room,
\* unless a sweep or the end of the meeting has closed his window.  Callbacks
\* that a recovery applies again, after newer ones, must not bring an old
\* window back or close a newer one.
PresenceFollowsRoom ==
    ~Ended => \A p \in (Participants \ Registered) \ swept :
        (\A i \in Sent : callback[i].who = p => i \in applied) => (Online(p) <=> InRoom(p))

\* A callback marked processed has been applied: neither a crash nor a handler
\* whose lock ran out can lose one.
ProcessedWasApplied == \A i \in Callbacks : inbox[i].status = "processed" => i \in applied

\* An ended meeting is never opened again: late callbacks and browsers leave
\* its status and its times alone.
EndedIsFinal == [][Ended => meeting' = meeting]_vars

\* The start of a meeting is its earliest join: it never moves to a later time,
\* although joined_at of a participant who comes back does.
StartNeverMovesLater ==
    [][meeting.started # 0 => meeting'.started # 0 /\ meeting'.started <= meeting.started]_vars

\* Nobody joined a meeting before it started.
StartedBeforeJoins ==
    meeting.status = "active" =>
        \A p \in Participants : attendance[p].joined # 0 => meeting.started <= attendance[p].joined

============================================================================
