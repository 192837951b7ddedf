----------------------- MODULE MeetingPresenceProofs -----------------------
(***************************************************************************)
(* What holds of MeetingPresence for any number of handlers, callbacks and *)
(* participants.  The last theorem needs that callbacks first arrive in    *)
(* order; the others do not.  The run of TLC has one handler; the          *)
(* interleavings of several are covered here.                              *)
(***************************************************************************)
EXTENDS MeetingPresence, FiniteSetTheorems, WellFoundedInduction, TLAPS

----------------------------------------------------------------------------
(* Times *)

\* A set of times has an earliest one, and Min is it.
LEMMA MinIsEarliest ==
    ASSUME NEW S, S \subseteq Nat, S # {}
    PROVE  Min(S) \in S /\ \A t \in S : Min(S) <= t
<1>1. PICK s \in S : \A t \in S : ~ (<<t, s>> \in OpToRel(<, Nat))
  BY NatLessThanWellFounded, WFMin
<1>2. \A t \in S : s <= t
  <2> SUFFICES ASSUME NEW t \in S, t < s PROVE FALSE
    OBVIOUS
  <2>1. <<t, s>> \in Nat \X Nat /\ <<t, s>>[1] = t /\ <<t, s>>[2] = s
    OBVIOUS
  <2>2. <<t, s>>[1] < <<t, s>>[2]
    BY <2>1
  <2>3. <<t, s>> \in {p \in Nat \X Nat : p[1] < p[2]}
    BY <2>1, <2>2, Zenon
  <2> QED
    BY <1>1, <2>3, Zenon DEF OpToRel
<1> QED
  BY <1>2 DEF Min

\* The later of two times.
LEMMA MaxOfTwo ==
    ASSUME NEW s \in Nat, NEW t \in Nat
    PROVE  Max({s, t}) \in {s, t}
<1>1. \E x \in {s, t} : \A y \in {s, t} : x >= y
  OBVIOUS
<1> QED
  BY <1>1 DEF Max

----------------------------------------------------------------------------
(* Types *)

MeetingRow == [status : {"waiting", "active", "ended"}, started : Times, ended : Times,
               announced : BOOLEAN]
AttendanceRow == [exists : BOOLEAN, joined : Times, left : Times, fresh : BOOLEAN]
HandlerState == [id : 0..MaxEvents, endedAt : Times,
                 pc : {"free", "claimed", "resolved", "applied", "failed"}]

\* The joins on record; Activate looks at them.
Joins(people) == {people[p].joined : p \in Participants} \ {0}

\* A handler at work has a callback.
BusyHasCallback == \A h \in Handlers : handler[h].pc # "free" => handler[h].id \in Callbacks

TypeInv == TypeOK /\ BusyHasCallback

\* What activateMeetingFromAttendance does to a meeting that has not ended: it
\* starts it no later than any join, and never moves a start to a later time.
LEMMA ActivateStarts ==
    ASSUME NEW m \in MeetingRow, NEW people \in [Participants -> AttendanceRow]
    PROVE  /\ Activate(m, people) \in MeetingRow
           /\ m.status = "ended" => Activate(m, people) = m
           /\ m.started # 0 => /\ Activate(m, people).started # 0
                               /\ Activate(m, people).started <= m.started
           /\ Activate(m, people).status = "active" /\ m.status # "active"
                => Joins(people) # {}
           /\ m.status # "ended" => \A t \in Joins(people) : Activate(m, people).started <= t
<1> DEFINE joins == Joins(people)
           start == IF m.started = 0 THEN Min(joins) ELSE Earlier(m.started, Min(joins))
<1>1. joins \subseteq Times \ {0} /\ Times \subseteq Nat
  BY PresenceAssumption DEF Joins, AttendanceRow, Times
<1>2. CASE joins = {} \/ m.status = "ended"
  <2>1. Activate(m, people) = m
    BY <1>2 DEF Activate, Joins
  <2>2. m.started \in Nat
    BY <1>1 DEF MeetingRow
  <2> QED
    BY <1>2, <2>1, <2>2
<1>3. CASE joins # {} /\ m.status # "ended"
  <2>1. Min(joins) \in joins /\ \A t \in joins : Min(joins) <= t
    BY <1>1, <1>3, MinIsEarliest
  <2>2. Min(joins) \in Times /\ Min(joins) # 0
    BY <1>1, <2>1
  <2> HIDE DEF joins
  <2>3. /\ start \in Times
        /\ start # 0
        /\ m.started # 0 => start <= m.started
        /\ \A t \in joins : start <= t
    BY <1>1, <2>1, <2>2 DEF Earlier, MeetingRow, Times
  <2> HIDE DEF start
  <2>4. Activate(m, people) = [m EXCEPT !.status = "active", !.started = start]
    BY <1>3 DEF Activate, Joins, joins, start
  <2>5. [m EXCEPT !.status = "active", !.started = start] \in MeetingRow
    BY <2>3 DEF MeetingRow
  <2>6. Activate(m, people).started = start
    BY <2>4 DEF MeetingRow
  <2> QED
    BY <1>3, <2>3, <2>4, <2>5, <2>6 DEF joins
<1> QED
  BY <1>2, <1>3

\* EndMeetingAt keeps the types, for an end at any time.
LEMMA EndMeetingAtType ==
    ASSUME TypeOK, NEW t \in Times, EndMeetingAt(t)
    PROVE  meeting' \in MeetingRow /\ attendance' \in [Participants -> AttendanceRow]
<1>1. meeting \in MeetingRow /\ attendance \in [Participants -> AttendanceRow]
  BY DEF TypeOK, MeetingRow, AttendanceRow
<1>2. CASE Ended
  BY <1>1, <1>2 DEF EndMeetingAt, roomVars
<1>3. CASE ~Ended
  <2>1. meeting' = [meeting EXCEPT !.status = "ended", !.ended = t, !.announced = TRUE]
    BY <1>3 DEF EndMeetingAt
  <2>2. meeting' \in MeetingRow
    BY <1>1, <2>1 DEF MeetingRow
  <2>3. attendance' = [p \in Participants |->
                         IF attendance[p].exists /\ attendance[p].left = 0
                         THEN [attendance[p] EXCEPT !.left = t]
                         ELSE attendance[p]]
    BY <1>3 DEF EndMeetingAt
  <2>4. ASSUME NEW p \in Participants
        PROVE  [attendance[p] EXCEPT !.left = t] \in AttendanceRow
    BY <1>1 DEF AttendanceRow
  <2> QED
    BY <1>1, <2>2, <2>3, <2>4
<1> QED
  BY <1>2, <1>3

\* mergeWebhookParticipantJoin yields a row.
LEMMA MergeJoinType ==
    ASSUME TypeOK, NEW p \in Participants, NEW t \in Times, NEW e \in Times
    PROVE  MergeJoin(p, t, e) \in AttendanceRow
<1>1. attendance[p] \in AttendanceRow
  BY DEF TypeOK, AttendanceRow
<1> DEFINE old == attendance[p]
<1>2. old.joined \in Times /\ old.left \in Times /\ 0 \in Times
  BY <1>1, PresenceAssumption DEF AttendanceRow, Times
<1> QED
  BY <1>1, <1>2 DEF MergeJoin, AttendanceRow

\* recordWebhookParticipantLeave yields a row.
LEMMA MergeLeaveType ==
    ASSUME NEW old \in AttendanceRow, NEW t \in Times
    PROVE  MergeLeave(old, t) \in AttendanceRow
BY DEF MergeLeave, AttendanceRow

\* The parts of TypeInv, named, so that a step cites what it disturbs.
RoomType ==
    /\ meeting \in MeetingRow
    /\ attendance \in [Participants -> AttendanceRow]

InboxType ==
    /\ callback \in [Callbacks -> Callback]
    /\ inbox \in [Callbacks -> InboxRow]
    /\ handler \in [Handlers -> HandlerState]
    /\ applied \subseteq Callbacks
    /\ BusyHasCallback

SweepType ==
    /\ sweep \in [pc : {"rest", "read", "closed"}, stale : SUBSET (Participants \X Times),
                  quiet : BOOLEAN]
    /\ swept \subseteq Participants

BoundsType == clock \in Times /\ faults \in 0..MaxFaults

\* The parts make up TypeInv.
LEMMA TypeParts == TypeInv <=> RoomType /\ InboxType /\ SweepType /\ BoundsType
BY DEF TypeInv, TypeOK, RoomType, InboxType, SweepType, BoundsType, MeetingRow,
       AttendanceRow, HandlerState

\* A tick or a fault stays within its bound.
LEMMA BoundsKept ==
    ASSUME BoundsType
    PROVE  /\ Tick => clock' \in Times
           /\ Fault => faults' \in 0..MaxFaults
BY PresenceAssumption DEF BoundsType, Tick, Fault, Times

\* The inbox alone: claims, marks, locks and crashes.
LEMMA InboxSteps ==
    ASSUME InboxType, RoomType, NEW h \in Handlers, NEW i \in Callbacks,
           \/ Process(h, i) \/ RecoverPending(h, i) \/ ResolveMeeting(h)
           \/ MarkProcessed(h) \/ MarkFailed(h) \/ LockEnds(i) \/ Crash(h)
    PROVE  InboxType'
<1>1. Callbacks \subseteq 0..MaxEvents /\ 0 \in Times /\ Idle \in HandlerState
  BY PresenceAssumption DEF Callbacks, Times, HandlerState, Idle
<1>2. meeting.ended \in Times /\ inbox[i] \in InboxRow /\ handler[h] \in HandlerState
  BY DEF RoomType, MeetingRow, InboxType
<1>3. CASE Process(h, i) \/ RecoverPending(h, i)
  <2>1. [status |-> "processing", attempts |-> inbox[i].attempts + 1, locked |-> TRUE]
           \in InboxRow
    BY <1>2 DEF InboxRow
  <2>2. [id |-> i, pc |-> "claimed", endedAt |-> 0] \in HandlerState
    BY <1>1 DEF HandlerState
  <2>3. /\ inbox' = [inbox EXCEPT ![i] = [status |-> "processing",
                                          attempts |-> inbox[i].attempts + 1, locked |-> TRUE]]
        /\ handler' = [handler EXCEPT ![h] = [id |-> i, pc |-> "claimed", endedAt |-> 0]]
        /\ UNCHANGED <<callback, applied>>
    BY <1>3 DEF Process, RecoverPending, InboxType
  <2> QED
    BY <2>1, <2>2, <2>3 DEF InboxType, BusyHasCallback
<1>4. CASE ResolveMeeting(h)
  <2>1. \/ handler' = [handler EXCEPT ![h].pc = "resolved", ![h].endedAt = meeting.ended]
        \/ handler' = [handler EXCEPT ![h].pc = "failed"]
    BY <1>4 DEF ResolveMeeting
  <2>2. handler' \in [Handlers -> HandlerState] /\ BusyHasCallback'
    BY <1>2, <1>4, <2>1 DEF ResolveMeeting, InboxType, HandlerState, BusyHasCallback
  <2> QED
    BY <1>4, <2>2 DEF ResolveMeeting, InboxType
<1>5. CASE MarkProcessed(h) \/ MarkFailed(h)
  <2>1. handler[h].id \in Callbacks
    BY <1>5 DEF MarkProcessed, MarkFailed, InboxType, BusyHasCallback
  <2>2. inbox' \in [Callbacks -> InboxRow]
    BY <1>5, <2>1 DEF MarkProcessed, MarkFailed, InboxType, InboxRow
  <2>3. handler' = [handler EXCEPT ![h] = Idle] /\ UNCHANGED <<callback, applied>>
    BY <1>5 DEF MarkProcessed, MarkFailed
  <2> QED
    BY <1>1, <2>2, <2>3 DEF InboxType, BusyHasCallback, Idle
<1>6. CASE LockEnds(i)
  BY <1>6 DEF LockEnds, InboxType, InboxRow, BusyHasCallback
<1>7. CASE Crash(h)
  BY <1>1, <1>7 DEF Crash, InboxType, BusyHasCallback, Idle
<1> QED
  BY <1>3, <1>4, <1>5, <1>6, <1>7

\* A callback that is applied.
LEMMA ApplySteps ==
    ASSUME TypeInv, NEW h \in Handlers, ApplyJoin(h) \/ ApplyLeave(h) \/ ApplyEnd(h)
    PROVE  InboxType' /\ RoomType'
<1> DEFINE e == callback[handler[h].id]
<1>1. RoomType /\ InboxType
  BY TypeParts
<1>2. handler[h].id \in Callbacks /\ e \in Callback /\ handler[h] \in HandlerState
  BY <1>1 DEF ApplyJoin, ApplyLeave, ApplyEnd, InboxType, BusyHasCallback
<1>3. e.at \in Times /\ handler[h].endedAt \in Times
  BY <1>2 DEF Callback, HandlerState
<1>4. InboxType'
  <2>1. /\ handler' = [handler EXCEPT ![h].pc = "applied"]
        /\ applied' = applied \cup {handler[h].id}
        /\ UNCHANGED <<callback, inbox>>
    BY DEF ApplyJoin, ApplyLeave, ApplyEnd
  <2>2. handler' \in [Handlers -> HandlerState] /\ BusyHasCallback'
    BY <1>1, <1>2, <2>1 DEF InboxType, HandlerState, BusyHasCallback
  <2> QED
    BY <1>1, <1>2, <2>1, <2>2 DEF InboxType
<1>5. RoomType'
  <2>1. CASE ApplyJoin(h)
    <3>1. CASE UNCHANGED roomVars
      BY <1>1, <3>1 DEF RoomType, roomVars
    <3>2. CASE /\ attendance' = [attendance EXCEPT ![e.who] =
                                   MergeJoin(e.who, e.at, handler[h].endedAt)]
               /\ meeting' = Activate(meeting, attendance')
      <4>1. e.who \in Participants => MergeJoin(e.who, e.at, handler[h].endedAt) \in AttendanceRow
        BY <1>3, MergeJoinType DEF TypeInv
      <4>2. attendance' \in [Participants -> AttendanceRow]
        BY <1>1, <3>2, <4>1 DEF RoomType
      <4> QED
        BY <1>1, <3>2, <4>2, ActivateStarts DEF RoomType
    <3> QED
      BY <2>1, <3>1, <3>2 DEF ApplyJoin
  <2>2. CASE ApplyLeave(h)
    <3> DEFINE t == IF handler[h].endedAt # 0 THEN Earlier(e.at, handler[h].endedAt) ELSE e.at
    <3>1. t \in Times
      BY <1>3 DEF Earlier
    <3> HIDE DEF t
    <3>2. attendance' = [attendance EXCEPT ![e.who] = MergeLeave(attendance[e.who], t)]
          /\ UNCHANGED meeting
      BY <1>1, <2>2 DEF ApplyLeave, t, RoomType
    <3>3. e.who \in Participants => MergeLeave(attendance[e.who], t) \in AttendanceRow
      BY <1>1, <3>1, MergeLeaveType DEF RoomType
    <3> QED
      BY <1>1, <3>2, <3>3 DEF RoomType
  <2>3. CASE ApplyEnd(h)
    BY <1>3, <2>3, EndMeetingAtType DEF ApplyEnd, RoomType, TypeInv
  <2> QED
    BY <2>1, <2>2, <2>3
<1> QED
  BY <1>4, <1>5

\* Something happens in the room.
LEMMA OccurStep ==
    ASSUME InboxType, BoundsType, NEW action \in {"joined", "left", "ended"},
           NEW who \in Participants \cup {"none"}, Occur(action, who)
    PROVE  InboxType'
<1>1. clock' \in Times
  BY BoundsKept DEF Occur
<1>2. [action |-> action, who |-> who, at |-> clock'] \in Callback
  BY <1>1 DEF Callback
<1>3. callback' \in [Callbacks -> Callback]
  BY <1>2 DEF Occur, InboxType
<1> QED
  BY <1>3 DEF Occur, InboxType, BusyHasCallback

\* The steps of a user of the helpdesk.
LEMMA UserSteps ==
    ASSUME RoomType, BoundsType, NEW p \in Participants,
           \/ JoinMeeting(p) \/ ConfirmJoin(p) \/ ConfirmLeave(p) \/ Heartbeat(p) \/ GoStale(p)
    PROVE  RoomType'
<1>1. attendance[p] \in AttendanceRow /\ meeting \in MeetingRow
  BY DEF RoomType
<1>2. 0 \in Times /\ Times \subseteq Nat
  BY PresenceAssumption DEF Times
<1>3. CASE JoinMeeting(p)
  <2>1. [attendance[p] EXCEPT !.exists = TRUE, !.fresh = TRUE] \in AttendanceRow
    BY <1>1 DEF AttendanceRow
  <2> QED
    BY <1>3, <2>1 DEF JoinMeeting, RoomType
<1>4. CASE ConfirmJoin(p)
  <2>1. clock' \in Times
    BY <1>4, BoundsKept DEF ConfirmJoin
  <2>2. /\ [attendance[p] EXCEPT !.fresh = TRUE] \in AttendanceRow
        /\ [attendance[p] EXCEPT !.joined = clock', !.left = 0, !.fresh = TRUE] \in AttendanceRow
    BY <1>1, <1>2, <2>1 DEF AttendanceRow
  <2>3. attendance' \in [Participants -> AttendanceRow]
    BY <1>4, <2>2 DEF ConfirmJoin, RoomType
  <2> QED
    BY <1>1, <1>4, <2>3, ActivateStarts DEF ConfirmJoin, RoomType
<1>5. CASE ConfirmLeave(p)
  <2> DEFINE t == IF Ended THEN meeting.ended ELSE clock'
             last == Max({t, attendance[p].joined})
  <2>1. t \in Times /\ attendance[p].joined \in Times
    BY <1>1, <1>5, BoundsKept DEF ConfirmLeave, MeetingRow, AttendanceRow
  <2>2. last \in Times
    BY <1>2, <2>1, MaxOfTwo
  <2> HIDE DEF last
  <2>3. [attendance[p] EXCEPT !.left = last, !.fresh = TRUE] \in AttendanceRow
    BY <1>1, <2>2 DEF AttendanceRow
  <2>4. /\ attendance' = [attendance EXCEPT ![p] =
                            [attendance[p] EXCEPT !.left = last, !.fresh = TRUE]]
        /\ UNCHANGED meeting
    BY <1>5 DEF ConfirmLeave, last, RoomType
  <2> QED
    BY <2>3, <2>4 DEF RoomType
<1>6. CASE Heartbeat(p)
  <2>1. [attendance[p] EXCEPT !.fresh = TRUE] \in AttendanceRow
    BY <1>1 DEF AttendanceRow
  <2> QED
    BY <1>6, <2>1 DEF Heartbeat, RoomType
<1>7. CASE GoStale(p)
  <2>1. [attendance[p] EXCEPT !.fresh = FALSE] \in AttendanceRow
    BY <1>1 DEF AttendanceRow
  <2> QED
    BY <1>7, <2>1 DEF GoStale, RoomType
<1> QED
  BY <1>3, <1>4, <1>5, <1>6, <1>7

\* The steps of the sweeps.
LEMMA SweepSteps ==
    ASSUME TypeInv, ReadStale \/ CloseStale \/ EndAbandoned \/ ExpireStaleMeetings \/ EndMeeting
    PROVE  RoomType' /\ SweepType'
<1>1. RoomType /\ SweepType /\ BoundsType
  BY TypeParts
<1>2. 1..clock \subseteq Times
  BY <1>1, PresenceAssumption DEF BoundsType, Times
<1>3. CASE ReadStale
  <2>1. sweep' \in [pc : {"rest", "read", "closed"}, stale : SUBSET (Participants \X Times),
                    quiet : BOOLEAN]
    <3> DEFINE stale == {<<p, attendance[p].joined>> :
                            p \in {q \in Participants : Online(q) /\ ~attendance[q].fresh}}
               quiet == \A p \in Participants :
                            attendance[p].joined # 0 => ~attendance[p].fresh
    <3>1. stale \in SUBSET (Participants \X Times)
      BY <1>1 DEF RoomType, AttendanceRow
    <3>2. quiet \in BOOLEAN
      OBVIOUS
    <3>3. sweep' = [pc |-> "read", stale |-> stale, quiet |-> quiet]
      BY <1>3 DEF ReadStale
    <3> HIDE DEF stale, quiet
    <3> QED
      BY <3>1, <3>2, <3>3
  <2> QED
    BY <1>1, <1>3, <2>1 DEF ReadStale, SweepType, RoomType, roomVars
<1>4. CASE CloseStale
  <2>1. PICK t \in [sweep.stale -> 1..clock] :
           attendance' = [p \in Participants |->
             IF attendance[p].left = 0 /\ \E s \in sweep.stale : s[1] = p
             THEN [attendance[p] EXCEPT !.left = t[CHOOSE s \in sweep.stale : s[1] = p],
                                        !.fresh = TRUE]
             ELSE attendance[p]]
    BY <1>4 DEF CloseStale
  <2>2. ASSUME NEW p \in Participants, \E s \in sweep.stale : s[1] = p
        PROVE  [attendance[p] EXCEPT !.left = t[CHOOSE s \in sweep.stale : s[1] = p],
                                     !.fresh = TRUE] \in AttendanceRow
    <3>1. (CHOOSE s \in sweep.stale : s[1] = p) \in sweep.stale
      BY <2>2
    <3>2. t[CHOOSE s \in sweep.stale : s[1] = p] \in Times
      BY <1>2, <3>1
    <3> QED
      BY <1>1, <3>2 DEF RoomType, AttendanceRow
  <2>3. attendance' \in [Participants -> AttendanceRow]
    BY <1>1, <2>1, <2>2 DEF RoomType
  <2>4. swept' \subseteq Participants
    BY <1>1, <1>4 DEF CloseStale, SweepType
  <2> QED
    BY <1>1, <1>4, <2>3, <2>4 DEF CloseStale, SweepType, RoomType
<1>5. CASE EndAbandoned
  <2>1. RoomType'
    <3>1. CASE UNCHANGED roomVars
      BY <1>1, <3>1 DEF RoomType, roomVars
    <3>2. CASE \E t \in 1..clock : EndMeetingAt(t)
      BY <1>2, <3>2, EndMeetingAtType DEF RoomType, TypeInv
    <3> QED
      BY <1>5, <3>1, <3>2 DEF EndAbandoned
  <2> QED
    BY <1>1, <1>5, <2>1 DEF EndAbandoned, SweepType, AtRest
<1>6. CASE ExpireStaleMeetings
  <2>1. RoomType'
    BY <1>2, <1>6, EndMeetingAtType DEF ExpireStaleMeetings, RoomType, TypeInv
  <2> QED
    BY <1>1, <1>6, <2>1 DEF ExpireStaleMeetings, SweepType, sweepVars
<1>7. CASE EndMeeting
  <2>1. RoomType'
    BY <1>1, <1>7, BoundsKept, EndMeetingAtType DEF EndMeeting, RoomType, TypeInv
  <2> QED
    BY <1>1, <1>7, <2>1 DEF EndMeeting, SweepType, sweepVars
<1> QED
  BY <1>3, <1>4, <1>5, <1>6, <1>7

\* TypeInv is inductive.
LEMMA TypeStep == TypeInv /\ [Next]_vars => TypeInv'
<1> SUFFICES ASSUME TypeInv, [Next]_vars
             PROVE  RoomType' /\ InboxType' /\ SweepType' /\ BoundsType'
  BY DEF TypeInv, TypeOK, RoomType, InboxType, SweepType, BoundsType, MeetingRow,
         AttendanceRow, HandlerState
<1>1. RoomType /\ InboxType /\ SweepType /\ BoundsType
  BY TypeParts
<1>2. BoundsType'
  <2>1. (clock' = clock \/ Tick) /\ (faults' = faults \/ Fault)
    BY DEF Next, vars, Enter, Leave, RoomEnds, Occur, Process, RecoverPending, ResolveMeeting,
           ApplyJoin, ApplyLeave, ApplyEnd, MarkProcessed, MarkFailed, Crash, LockEnds,
           JoinMeeting, ConfirmJoin, ConfirmLeave, Heartbeat, EndMeeting, GoStale, ReadStale,
           CloseStale, EndAbandoned, ExpireStaleMeetings
  <2> QED
    BY <1>1, <2>1, BoundsKept DEF BoundsType
<1>3. CASE \E p \in Participants : Enter(p) \/ Leave(p)
  <2>1. InboxType'
    BY <1>1, <1>3, OccurStep DEF Enter, Leave
  <2>2. UNCHANGED <<roomVars, sweepVars>>
    BY <1>3 DEF Enter, Leave, Occur
  <2> QED
    BY <1>1, <1>2, <2>1, <2>2 DEF RoomType, SweepType, roomVars, sweepVars
<1>4. CASE RoomEnds
  <2>1. InboxType'
    BY <1>1, <1>4, OccurStep DEF RoomEnds
  <2>2. UNCHANGED <<roomVars, sweepVars>>
    BY <1>4 DEF RoomEnds, Occur
  <2> QED
    BY <1>1, <1>2, <2>1, <2>2 DEF RoomType, SweepType, roomVars, sweepVars
<1>5. CASE \E h \in Handlers, i \in Callbacks : Process(h, i) \/ RecoverPending(h, i)
  <2>1. InboxType'
    BY <1>1, <1>5, InboxSteps
  <2>2. UNCHANGED <<roomVars, sweepVars>>
    BY <1>5 DEF Process, RecoverPending
  <2> QED
    BY <1>1, <1>2, <2>1, <2>2 DEF RoomType, SweepType, roomVars, sweepVars
<1>6. CASE \E h \in Handlers :
              ResolveMeeting(h) \/ MarkProcessed(h) \/ MarkFailed(h) \/ Crash(h)
  <2>1. PICK h \in Handlers :
              ResolveMeeting(h) \/ MarkProcessed(h) \/ MarkFailed(h) \/ Crash(h)
    BY <1>6
  <2>2. \E i \in Callbacks : TRUE
    BY <1>1, <2>1 DEF InboxType, BusyHasCallback, ResolveMeeting, MarkProcessed, MarkFailed, Crash
  <2>3. InboxType'
    BY <1>1, <2>1, <2>2, InboxSteps
  <2>4. UNCHANGED <<roomVars, sweepVars>>
    BY <2>1 DEF ResolveMeeting, MarkProcessed, MarkFailed, Crash
  <2> QED
    BY <1>1, <1>2, <2>3, <2>4 DEF RoomType, SweepType, roomVars, sweepVars
<1>7. CASE \E h \in Handlers : ApplyJoin(h) \/ ApplyLeave(h) \/ ApplyEnd(h)
  <2>1. InboxType' /\ RoomType'
    BY <1>7, ApplySteps
  <2>2. UNCHANGED sweepVars
    BY <1>7 DEF ApplyJoin, ApplyLeave, ApplyEnd
  <2> QED
    BY <1>1, <1>2, <2>1, <2>2 DEF SweepType, sweepVars
<1>8. CASE \E i \in Callbacks : LockEnds(i)
  <2>1. UNCHANGED <<roomVars, sweepVars>> /\ UNCHANGED <<callback, handler, applied>>
    BY <1>8 DEF LockEnds
  <2>2. inbox' \in [Callbacks -> InboxRow]
    <3>1. PICK i \in Callbacks : inbox' = [inbox EXCEPT ![i].locked = FALSE]
      BY <1>8 DEF LockEnds
    <3>2. inbox \in [Callbacks -> InboxRow] /\ inbox[i] \in InboxRow
      BY <1>1 DEF InboxType
    <3>3. [inbox[i] EXCEPT !.locked = FALSE] \in InboxRow
      BY <3>2 DEF InboxRow
    <3> QED
      BY <3>1, <3>2, <3>3
  <2> QED
    BY <1>1, <1>2, <2>1, <2>2
    DEF InboxType, BusyHasCallback, RoomType, SweepType, roomVars, sweepVars
<1>9. CASE \E p \in Participants :
              JoinMeeting(p) \/ ConfirmJoin(p) \/ ConfirmLeave(p) \/ Heartbeat(p) \/ GoStale(p)
  <2>1. RoomType'
    BY <1>1, <1>9, UserSteps
  <2>2. UNCHANGED <<inboxVars, sweepVars>>
    BY <1>9 DEF JoinMeeting, ConfirmJoin, ConfirmLeave, Heartbeat, GoStale
  <2> QED
    BY <1>1, <1>2, <2>1, <2>2
    DEF InboxType, BusyHasCallback, SweepType, inboxVars, sweepVars
<1>10. CASE ReadStale \/ CloseStale \/ EndAbandoned \/ ExpireStaleMeetings \/ EndMeeting
  <2>1. RoomType' /\ SweepType'
    BY <1>10, SweepSteps
  <2>2. UNCHANGED inboxVars
    BY <1>10 DEF ReadStale, CloseStale, EndAbandoned, ExpireStaleMeetings, EndMeeting
  <2> QED
    BY <1>1, <1>2, <2>1, <2>2 DEF InboxType, BusyHasCallback, inboxVars
<1>11. CASE UNCHANGED vars
  BY <1>1, <1>2, <1>11
  DEF InboxType, BusyHasCallback, RoomType, SweepType, vars, inboxVars, roomVars, sweepVars
<1> QED
  BY <1>3, <1>4, <1>5, <1>6, <1>7, <1>8, <1>9, <1>10, <1>11, PresenceAssumption DEF Next

\* The initial state has its types.
LEMMA TypeInit == Init => TypeInv
<1> SUFFICES ASSUME Init PROVE TypeInv
  OBVIOUS
<1>1. 0 \in Times /\ 0 \in 0..MaxEvents /\ 0 \in 0..MaxFaults
  BY PresenceAssumption DEF Times
<1>2. RoomType
  BY <1>1 DEF Init, RoomType, MeetingRow, AttendanceRow
<1>3. InboxType
  BY <1>1 DEF Init, InboxType, Callback, NoCallback, InboxRow, HandlerState, Idle, BusyHasCallback
<1>4. SweepType /\ BoundsType
  BY <1>1 DEF Init, SweepType, BoundsType, AtRest
<1> QED
  BY <1>2, <1>3, <1>4, TypeParts

\* Types hold in every state, whatever the handlers and the sweeps do.
LEMMA TypeInvariant == Spec => []TypeInv
BY TypeInit, TypeStep, PTL DEF Spec

\* Rows, callbacks and handlers of MeetingPresence keep their types, whatever the
\* number of handlers and the order of callbacks.
THEOREM TypeCorrect == Spec => []TypeOK
<1>1. TypeInv => TypeOK
  BY DEF TypeInv
<1> QED
  BY <1>1, TypeInvariant, PTL

----------------------------------------------------------------------------
(* The inbox *)

\* A handler that goes to MarkProcessed has applied its callback, and so has
\* whoever marked a callback processed.
InboxInv ==
    /\ \A h \in Handlers : handler[h].pc = "applied" => handler[h].id \in applied
    /\ ProcessedWasApplied

\* InboxInv is inductive.
LEMMA InboxStep == TypeInv /\ InboxInv /\ [Next]_vars => InboxInv'
<1> SUFFICES ASSUME TypeInv, InboxInv, [Next]_vars
             PROVE  InboxInv'
  OBVIOUS
<1>1. InboxType
  BY TypeParts
<1>2. CASE UNCHANGED <<inbox, handler, applied>>
  BY <1>2 DEF InboxInv, ProcessedWasApplied
<1>3. CASE \E h \in Handlers, i \in Callbacks : Process(h, i) \/ RecoverPending(h, i)
  <2>1. PICK h \in Handlers, i \in Callbacks : Process(h, i) \/ RecoverPending(h, i)
    BY <1>3
  <2>2. /\ inbox' = [inbox EXCEPT ![i] = [status |-> "processing",
                                          attempts |-> inbox[i].attempts + 1, locked |-> TRUE]]
        /\ handler' = [handler EXCEPT ![h] = [id |-> i, pc |-> "claimed", endedAt |-> 0]]
        /\ UNCHANGED applied
    BY <1>1, <2>1 DEF Process, RecoverPending, InboxType
  <2> QED
    BY <1>1, <2>2 DEF InboxInv, ProcessedWasApplied, InboxType
<1>4. CASE \E h \in Handlers : ResolveMeeting(h) \/ Crash(h)
  <2>1. PICK h \in Handlers : ResolveMeeting(h) \/ Crash(h)
    BY <1>4
  <2>2. \/ handler' = [handler EXCEPT ![h].pc = "resolved", ![h].endedAt = meeting.ended]
        \/ handler' = [handler EXCEPT ![h].pc = "failed"]
        \/ handler' = [handler EXCEPT ![h] = Idle]
    BY <2>1 DEF ResolveMeeting, Crash
  <2>3. \A g \in Handlers : handler'[g].pc = "applied" => handler'[g] = handler[g]
    BY <1>1, <2>2 DEF InboxType, HandlerState, Idle
  <2>4. UNCHANGED <<inbox, applied>>
    BY <2>1 DEF ResolveMeeting, Crash
  <2> QED
    BY <2>3, <2>4 DEF InboxInv, ProcessedWasApplied
<1>5. CASE \E h \in Handlers : ApplyJoin(h) \/ ApplyLeave(h) \/ ApplyEnd(h)
  <2>1. PICK h \in Handlers : ApplyJoin(h) \/ ApplyLeave(h) \/ ApplyEnd(h)
    BY <1>5
  <2>2. /\ handler' = [handler EXCEPT ![h].pc = "applied"]
        /\ applied' = applied \cup {handler[h].id}
        /\ UNCHANGED inbox
    BY <2>1 DEF ApplyJoin, ApplyLeave, ApplyEnd
  <2> QED
    BY <1>1, <2>2 DEF InboxInv, ProcessedWasApplied, InboxType, HandlerState
<1>6. CASE \E h \in Handlers : MarkProcessed(h) \/ MarkFailed(h)
  <2>1. PICK h \in Handlers : MarkProcessed(h) \/ MarkFailed(h)
    BY <1>6
  <2>2. handler[h].id \in Callbacks
    BY <1>1, <2>1 DEF MarkProcessed, MarkFailed, InboxType, BusyHasCallback
  <2>3. \A i \in Callbacks : inbox'[i].status = "processed"
                               => inbox[i].status = "processed" \/ i \in applied
    BY <1>1, <2>1, <2>2
    DEF MarkProcessed, MarkFailed, InboxInv, InboxType, InboxRow
  <2>4. handler' = [handler EXCEPT ![h] = Idle] /\ UNCHANGED applied
    BY <2>1 DEF MarkProcessed, MarkFailed
  <2> QED
    BY <1>1, <2>3, <2>4 DEF InboxInv, ProcessedWasApplied, InboxType, Idle
<1>7. CASE \E i \in Callbacks : LockEnds(i)
  BY <1>1, <1>7 DEF LockEnds, InboxInv, ProcessedWasApplied, InboxType, InboxRow
<1>8. CASE \/ \E p \in Participants : Enter(p) \/ Leave(p) \/ GoStale(p)
           \/ RoomEnds
           \/ \E p \in Registered : JoinMeeting(p) \/ ConfirmJoin(p) \/ ConfirmLeave(p) \/ Heartbeat(p)
           \/ EndMeeting \/ ReadStale \/ CloseStale \/ EndAbandoned \/ ExpireStaleMeetings
           \/ UNCHANGED vars
  <2>1. UNCHANGED <<inbox, handler, applied>>
    BY <1>8 DEF Enter, Leave, RoomEnds, Occur, GoStale, JoinMeeting, ConfirmJoin, ConfirmLeave,
                Heartbeat, EndMeeting, ReadStale, CloseStale, EndAbandoned, ExpireStaleMeetings,
                vars, inboxVars
  <2> QED
    BY <1>2, <2>1
<1> QED
  BY <1>3, <1>4, <1>5, <1>6, <1>7, <1>8 DEF Next

\* No callback is lost: what the inbox marks processed was applied, although
\* MarkProcessed writes by id alone and several handlers may hold one callback
\* after its lock ran out.
THEOREM NoCallbackLost == Spec => []ProcessedWasApplied
<1>1. Init => InboxInv
  BY DEF Init, InboxInv, ProcessedWasApplied, Idle
<1>2. InboxInv => ProcessedWasApplied
  BY DEF InboxInv
<1> QED
  BY <1>1, <1>2, InboxStep, TypeInvariant, PTL DEF Spec

----------------------------------------------------------------------------
(* The start and the end of the meeting *)

\* The joins on record are the same before and after.
SameJoins == \A p \in Participants : attendance'[p].joined = attendance[p].joined

\* What a step may do to the meeting: nothing, and then no join is recorded or
\* moved; activate it from the attendance it leaves; or end it.
RoomChange ==
    \/ meeting' = meeting /\ SameJoins
    \/ meeting' = Activate(meeting, attendance')
    \/ ~Ended /\ meeting' = [meeting EXCEPT !.status = "ended", !.ended = meeting'.ended,
                                            !.announced = TRUE]

\* endMeetingAtDB changes the meeting only by ending it.
LEMMA EndMeetingAtChange ==
    ASSUME RoomType, NEW t, EndMeetingAt(t)
    PROVE  RoomChange
<1>1. CASE Ended
  BY <1>1 DEF EndMeetingAt, roomVars, RoomChange, SameJoins
<1>2. CASE ~Ended
  BY <1>2 DEF EndMeetingAt, RoomChange, RoomType, MeetingRow
<1> QED
  BY <1>1, <1>2

\* Every step changes the meeting as RoomChange says.
LEMMA RoomStep == TypeInv /\ [Next]_vars => RoomChange
<1> SUFFICES ASSUME TypeInv, [Next]_vars
             PROVE  RoomChange
  OBVIOUS
<1>1. RoomType
  BY TypeParts
<1>2. ASSUME UNCHANGED roomVars PROVE RoomChange
  BY <1>2 DEF RoomChange, SameJoins, roomVars
<1>3. CASE \E h \in Handlers : ApplyJoin(h)
  BY <1>2, <1>3 DEF ApplyJoin, RoomChange
<1>4. CASE \E h \in Handlers : ApplyLeave(h)
  <2>1. PICK h \in Handlers : ApplyLeave(h)
    BY <1>4
  <2> DEFINE e == callback[handler[h].id]
             t == IF handler[h].endedAt # 0 THEN Earlier(e.at, handler[h].endedAt) ELSE e.at
  <2>2. attendance' = [attendance EXCEPT ![e.who] = MergeLeave(attendance[e.who], t)]
        /\ meeting' = meeting
    BY <1>1, <2>1 DEF ApplyLeave, RoomType
  <2> HIDE DEF t
  <2>3. \A p \in Participants : MergeLeave(attendance[p], t).joined = attendance[p].joined
    BY <1>1 DEF MergeLeave, RoomType, AttendanceRow
  <2> QED
    BY <1>1, <2>2, <2>3 DEF RoomChange, SameJoins, RoomType
<1>5. CASE \E h \in Handlers : ApplyEnd(h)
  BY <1>1, <1>5, EndMeetingAtChange DEF ApplyEnd
<1>6. CASE \E p \in Registered : ConfirmJoin(p)
  BY <1>6 DEF ConfirmJoin, RoomChange
<1>7. CASE \/ \E p \in Registered : JoinMeeting(p) \/ ConfirmLeave(p) \/ Heartbeat(p)
           \/ \E p \in Participants : GoStale(p)
  <2>1. meeting' = meeting
    BY <1>7 DEF JoinMeeting, ConfirmLeave, Heartbeat, GoStale
  <2>2. \E q \in Participants : \E x, b :
           \/ attendance' = [attendance EXCEPT ![q].exists = x, ![q].fresh = b]
           \/ attendance' = [attendance EXCEPT ![q].left = x, ![q].fresh = b]
           \/ attendance' = [attendance EXCEPT ![q].fresh = b]
    BY <1>7, PresenceAssumption DEF JoinMeeting, ConfirmLeave, Heartbeat, GoStale
  <2>3. SameJoins
    BY <1>1, <2>2 DEF SameJoins, RoomType, AttendanceRow
  <2> QED
    BY <2>1, <2>3 DEF RoomChange
<1>8. CASE EndMeeting \/ ExpireStaleMeetings
  BY <1>1, <1>8, EndMeetingAtChange DEF EndMeeting, ExpireStaleMeetings
<1>9. CASE EndAbandoned
  BY <1>1, <1>2, <1>9, EndMeetingAtChange DEF EndAbandoned
<1>10. CASE CloseStale
  <2>1. \A p \in Participants : \/ attendance'[p] = attendance[p]
                                \/ \E x : attendance'[p] = [attendance[p] EXCEPT !.left = x,
                                                                                 !.fresh = TRUE]
    BY <1>10 DEF CloseStale
  <2>2. SameJoins
    BY <1>1, <2>1 DEF SameJoins, RoomType, AttendanceRow
  <2> QED
    BY <1>10, <2>2 DEF CloseStale, RoomChange
<1>11. CASE \/ \E p \in Participants : Enter(p) \/ Leave(p)
            \/ RoomEnds
            \/ \E h \in Handlers, i \in Callbacks : Process(h, i) \/ RecoverPending(h, i)
            \/ \E h \in Handlers :
                  ResolveMeeting(h) \/ MarkProcessed(h) \/ MarkFailed(h) \/ Crash(h)
            \/ \E i \in Callbacks : LockEnds(i)
            \/ ReadStale
            \/ UNCHANGED vars
  <2>1. UNCHANGED roomVars
    BY <1>11 DEF Enter, Leave, RoomEnds, Occur, Process, RecoverPending, ResolveMeeting,
                 MarkProcessed, MarkFailed, Crash, LockEnds, ReadStale, vars
  <2> QED
    BY <1>2, <2>1
<1> QED
  BY <1>3, <1>4, <1>5, <1>6, <1>7, <1>8, <1>9, <1>10, <1>11 DEF Next

\* An ended meeting stays as it is: neither a callback recovered late nor a
\* browser opens it again or changes when it started and ended.
THEOREM EndOfMeetingIsFinal == Spec => EndedIsFinal
<1>1. TypeInv /\ TypeInv' /\ [Next]_vars => [Ended => meeting' = meeting]_vars
  <2> SUFFICES ASSUME TypeInv, TypeInv', [Next]_vars, Ended
               PROVE  meeting' = meeting
    OBVIOUS
  <2>1. meeting \in MeetingRow /\ attendance' \in [Participants -> AttendanceRow]
    BY DEF TypeInv, TypeOK, MeetingRow, AttendanceRow
  <2>2. RoomChange
    BY RoomStep
  <2> QED
    BY <2>1, <2>2, ActivateStarts DEF RoomChange, Ended
<1> QED
  BY <1>1, TypeInvariant, PTL DEF Spec, EndedIsFinal

\* The start of a meeting never moves to a later time, although the join of a
\* participant who comes back, or whose browser reports again, does.
THEOREM StartIsEarliest == Spec => StartNeverMovesLater
<1>1. TypeInv /\ TypeInv' /\ [Next]_vars
        => [meeting.started # 0
              => meeting'.started # 0 /\ meeting'.started <= meeting.started]_vars
  <2> SUFFICES ASSUME TypeInv, TypeInv', [Next]_vars, meeting.started # 0
               PROVE  meeting'.started # 0 /\ meeting'.started <= meeting.started
    OBVIOUS
  <2>1. /\ meeting \in MeetingRow
        /\ attendance' \in [Participants -> AttendanceRow]
    BY DEF TypeInv, TypeOK, MeetingRow, AttendanceRow
  <2>2. meeting.started \in Nat
    BY <2>1, PresenceAssumption DEF MeetingRow, Times
  <2>3. CASE meeting' = meeting
    BY <2>2, <2>3
  <2>4. CASE meeting' = Activate(meeting, attendance')
    BY <2>1, <2>4, ActivateStarts
  <2>5. CASE meeting' = [meeting EXCEPT !.status = "ended", !.ended = meeting'.ended,
                                        !.announced = TRUE]
    <3>1. meeting'.started = meeting.started
      BY <2>1, <2>5 DEF MeetingRow
    <3> QED
      BY <2>2, <3>1
  <2> QED
    BY <2>3, <2>4, <2>5, RoomStep DEF RoomChange
<1> QED
  BY <1>1, TypeInvariant, PTL DEF Spec, StartNeverMovesLater

\* Nobody joined an active meeting before it started: every transaction that
\* records a join also moves the start.
THEOREM StartPrecedesJoins == Spec => []StartedBeforeJoins
<1>1. Init => StartedBeforeJoins
  BY DEF Init, StartedBeforeJoins
<1>2. TypeInv /\ TypeInv' /\ StartedBeforeJoins /\ [Next]_vars => StartedBeforeJoins'
  <2> SUFFICES ASSUME TypeInv, TypeInv', StartedBeforeJoins, [Next]_vars,
                      meeting'.status = "active",
                      NEW p \in Participants, attendance'[p].joined # 0
               PROVE  meeting'.started <= attendance'[p].joined
    BY DEF StartedBeforeJoins
  <2>1. /\ meeting \in MeetingRow
        /\ attendance' \in [Participants -> AttendanceRow]
    BY DEF TypeInv, TypeOK, MeetingRow, AttendanceRow
  <2>2. CASE meeting' = meeting /\ SameJoins
    BY <2>2 DEF StartedBeforeJoins, SameJoins
  <2>3. CASE meeting' = Activate(meeting, attendance')
    <3>1. meeting.status # "ended"
      BY <2>1, <2>3, ActivateStarts
    <3>2. attendance'[p].joined \in Joins(attendance')
      BY DEF Joins
    <3> QED
      BY <2>1, <2>3, <3>1, <3>2, ActivateStarts
  <2>4. CASE meeting' = [meeting EXCEPT !.status = "ended", !.ended = meeting'.ended,
                                        !.announced = TRUE]
    BY <2>1, <2>4 DEF MeetingRow
  <2> QED
    BY <2>2, <2>3, <2>4, RoomStep DEF RoomChange
<1> QED
  BY <1>1, <1>2, TypeInvariant, PTL DEF Spec

----------------------------------------------------------------------------
(* The attendance *)

\* The callbacks about p that the provider has sent.
Of(p) == {i \in Sent : callback[i].who = p}

\* Callbacks are numbered and timed in the order they happened.
SentInOrder ==
    /\ \E n \in 0..MaxEvents : Sent = 1..n
    /\ \A i \in Sent : callback[i].at \in 1..clock
    /\ \A i, j \in Sent : i < j => callback[i].at < callback[j].at

\* What the room did to p is a join, a leave, a join and so on.
Alternates(p) ==
    \A k \in Of(p) :
        /\ callback[k].action \in {"joined", "left"}
        /\ callback[k].action = "left" => \E j \in Of(p) : j < k
        /\ \A j \in Of(p) : j < k /\ callback[j].action = callback[k].action
                              => \E i \in Of(p) : j < i /\ i < k

HasLast(p) == Of(p) # {} => \E m \in Of(p) : \A i \in Of(p) : i <= m

SentInv == SentInOrder /\ \A p \in Participants : Alternates(p) /\ HasLast(p)

\* InRoom looks at the last callback.
LEMMA InRoomIsLast ==
    ASSUME InboxType, NEW p \in Participants
    PROVE  /\ Of(p) = {} => ~InRoom(p)
           /\ \A m \in Of(p) : (\A i \in Of(p) : i <= m)
                                 => (InRoom(p) <=> callback[m].action = "joined")
<1>1. Of(p) = {} => ~InRoom(p)
  BY DEF InRoom, Of
<1>2. ASSUME NEW m \in Of(p), \A i \in Of(p) : i <= m
      PROVE  InRoom(p) <=> callback[m].action = "joined"
  <2>1. Of(p) \subseteq Nat
    BY PresenceAssumption DEF Of, Sent, Callbacks
  <2>2. Max(Of(p)) \in Of(p) /\ \A y \in Of(p) : Max(Of(p)) >= y
    BY <1>2, <2>1 DEF Max
  <2>3. Max(Of(p)) = m
    BY <1>2, <2>1, <2>2
  <2> QED
    BY <1>2, <2>3 DEF InRoom, Of
<1> QED
  BY <1>1, <1>2

\* Something happens in the room: its callback is the next one.
LEMMA OccurIsNext ==
    ASSUME TypeInv, SentInOrder, NEW action \in {"joined", "left", "ended"},
           NEW who \in Participants \cup {"none"}, Occur(action, who)
    PROVE  \E k \in Callbacks :
              /\ Sent' = Sent \cup {k}
              /\ \A j \in Sent : j < k
              /\ callback'[k] = [action |-> action, who |-> who, at |-> clock']
              /\ \A j \in Sent : callback'[j] = callback[j]
              /\ SentInOrder'
<1>1. PICK n \in 0..MaxEvents : Sent = 1..n
  BY DEF SentInOrder
<1>2. Cardinality(Sent) = n
  BY <1>1, FS_Interval
<1> DEFINE k == n + 1
           e == [action |-> action, who |-> who, at |-> clock']
<1>3. InboxType /\ BoundsType
  BY TypeParts
<1>4. /\ k \in Callbacks
      /\ callback' = [callback EXCEPT ![k] = e]
      /\ clock' = clock + 1
  BY <1>2 DEF Occur, Tick
<1>5. e.action = action /\ e.at = clock'
  OBVIOUS
<1> HIDE DEF e
<1>6. callback'[k] = e /\ \A j \in Callbacks : j # k => callback'[j] = callback[j]
  BY <1>3, <1>4 DEF InboxType
<1>7. Sent' = Sent \cup {k} /\ k \notin Sent
  BY <1>1, <1>4, <1>5, <1>6 DEF Sent
<1>8. \A j \in Sent : j < k /\ j \in Callbacks /\ callback'[j] = callback[j]
  BY <1>1, <1>6, <1>7 DEF Sent
<1>9. clock \in Nat
  BY <1>3, PresenceAssumption DEF BoundsType, Times
<1>10. SentInOrder'
  <2>1. k \in 0..MaxEvents /\ Sent' = 1..k
    BY <1>1, <1>4, <1>7, PresenceAssumption DEF Callbacks
  <2>2. \A i \in Sent' : callback'[i].at \in 1..clock'
    BY <1>4, <1>5, <1>6, <1>7, <1>8, <1>9 DEF SentInOrder
  <2>3. \A i, j \in Sent' : i < j => callback'[i].at < callback'[j].at
    BY <1>1, <1>4, <1>5, <1>6, <1>7, <1>8, <1>9 DEF SentInOrder
  <2> QED
    BY <2>1, <2>2, <2>3 DEF SentInOrder
<1> QED
  BY <1>4, <1>6, <1>7, <1>8, <1>10 DEF e

\* What happens in the room next fits what happened before.
LEMMA OccurAlternates ==
    ASSUME TypeInv, SentInv, NEW action \in {"joined", "left", "ended"},
           NEW who \in Participants \cup {"none"}, Occur(action, who),
           who = "none" <=> action = "ended",
           who \in Participants => (InRoom(who) <=> action = "left")
    PROVE  SentInv'
<1>1. PICK k \in Callbacks :
              /\ Sent' = Sent \cup {k}
              /\ \A j \in Sent : j < k
              /\ callback'[k] = [action |-> action, who |-> who, at |-> clock']
              /\ \A j \in Sent : callback'[j] = callback[j]
              /\ SentInOrder'
  BY OccurIsNext DEF SentInv
<1>2. callback'[k].action = action /\ callback'[k].who = who
  BY <1>1
<1>3. Sent \subseteq Nat /\ k \in Nat
  BY PresenceAssumption DEF Sent, Callbacks
<1>4. ASSUME NEW p \in Participants
      PROVE  Alternates(p)' /\ HasLast(p)'
  <2>1. Of(p) \subseteq Sent /\ \A j \in Of(p) : callback'[j] = callback[j] /\ j < k /\ j \in Nat
    BY <1>1, <1>3 DEF Of
  <2>2. CASE who # p
    <3>1. Of(p)' = Of(p)
      BY <1>1, <1>2, <2>2 DEF Of
    <3> QED
      BY <2>1, <3>1 DEF SentInv, Alternates, HasLast
  <2>3. CASE who = p
    <3>1. Of(p)' = Of(p) \cup {k}
      BY <1>1, <1>2, <2>3 DEF Of
    <3>2. Alternates(p) /\ HasLast(p)
      BY DEF SentInv
    <3>3. HasLast(p)'
      BY <1>3, <2>1, <3>1 DEF HasLast
    <3>4. action \in {"joined", "left"} /\ (InRoom(p) <=> action = "left")
      BY <2>3, PresenceAssumption
    <3>5. CASE Of(p) = {}
      <4>1. action = "joined"
        BY <3>4, <3>5, InRoomIsLast, TypeParts
      <4> QED
        BY <1>2, <1>3, <3>1, <3>3, <3>5, <4>1 DEF Alternates
    <3>6. CASE Of(p) # {}
      <4>1. PICK m \in Of(p) : \A i \in Of(p) : i <= m
        BY <3>2, <3>6 DEF HasLast
      <4>2. callback[m].action # action
        BY <3>4, <4>1, InRoomIsLast, TypeParts
      <4>3. \A j \in Of(p) : callback[j].action = action => j < m
        BY <2>1, <4>1, <4>2
      <4> HIDE DEF Of
      <4>4. ASSUME NEW c \in Of(p)'
            PROVE  /\ callback'[c].action \in {"joined", "left"}
                   /\ callback'[c].action = "left" => \E j \in Of(p)' : j < c
                   /\ \A j \in Of(p)' : j < c /\ callback'[j].action = callback'[c].action
                              => \E i \in Of(p)' : j < i /\ i < c
        <5>1. CASE c = k
          BY <1>2, <1>3, <2>1, <3>1, <3>4, <4>1, <4>2, <4>3, <5>1
        <5>2. CASE c \in Of(p)
          BY <1>2, <1>3, <2>1, <3>1, <3>2, <5>2 DEF Alternates
        <5> QED
          BY <3>1, <5>1, <5>2
      <4> QED
        BY <3>3, <4>4 DEF Alternates
    <3> QED
      BY <3>5, <3>6
  <2> QED
    BY <2>2, <2>3
<1> QED
  BY <1>1, <1>4 DEF SentInv

\* SentInv is inductive.
LEMMA SentStep == TypeInv /\ SentInv /\ [Next]_vars => SentInv'
<1> SUFFICES ASSUME TypeInv, SentInv, [Next]_vars
             PROVE  SentInv'
  OBVIOUS
<1>1. CASE \E p \in Participants : Enter(p) \/ Leave(p)
  <2>1. PICK p \in Participants : Enter(p) \/ Leave(p)
    BY <1>1
  <2>2. p # "none"
    BY PresenceAssumption
  <2>3. CASE Enter(p)
    BY <2>2, <2>3, OccurAlternates DEF Enter
  <2>4. CASE Leave(p)
    BY <2>2, <2>4, OccurAlternates DEF Leave
  <2> QED
    BY <2>1, <2>3, <2>4
<1>2. CASE RoomEnds
  BY <1>2, OccurAlternates, PresenceAssumption DEF RoomEnds
<1>3. CASE UNCHANGED callback /\ (clock' = clock \/ Tick)
  <2>1. clock \in Nat /\ clock' \in Nat /\ clock <= clock'
    BY <1>3, TypeParts, PresenceAssumption DEF BoundsType, Times, Tick
  <2>2. Sent' = Sent /\ \A p : Of(p)' = Of(p)
    BY <1>3 DEF Sent, Of
  <2>3. SentInOrder'
    BY <1>3, <2>1, <2>2 DEF SentInv, SentInOrder
  <2>4. \A p \in Participants : Alternates(p)' /\ HasLast(p)'
    BY <1>3, <2>2 DEF SentInv, Alternates, HasLast
  <2> QED
    BY <2>3, <2>4 DEF SentInv
<1>4. \/ \E p \in Participants : Enter(p) \/ Leave(p)
      \/ RoomEnds
      \/ UNCHANGED callback /\ (clock' = clock \/ Tick)
  BY DEF Next, vars, inboxVars, Process, RecoverPending, ResolveMeeting,
         ApplyJoin, ApplyLeave, ApplyEnd, MarkProcessed, MarkFailed, Crash, LockEnds,
         JoinMeeting, ConfirmJoin, ConfirmLeave, Heartbeat, EndMeeting, GoStale, ReadStale,
         CloseStale, EndAbandoned, ExpireStaleMeetings
<1> QED
  BY <1>1, <1>2, <1>3, <1>4

\* Callbacks first arrive in order: what the inbox knows was sent, and all that
\* was sent before it has been applied.  A handler knows an end of the meeting
\* only after the meeting has ended.
ArrivedInOrder ==
    \A k \in Callbacks : inbox[k].status # "none"
                           => k \in Sent /\ \A j \in Sent : j < k => j \in applied

OrderInv ==
    /\ ArrivedInOrder
    /\ \A k \in applied : inbox[k].status # "none"
    /\ \A h \in Handlers : handler[h].pc # "free" => inbox[handler[h].id].status # "none"
    /\ \A h \in Handlers : handler[h].endedAt # 0 => Ended
    /\ meeting.ended # 0 => Ended

\* The end of a meeting is known from its status, before and after a step.
LEMMA EndIsKnown ==
    ASSUME TypeInv, TypeInv', meeting.ended # 0 => Ended, [Next]_vars
    PROVE  (Ended => Ended') /\ (meeting'.ended # 0 => Ended')
<1>1. /\ meeting \in MeetingRow
      /\ attendance' \in [Participants -> AttendanceRow]
  BY TypeParts DEF RoomType, TypeInv, TypeOK, AttendanceRow
<1>2. CASE meeting' = meeting
  BY <1>2 DEF Ended
<1>3. CASE meeting' = Activate(meeting, attendance')
  <2>1. Ended => meeting' = meeting
    BY <1>1, <1>3, ActivateStarts DEF Ended
  <2>2. meeting'.ended = meeting.ended
    BY <1>1, <1>3 DEF Activate, MeetingRow
  <2> QED
    BY <2>1, <2>2 DEF Ended
<1>4. CASE meeting' = [meeting EXCEPT !.status = "ended", !.ended = meeting'.ended,
                                      !.announced = TRUE]
  BY <1>1, <1>4 DEF Ended, MeetingRow
<1> QED
  BY <1>2, <1>3, <1>4, RoomStep DEF RoomChange

\* OrderInv is inductive, when callbacks are not reordered.
LEMMA OrderStep ==
    ASSUME ~Reorder
    PROVE  TypeInv /\ TypeInv' /\ SentInv /\ OrderInv /\ [Next]_vars => OrderInv'
<1> SUFFICES ASSUME TypeInv, TypeInv', SentInv, OrderInv, [Next]_vars
             PROVE  OrderInv'
  OBVIOUS
<1>1. InboxType /\ BoundsType
  BY TypeParts
<1>2. (Ended => Ended') /\ (meeting'.ended # 0 => Ended')
  BY EndIsKnown DEF OrderInv
<1>3. CASE UNCHANGED <<callback, inbox, handler, applied>>
  BY <1>2, <1>3 DEF OrderInv, ArrivedInOrder, Sent
<1>4. ASSUME NEW action \in {"joined", "left", "ended"},
             NEW who \in Participants \cup {"none"}, Occur(action, who)
      PROVE  OrderInv'
  <2>1. PICK k \in Callbacks : Sent' = Sent \cup {k} /\ \A j \in Sent : j < k
    BY <1>4, OccurIsNext DEF SentInv
  <2>2. UNCHANGED <<inbox, handler, applied>>
    BY <1>4 DEF Occur
  <2>3. Callbacks \subseteq Nat
    BY PresenceAssumption DEF Callbacks
  <2>4. ArrivedInOrder'
    BY <2>1, <2>2, <2>3 DEF OrderInv, ArrivedInOrder
  <2> QED
    BY <1>2, <2>2, <2>4 DEF OrderInv
<1>5. CASE \/ \E p \in Participants : Enter(p) \/ Leave(p)
           \/ RoomEnds
  BY <1>4, <1>5 DEF Enter, Leave, RoomEnds
<1>6. CASE \E h \in Handlers, i \in Callbacks : Process(h, i) \/ RecoverPending(h, i)
  <2>1. PICK h \in Handlers, i \in Callbacks : Process(h, i) \/ RecoverPending(h, i)
    BY <1>6
  <2>2. i \in Sent /\ \A j \in Sent : j < i => j \in applied
    BY <2>1 DEF Process, RecoverPending, OrderInv, ArrivedInOrder
  <2>3. /\ \A k \in Callbacks : inbox'[k].status # "none" <=> k = i \/ inbox[k].status # "none"
        /\ handler' = [handler EXCEPT ![h] = [id |-> i, pc |-> "claimed", endedAt |-> 0]]
        /\ UNCHANGED <<callback, applied>>
    BY <1>1, <2>1 DEF Process, RecoverPending, InboxType
  <2>4. Sent' = Sent
    BY <2>3 DEF Sent
  <2>5. ArrivedInOrder'
    BY <2>2, <2>3, <2>4 DEF OrderInv, ArrivedInOrder
  <2>6. \A g \in Handlers : handler'[g] = IF g = h THEN [id |-> i, pc |-> "claimed", endedAt |-> 0]
                                          ELSE handler[g]
    BY <1>1, <2>3 DEF InboxType
  <2>7. \A g \in Handlers : handler'[g].pc # "free" => inbox'[handler'[g].id].status # "none"
    BY <1>1, <2>3, <2>6 DEF OrderInv, InboxType, BusyHasCallback
  <2>8. \A g \in Handlers : handler'[g].endedAt # 0 => Ended'
    BY <1>2, <2>6 DEF OrderInv
  <2>9. \A k \in applied' : inbox'[k].status # "none"
    BY <1>1, <2>3 DEF OrderInv, InboxType
  <2> QED
    BY <1>2, <2>5, <2>7, <2>8, <2>9 DEF OrderInv
<1>7. ASSUME NEW h \in Handlers, UNCHANGED callback,
             \A k \in Callbacks : inbox'[k].status = "none" <=> inbox[k].status = "none",
             applied' \subseteq applied \cup {handler[h].id}, applied \subseteq applied',
             handler[h].pc # "free",
             handler'[h] = Idle \/ (/\ handler'[h].id = handler[h].id
                                    /\ handler'[h].endedAt \in {handler[h].endedAt, meeting.ended}),
             \A g \in Handlers : g # h => handler'[g] = handler[g]
      PROVE  OrderInv'
  <2> USE <1>7
  <2>1. Sent' = Sent
    BY DEF Sent
  <2>2. ArrivedInOrder'
    BY <2>1 DEF OrderInv, ArrivedInOrder
  <2>3. \A g \in Handlers : handler[g].pc # "free" =>
           handler[g].id \in Callbacks /\ inbox[handler[g].id].status # "none"
    BY <1>1 DEF OrderInv, InboxType, BusyHasCallback
  <2>4. \A k \in applied' : inbox'[k].status # "none"
    BY <1>1, <2>3 DEF OrderInv, InboxType
  <2>5. \A g \in Handlers : handler'[g].pc # "free" => inbox'[handler'[g].id].status # "none"
    BY <2>3 DEF Idle
  <2>6. \A g \in Handlers : handler'[g].endedAt # 0 => Ended'
    BY <1>2 DEF OrderInv, Idle
  <2> QED
    BY <1>2, <2>2, <2>4, <2>5, <2>6 DEF OrderInv
<1>8. CASE \E h \in Handlers : ResolveMeeting(h) \/ Crash(h)
  <2>1. PICK h \in Handlers : ResolveMeeting(h) \/ Crash(h)
    BY <1>8
  <2>2. /\ UNCHANGED <<callback, inbox, applied>> /\ handler[h].pc # "free"
        /\ \/ handler' = [handler EXCEPT ![h].pc = "resolved", ![h].endedAt = meeting.ended]
           \/ handler' = [handler EXCEPT ![h].pc = "failed"]
           \/ handler' = [handler EXCEPT ![h] = Idle]
    BY <2>1 DEF ResolveMeeting, Crash
  <2>3. /\ handler'[h] = Idle \/ (/\ handler'[h].id = handler[h].id
                                  /\ handler'[h].endedAt \in {handler[h].endedAt, meeting.ended})
        /\ \A g \in Handlers : g # h => handler'[g] = handler[g]
    BY <1>1, <2>2 DEF InboxType, HandlerState
  <2> QED
    BY <1>7, <2>2, <2>3
<1>9. CASE \E h \in Handlers : ApplyJoin(h) \/ ApplyLeave(h) \/ ApplyEnd(h)
  <2>1. PICK h \in Handlers : ApplyJoin(h) \/ ApplyLeave(h) \/ ApplyEnd(h)
    BY <1>9
  <2>2. /\ UNCHANGED <<callback, inbox>> /\ handler[h].pc # "free"
        /\ applied' = applied \cup {handler[h].id}
        /\ handler' = [handler EXCEPT ![h].pc = "applied"]
    BY <2>1 DEF ApplyJoin, ApplyLeave, ApplyEnd
  <2>3. /\ handler'[h].id = handler[h].id /\ handler'[h].endedAt = handler[h].endedAt
        /\ \A g \in Handlers : g # h => handler'[g] = handler[g]
    BY <1>1, <2>2 DEF InboxType, HandlerState
  <2> QED
    BY <1>7, <2>2, <2>3
<1>10. CASE \E h \in Handlers : MarkProcessed(h) \/ MarkFailed(h)
  <2>1. PICK h \in Handlers : MarkProcessed(h) \/ MarkFailed(h)
    BY <1>10
  <2>2. /\ UNCHANGED <<callback, applied>> /\ handler[h].pc # "free"
        /\ handler' = [handler EXCEPT ![h] = Idle]
    BY <2>1 DEF MarkProcessed, MarkFailed
  <2>3. /\ handler'[h] = Idle
        /\ \A g \in Handlers : g # h => handler'[g] = handler[g]
    BY <1>1, <2>2 DEF InboxType
  <2>4. handler[h].id \in Callbacks /\ inbox[handler[h].id].status # "none"
    BY <1>1, <2>2 DEF OrderInv, InboxType, BusyHasCallback
  <2>5. \A k \in Callbacks : inbox'[k].status = "none" <=> inbox[k].status = "none"
    BY <1>1, <2>1, <2>4 DEF MarkProcessed, MarkFailed, InboxType, InboxRow
  <2> QED
    BY <1>7, <2>2, <2>3, <2>5
<1>11. CASE \E i \in Callbacks : LockEnds(i)
  <2>1. UNCHANGED <<callback, handler, applied>>
    BY <1>11 DEF LockEnds
  <2>2. \A k \in Callbacks : inbox'[k].status = inbox[k].status
    BY <1>1, <1>11 DEF LockEnds, InboxType, InboxRow
  <2>3. \A g \in Handlers : handler[g].pc # "free" => handler[g].id \in Callbacks
    BY <1>1 DEF InboxType, BusyHasCallback
  <2>4. Sent' = Sent /\ applied \subseteq Callbacks
    BY <1>1, <2>1 DEF Sent, InboxType
  <2> QED
    BY <1>2, <2>1, <2>2, <2>3, <2>4 DEF OrderInv, ArrivedInOrder
<1>12. CASE \/ \E p \in Participants : GoStale(p)
            \/ \E p \in Registered : JoinMeeting(p) \/ ConfirmJoin(p) \/ ConfirmLeave(p) \/ Heartbeat(p)
            \/ EndMeeting \/ ReadStale \/ CloseStale \/ EndAbandoned \/ ExpireStaleMeetings
            \/ UNCHANGED vars
  <2>1. UNCHANGED <<callback, inbox, handler, applied>>
    BY <1>12 DEF GoStale, JoinMeeting, ConfirmJoin, ConfirmLeave,
                 Heartbeat, EndMeeting, ReadStale, CloseStale, EndAbandoned, ExpireStaleMeetings,
                 vars, inboxVars
  <2> QED
    BY <1>3, <2>1
<1> QED
  BY <1>5, <1>6, <1>8, <1>9, <1>10, <1>11, <1>12 DEF Next

\* The callbacks about p that have been applied.
AppliedOf(p) == Of(p) \cap applied

\* p has no row yet.
Unseen(p) == AppliedOf(p) = {} /\ ~attendance[p].exists
             /\ attendance[p].joined = 0 /\ attendance[p].left = 0

\* The row of p shows the newest callback m that was applied.  Behind a leave it
\* keeps a join that no older callback can move or close.
Shows(p, m) ==
    LET a == attendance[p]
    IN  /\ m \in AppliedOf(p) /\ \A i \in AppliedOf(p) : i <= m
        /\ a.exists
        /\ \/ callback[m].action = "joined" /\ a.joined = callback[m].at /\ a.left = 0
           \/ /\ callback[m].action = "left" /\ a.left = callback[m].at
              /\ a.joined # 0 /\ a.joined < a.left
              /\ \A i \in AppliedOf(p) \ {m} :
                    /\ callback[i].at <= a.joined
                    /\ callback[i].action = "left" => callback[i].at < a.joined

RowShowsNewest(p) == Unseen(p) \/ \E m \in Callbacks : Shows(p, m)

RowInv == ~Ended => \A p \in (Participants \ Registered) \ swept : RowShowsNewest(p)

\* The window of p, all of its row that callbacks compare.
SameWindow(p) ==
    /\ attendance'[p].exists <=> attendance[p].exists
    /\ attendance'[p].joined = attendance[p].joined
    /\ attendance'[p].left = attendance[p].left

\* A step that leaves the window and the applied callbacks of p alone.
LEMMA WindowKept ==
    ASSUME NEW p, RowShowsNewest(p), SameWindow(p), AppliedOf(p)' = AppliedOf(p),
           \A i \in AppliedOf(p) : callback'[i] = callback[i]
    PROVE  RowShowsNewest(p)'
<1>1. CASE Unseen(p)
  BY <1>1 DEF RowShowsNewest, Unseen, SameWindow
<1>2. CASE \E m \in Callbacks : Shows(p, m)
  <2>1. PICK m \in Callbacks : Shows(p, m)
    BY <1>2
  <2> HIDE DEF AppliedOf
  <2>2. Shows(p, m)'
    BY <2>1 DEF Shows, SameWindow
  <2> QED
    BY <2>2 DEF RowShowsNewest
<1> QED
  BY <1>1, <1>2 DEF RowShowsNewest

\* What is known of a callback k about p, who has no account and was not swept,
\* when a handler applies it to a meeting that goes on.
Applying(p, k) ==
    /\ p \in Participants \ Registered
    /\ k \in Of(p)
    /\ \A j \in Of(p) : j < k => j \in applied
    /\ k \notin applied => \A j \in AppliedOf(p) : j < k

\* Callbacks about p are numbered and timed alike.
TimesOf(p) ==
    /\ Of(p) \subseteq Nat
    /\ \A i \in Of(p) : callback[i].at \in Nat \ {0}
    /\ \A i, j \in Of(p) : i < j => callback[i].at < callback[j].at

\* This follows from the order in which they are sent.
LEMMA CallbacksAreTimed ==
    ASSUME TypeInv, SentInv, NEW p
    PROVE  TimesOf(p)
<1>1. Sent \subseteq Nat /\ clock \in Nat
  BY TypeParts, PresenceAssumption DEF BoundsType, Times, Sent, Callbacks
<1>2. \A i \in Sent : callback[i].at \in Nat \ {0}
  BY <1>1 DEF SentInv, SentInOrder
<1> QED
  BY <1>1, <1>2 DEF SentInv, SentInOrder, Of, TimesOf

\* A join applied: the row shows it if it is new, and stays as it is if not.
LEMMA JoinShows ==
    ASSUME TypeInv, SentInv, NEW p, NEW k \in Callbacks, Applying(p, k), RowShowsNewest(p),
           callback[k].action = "joined", UNCHANGED callback,
           applied' = applied \cup {k},
           attendance'[p] = MergeJoin(p, callback[k].at, 0)
    PROVE  RowShowsNewest(p)'
<1> DEFINE t == callback[k].at
           old == attendance[p]
<1>1. TimesOf(p) /\ Of(p)' = Of(p)
  BY CallbacksAreTimed DEF Of, Sent
<1> USE DEF TimesOf
<1>2. AppliedOf(p)' = AppliedOf(p) \cup {k}
  BY <1>1 DEF AppliedOf, Applying
<1>3. AppliedOf(p) \subseteq Of(p) /\ k \in Of(p) /\ p \in Participants /\ p \notin Registered
  BY DEF AppliedOf, Applying
<1>4. old.joined \in Nat /\ old.left \in Nat /\ old.exists \in BOOLEAN
  BY <1>3, TypeParts, PresenceAssumption DEF RoomType, AttendanceRow, Times
<1>5. Alternates(p)
  BY <1>3 DEF SentInv
<1>6. CASE k \notin applied
  <2>1. \A j \in AppliedOf(p) : j < k
    BY <1>6 DEF Applying
  <2>2. old.left # 0 => t > old.left
    <3>1. CASE Unseen(p)
      BY <3>1 DEF Unseen
    <3>2. CASE \E m \in Callbacks : Shows(p, m)
      BY <1>1, <1>3, <2>1, <3>2 DEF Shows
    <3> QED
      BY <3>1, <3>2 DEF RowShowsNewest
  <2>3. old.left = 0 => ~old.exists
    <3> SUFFICES ASSUME old.left = 0, old.exists PROVE FALSE
      OBVIOUS
    <3>1. PICK m \in Callbacks : Shows(p, m)
      BY DEF RowShowsNewest, Unseen
    <3>2. /\ callback[m].action = "joined" /\ m \in AppliedOf(p)
          /\ \A i \in AppliedOf(p) : i <= m
      BY <1>1, <1>3, <3>1 DEF Shows
    <3>3. PICK i \in Of(p) : m < i /\ i < k
      BY <1>3, <1>5, <2>1, <3>2 DEF Alternates
    <3>4. i \in AppliedOf(p)
      BY <3>3 DEF Applying, AppliedOf
    <3> QED
      BY <1>1, <1>3, <3>2, <3>3, <3>4
  <2>4. attendance'[p] = [exists |-> TRUE, joined |-> t, left |-> 0, fresh |-> TRUE]
    BY <1>4, <2>2, <2>3 DEF MergeJoin
  <2>5. attendance'[p].exists /\ attendance'[p].joined = t /\ attendance'[p].left = 0
    BY <2>4
  <2>6. \A i \in AppliedOf(p)' : i <= k
    BY <1>1, <1>2, <1>3, <2>1
  <2>7. Shows(p, k)'
    BY <1>2, <2>5, <2>6 DEF Shows
  <2> QED
    BY <2>7 DEF RowShowsNewest
<1>7. CASE k \in applied
  <2>1. AppliedOf(p)' = AppliedOf(p) /\ k \in AppliedOf(p)
    BY <1>2, <1>3, <1>7 DEF AppliedOf
  <2>2. PICK m \in Callbacks : Shows(p, m)
    BY <2>1 DEF RowShowsNewest, Unseen
  <2>3. m \in Of(p) /\ k <= m
    BY <1>3, <2>1, <2>2 DEF Shows
  <2>4. t <= callback[m].at
    BY <1>1, <1>3, <2>3
  <2>5. CASE callback[m].action = "joined"
    <3>1. old.exists /\ old.joined = callback[m].at /\ old.left = 0 /\ old.joined # 0
      BY <1>1, <2>2, <2>3, <2>5 DEF Shows
    <3>2. attendance'[p] = [exists |-> TRUE, joined |-> old.joined, left |-> 0, fresh |-> TRUE]
      BY <1>3, <3>1 DEF MergeJoin
    <3>3. SameWindow(p)
      BY <1>4, <3>1, <3>2 DEF SameWindow
    <3> QED
      BY <2>1, <3>3, WindowKept
  <2>6. CASE callback[m].action # "joined"
    <3>1. /\ old.exists /\ old.left # 0 /\ old.joined # 0 /\ old.joined < old.left
          /\ t <= old.joined
      BY <1>1, <2>1, <2>2, <2>3, <2>6 DEF Shows
    <3>2. attendance'[p] = [exists |-> TRUE, joined |-> old.joined, left |-> old.left,
                            fresh |-> TRUE]
      <4>1. ~(t > old.left) /\ ~(t > old.joined)
        BY <1>1, <1>3, <1>4, <3>1
      <4> QED
        BY <3>1, <4>1 DEF MergeJoin
    <3>3. SameWindow(p)
      BY <1>4, <3>1, <3>2 DEF SameWindow
    <3> QED
      BY <2>1, <3>3, WindowKept
  <2> QED
    BY <2>5, <2>6
<1> QED
  BY <1>6, <1>7

\* A leave applied: the row shows it if it is new, and stays as it is if not.
LEMMA LeaveShows ==
    ASSUME TypeInv, SentInv, NEW p, NEW k \in Callbacks, Applying(p, k), RowShowsNewest(p),
           callback[k].action = "left", UNCHANGED callback,
           applied' = applied \cup {k},
           attendance'[p] = MergeLeave(attendance[p], callback[k].at)
    PROVE  RowShowsNewest(p)'
<1> DEFINE t == callback[k].at
           old == attendance[p]
<1>1. TimesOf(p) /\ Of(p)' = Of(p)
  BY CallbacksAreTimed DEF Of, Sent
<1> USE DEF TimesOf
<1>2. AppliedOf(p)' = AppliedOf(p) \cup {k}
  BY <1>1 DEF AppliedOf, Applying
<1>3. AppliedOf(p) \subseteq Of(p) /\ k \in Of(p) /\ p \in Participants
  BY DEF AppliedOf, Applying
<1>4. old \in AttendanceRow /\ old.joined \in Nat /\ old.left \in Nat
  BY <1>3, TypeParts, PresenceAssumption DEF RoomType, AttendanceRow, Times
<1>5. Alternates(p)
  BY <1>3 DEF SentInv
<1>6. PICK m \in Callbacks : Shows(p, m)
  <2>1. PICK j \in Of(p) : j < k
    BY <1>3, <1>5 DEF Alternates
  <2>2. j \in AppliedOf(p)
    BY <2>1 DEF Applying, AppliedOf
  <2> QED
    BY <2>2 DEF RowShowsNewest, Unseen
<1>7. m \in AppliedOf(p) /\ m \in Of(p) /\ \A i \in AppliedOf(p) : i <= m
  BY <1>3, <1>6 DEF Shows
<1>8. CASE k \notin applied
  <2>1. m < k
    BY <1>7, <1>8 DEF Applying
  <2>2. callback[m].action = "joined"
    <3> SUFFICES ASSUME callback[m].action # "joined" PROVE FALSE
      OBVIOUS
    <3>1. callback[m].action = "left"
      BY <1>5, <1>7 DEF Alternates
    <3>2. PICK i \in Of(p) : m < i /\ i < k
      BY <1>3, <1>5, <1>7, <2>1, <3>1 DEF Alternates
    <3>3. i \in AppliedOf(p)
      BY <3>2 DEF Applying, AppliedOf
    <3> QED
      BY <1>1, <1>7, <3>2, <3>3
  <2>3. old.exists /\ old.joined = callback[m].at /\ old.left = 0 /\ old.joined < t
    BY <1>1, <1>3, <1>6, <1>7, <2>1, <2>2 DEF Shows
  <2>4. attendance'[p] = [old EXCEPT !.exists = TRUE, !.left = t, !.fresh = TRUE]
    BY <1>1, <1>3, <1>4, <2>3 DEF MergeLeave
  <2>5. attendance'[p].exists /\ attendance'[p].joined = callback[m].at /\ attendance'[p].left = t
    BY <1>4, <2>3, <2>4 DEF AttendanceRow
  <2>6. \A i \in AppliedOf(p)' : i <= k
    BY <1>1, <1>2, <1>3, <1>7, <2>1
  <2>7. \A i \in AppliedOf(p)' \ {k} :
           /\ callback[i].at <= callback[m].at
           /\ callback[i].action = "left" => callback[i].at < callback[m].at
    BY <1>1, <1>2, <1>3, <1>7, <2>2
  <2>8. callback[m].at # 0 /\ callback[m].at < t
    BY <1>1, <1>3, <1>7, <2>1
  <2> HIDE DEF AppliedOf
  <2>9. Shows(p, k)'
    BY <1>2, <2>5, <2>6, <2>7, <2>8 DEF Shows
  <2> QED
    BY <2>9 DEF RowShowsNewest
<1>9. CASE k \in applied
  <2>1. AppliedOf(p)' = AppliedOf(p) /\ k \in AppliedOf(p) /\ k <= m
    BY <1>2, <1>3, <1>7, <1>9 DEF AppliedOf
  <2>2. \/ old.exists /\ old.left # 0 /\ t >= old.left
        \/ old.exists /\ old.joined # 0 /\ t < old.joined
    <3>1. CASE k = m
      BY <1>1, <1>4, <1>6, <1>7, <3>1 DEF Shows
    <3>2. CASE k # m
      BY <1>1, <1>3, <1>4, <1>6, <1>7, <2>1, <3>2 DEF Shows
    <3> QED
      BY <3>1, <3>2
  <2>3. attendance'[p] = old
    BY <2>2 DEF MergeLeave
  <2> QED
    BY <2>1, <2>3, WindowKept DEF SameWindow
<1> QED
  BY <1>8, <1>9

\* When callbacks first arrive in order, a handler applies either the newest
\* callback about its participant or one that was applied before.
LEMMA HandlerApplies ==
    ASSUME TypeInv, SentInv, OrderInv, ~Ended, NEW h \in Handlers, handler[h].pc = "resolved",
           NEW p \in Participants \ Registered, callback[handler[h].id].who = p
    PROVE  /\ handler[h].id \in Callbacks /\ handler[h].endedAt = 0
           /\ Applying(p, handler[h].id)
<1> DEFINE k == handler[h].id
<1>1. k \in Callbacks /\ applied \subseteq Callbacks
  BY TypeParts DEF InboxType, BusyHasCallback
<1>2. handler[h].endedAt = 0 /\ inbox[k].status # "none"
  BY DEF OrderInv
<1>3. k \in Sent /\ \A j \in Sent : j < k => j \in applied
  BY <1>1, <1>2 DEF OrderInv, ArrivedInOrder
<1>4. Callbacks \subseteq Nat
  BY PresenceAssumption DEF Callbacks
<1>5. ASSUME k \notin applied, NEW j \in AppliedOf(p) PROVE j < k
  <2>1. j \in Callbacks /\ inbox[j].status # "none" /\ j # k
    BY <1>1, <1>5 DEF AppliedOf, OrderInv
  <2>2. ~(k < j)
    BY <1>3, <1>5, <2>1 DEF OrderInv, ArrivedInOrder
  <2>3. j \in Nat /\ k \in Nat
    BY <1>1, <1>4, <2>1
  <2> HIDE DEF k
  <2> QED
    BY <2>1, <2>2, <2>3
<1> QED
  BY <1>1, <1>2, <1>3, <1>5 DEF Applying, Of

\* RowInv is inductive: no callback, repeated or recovered however late, moves
\* the window of a participant away from the newest one.
LEMMA RowStep ==
    TypeInv /\ TypeInv' /\ SentInv /\ OrderInv /\ RowInv /\ [Next]_vars => RowInv'
<1> SUFFICES ASSUME TypeInv, TypeInv', SentInv, OrderInv, RowInv, [Next]_vars, ~Ended',
                    NEW p \in (Participants \ Registered) \ swept'
             PROVE  RowShowsNewest(p)'
  BY DEF RowInv
<1>1. InboxType /\ RoomType /\ SweepType
  BY TypeParts
<1>2. ~Ended
  BY EndIsKnown DEF OrderInv
<1>3. swept \subseteq swept'
  BY DEF Next, vars, sweepVars, Enter, Leave, RoomEnds, Occur, Process, RecoverPending,
         ResolveMeeting, ApplyJoin, ApplyLeave, ApplyEnd, MarkProcessed, MarkFailed, Crash,
         LockEnds, JoinMeeting, ConfirmJoin, ConfirmLeave, Heartbeat, EndMeeting, GoStale,
         ReadStale, CloseStale, EndAbandoned, ExpireStaleMeetings
<1>4. RowShowsNewest(p)
  BY <1>2, <1>3 DEF RowInv
<1>5. ASSUME UNCHANGED <<callback, applied>>, SameWindow(p)
      PROVE  RowShowsNewest(p)'
  BY <1>4, <1>5, WindowKept DEF AppliedOf, Of, Sent
<1>6. CASE UNCHANGED <<callback, applied, attendance>>
  BY <1>5, <1>6 DEF SameWindow
<1>7. ASSUME NEW t, EndMeetingAt(t) PROVE FALSE
  BY <1>1, <1>2, <1>7 DEF EndMeetingAt, Ended, RoomType, MeetingRow
<1>8. ASSUME NEW action \in {"joined", "left", "ended"},
             NEW who \in Participants \cup {"none"}, Occur(action, who)
      PROVE  RowShowsNewest(p)'
  <2>1. PICK k \in Callbacks :
           /\ Sent' = Sent \cup {k}
           /\ \A j \in Sent : j < k
           /\ \A j \in Sent : callback'[j] = callback[j]
    BY <1>8, OccurIsNext DEF SentInv
  <2>2. UNCHANGED <<applied, attendance>>
    BY <1>8 DEF Occur, roomVars
  <2>3. applied \subseteq Sent
    BY <1>1 DEF OrderInv, ArrivedInOrder, InboxType
  <2>4. AppliedOf(p)' = AppliedOf(p) /\ \A i \in AppliedOf(p) : callback'[i] = callback[i]
    BY <2>1, <2>2, <2>3 DEF AppliedOf, Of
  <2> QED
    BY <1>4, <2>2, <2>4, WindowKept DEF SameWindow
<1>9. CASE \/ \E q \in Participants : Enter(q) \/ Leave(q)
           \/ RoomEnds
  BY <1>8, <1>9 DEF Enter, Leave, RoomEnds
<1>10. CASE \E h \in Handlers : ApplyJoin(h) \/ ApplyLeave(h)
  <2>1. PICK h \in Handlers : ApplyJoin(h) \/ ApplyLeave(h)
    BY <1>10
  <2> DEFINE k == handler[h].id
             e == callback[k]
  <2>2. /\ handler[h].pc = "resolved" /\ applied' = applied \cup {k} /\ UNCHANGED callback
    BY <2>1 DEF ApplyJoin, ApplyLeave
  <2>3. handler[h].endedAt = 0 /\ k \in Callbacks
    BY <1>1, <1>2, <2>2 DEF OrderInv, InboxType, BusyHasCallback
  <2>4. CASE e.who # p
    <3>1. attendance'[p] = attendance[p]
      BY <1>1, <2>1, <2>4 DEF ApplyJoin, ApplyLeave, RoomType, roomVars
    <3>2. AppliedOf(p)' = AppliedOf(p)
      BY <2>2, <2>4 DEF AppliedOf, Of, Sent
    <3> QED
      BY <1>4, <2>2, <3>1, <3>2, WindowKept DEF SameWindow
  <2>5. CASE e.who = p
    <3>1. Applying(p, k)
      BY <1>2, <2>2, <2>5, HandlerApplies
    <3>2. CASE ApplyJoin(h)
      <4>1. /\ attendance' = [attendance EXCEPT ![p] = MergeJoin(p, e.at, 0)]
            /\ e.action = "joined"
        BY <2>3, <2>5, <3>2 DEF ApplyJoin
      <4>2. attendance'[p] = MergeJoin(p, e.at, 0)
        BY <1>1, <4>1 DEF RoomType
      <4> QED
        BY <1>4, <2>2, <2>3, <3>1, <4>1, <4>2, JoinShows
    <3>3. CASE ApplyLeave(h)
      <4>1. /\ attendance' = [attendance EXCEPT ![p] = MergeLeave(attendance[p], e.at)]
            /\ e.action = "left"
        BY <1>1, <2>3, <2>5, <3>3 DEF ApplyLeave, RoomType
      <4>2. attendance'[p] = MergeLeave(attendance[p], e.at)
        BY <1>1, <4>1 DEF RoomType
      <4> QED
        BY <1>4, <2>2, <2>3, <3>1, <4>1, <4>2, LeaveShows
    <3> QED
      BY <2>1, <3>2, <3>3
  <2> QED
    BY <2>4, <2>5
<1>11. CASE (\E h \in Handlers : ApplyEnd(h)) \/ EndMeeting \/ ExpireStaleMeetings
  BY <1>7, <1>11 DEF ApplyEnd, EndMeeting, ExpireStaleMeetings
<1>12. CASE EndAbandoned
  BY <1>6, <1>7, <1>12 DEF EndAbandoned, roomVars, inboxVars
<1>13. CASE \E q \in Registered : JoinMeeting(q) \/ ConfirmJoin(q) \/ ConfirmLeave(q) \/ Heartbeat(q)
  <2>1. PICK q \in Registered :
              JoinMeeting(q) \/ ConfirmJoin(q) \/ ConfirmLeave(q) \/ Heartbeat(q)
    BY <1>13
  <2>2. \E r : attendance' = [attendance EXCEPT ![q] = r]
    BY <2>1 DEF JoinMeeting, ConfirmJoin, ConfirmLeave, Heartbeat
  <2>3. attendance'[p] = attendance[p]
    BY <1>1, <2>2 DEF RoomType
  <2>4. UNCHANGED <<callback, applied>>
    BY <2>1 DEF JoinMeeting, ConfirmJoin, ConfirmLeave, Heartbeat, inboxVars
  <2> QED
    BY <1>5, <2>3, <2>4 DEF SameWindow
<1>14. CASE \E q \in Participants : GoStale(q)
  <2>1. PICK q \in Participants : GoStale(q)
    BY <1>14
  <2>2. attendance[p] \in AttendanceRow
    BY <1>1 DEF RoomType
  <2>3. SameWindow(p)
    BY <1>1, <2>1, <2>2 DEF GoStale, SameWindow, RoomType, AttendanceRow
  <2> QED
    BY <1>5, <2>1, <2>3 DEF GoStale, inboxVars
<1>15. CASE CloseStale
  <2>1. attendance'[p] = attendance[p]
    BY <1>15 DEF CloseStale
  <2> QED
    BY <1>5, <1>15, <2>1 DEF CloseStale, SameWindow, inboxVars
<1>16. CASE \/ \E h \in Handlers, i \in Callbacks : Process(h, i) \/ RecoverPending(h, i)
            \/ \E h \in Handlers :
                  ResolveMeeting(h) \/ MarkProcessed(h) \/ MarkFailed(h) \/ Crash(h)
            \/ \E i \in Callbacks : LockEnds(i)
            \/ ReadStale
            \/ UNCHANGED vars
  <2>1. UNCHANGED <<callback, applied, attendance>>
    BY <1>16 DEF Process, RecoverPending, ResolveMeeting, MarkProcessed, MarkFailed, Crash,
                 LockEnds, ReadStale, vars, roomVars, inboxVars
  <2> QED
    BY <1>6, <2>1
<1> QED
  BY <1>9, <1>10, <1>11, <1>12, <1>13, <1>14, <1>15, <1>16 DEF Next

\* The three invariants at the start.
LEMMA RoomInit == Init => SentInv /\ OrderInv /\ RowInv
<1> SUFFICES ASSUME Init PROVE SentInv /\ OrderInv /\ RowInv
  OBVIOUS
<1>1. Sent = {} /\ \A p : Of(p) = {}
  BY DEF Init, Sent, NoCallback, Of
<1>2. SentInOrder
  BY <1>1, PresenceAssumption DEF SentInOrder
<1>3. SentInv
  BY <1>1, <1>2 DEF SentInv, Alternates, HasLast
<1>4. OrderInv
  BY DEF Init, OrderInv, ArrivedInOrder, Idle
<1>5. RowInv
  BY <1>1 DEF Init, RowInv, RowShowsNewest, Unseen, AppliedOf
<1> QED
  BY <1>3, <1>4, <1>5

\* The attendance follows the room, for any number of handlers, callbacks and
\* participants, when callbacks first arrive in order: once all callbacks about
\* a participant without an account are applied, however often and however late
\* RecoverPending applied some of them again, the row says he is online exactly
\* if he is in the room, unless a sweep or the end of the meeting closed it.
THEOREM AttendanceFollowsRoom == ASSUME ~Reorder PROVE Spec => []PresenceFollowsRoom
<1>1. TypeInv /\ SentInv /\ RowInv => PresenceFollowsRoom
  <2> SUFFICES ASSUME TypeInv, SentInv, RowInv, ~Ended,
                      NEW p \in (Participants \ Registered) \ swept,
                      \A i \in Sent : callback[i].who = p => i \in applied
               PROVE  Online(p) <=> InRoom(p)
    BY DEF PresenceFollowsRoom
  <2>1. InboxType /\ BoundsType
    BY TypeParts
  <2>2. AppliedOf(p) = Of(p)
    BY DEF AppliedOf, Of
  <2>3. CASE Unseen(p)
    BY <2>1, <2>2, <2>3, InRoomIsLast DEF Unseen, Online
  <2>4. CASE \E m \in Callbacks : Shows(p, m)
    <3>1. PICK m \in Callbacks : Shows(p, m)
      BY <2>4
    <3>2. m \in Of(p) /\ \A i \in Of(p) : i <= m
      BY <2>2, <3>1 DEF Shows
    <3>3. callback[m].at # 0
      BY <2>1, <3>2, PresenceAssumption DEF SentInv, SentInOrder, Of, BoundsType, Times
    <3>4. Online(p) <=> callback[m].action = "joined"
      BY <3>1, <3>3 DEF Shows, Online
    <3> QED
      BY <2>1, <3>2, <3>4, InRoomIsLast
  <2> QED
    BY <2>3, <2>4 DEF RowInv, RowShowsNewest
<1> QED
  BY <1>1, RoomInit, SentStep, OrderStep, RowStep, TypeInvariant, PTL DEF Spec

============================================================================
