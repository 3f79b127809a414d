----------------------------- MODULE GroupWait -----------------------------
(***************************************************************************)
(* One request that waits for programs to stop: GroupWait, for any member  *)
(* of a group (internal/session/group.go), or Wait, for one session after  *)
(* an execution request (internal/session/session.go).                     *)
(*                                                                         *)
(* The request reads one member at a time, under that member's lock, and   *)
(* takes with it the channel the member's next change closes; members stop *)
(* resume and end between any two reads, and other clients resume them.    *)
(***************************************************************************)
EXTENDS Naturals, FiniteSets

CONSTANTS
    Group,      \* the group's sessions, as numbers: oldest first, by id
    NoMember,
    WaitKinds,  \* which requests: "group", "session"
    MaxChanges  \* bound: stops, resumes and ends of all members

ASSUME GroupWaitAssumption ==
    /\ Group \subseteq Nat /\ NoMember \notin Group
    /\ WaitKinds \subseteq {"group", "session"} /\ MaxChanges \in Nat

VARIABLES
    \* the members
    state, stops, stoppedAt,
    changes,   \* how many there were: the time
    \* the request
    phase,        \* "idle", "mark", "pass", "wait", "report" or "done"
    kind,
    members,   \* those it is about: the group, or one session
    newOnly,   \* GroupWaitParams.New
    marks,     \* the members as it found them first
    seen,      \* the members as this pass over them saw them
    closed,    \* members whose channel closed since it was taken
    expired,   \* its deadline has passed
    answer,    \* its result
    \* what really happened meanwhile
    since,     \* the time when this pass began
    news       \* members that stopped or ended since their mark, in time

memberVars  == <<state, stops, stoppedAt, changes>>
waiterVars  == <<phase, kind, members, newOnly, marks, seen, closed, expired, answer>>
waitVars == <<memberVars, waiterVars, since, news>>

Unread == [state |-> "unread", stops |-> 0, stoppedAt |-> 0]
NoneRead == [m \in Group |-> Unread]
NoAnswer == [member |-> NoMember, how |-> "none", stoppedAt |-> 0, ended |-> FALSE]

\* memberState: one member's state.
MemberState(m) == [state |-> state[m], stops |-> stops[m], stoppedAt |-> stoppedAt[m]]

Live(m) == marks[m].state # "exited"

----------------------------------------------------------------------------
(***************************************************************************)
(* The members.                                                            *)
(***************************************************************************)

\* bump: the channel taken with the newest read is closed.
Bump(m) ==
    closed' = IF seen[m] # Unread THEN closed \cup {m} ELSE closed

Change(m) ==
    /\ changes < MaxChanges /\ changes' = changes + 1
    /\ state[m] # "exited"
    /\ Bump(m)
    /\ UNCHANGED <<phase, kind, members, newOnly, marks, seen, expired, answer, since>>

\* The request should learn of it, unless its deadline passed before.
Told(m) ==
    news' = IF m \in members /\ marks[m] # Unread /\ Live(m) /\ ~expired /\ phase # "done"
            THEN news \cup {m} ELSE news

\* applyStopLocked, also of another thread's stop while stopped.
MemberStops(m) ==
    /\ Change(m) /\ Told(m)
    /\ state' = [state EXCEPT ![m] = "stopped"]
    /\ stops' = [stops EXCEPT ![m] = @ + 1]
    /\ stoppedAt' = [stoppedAt EXCEPT ![m] = changes']

Resumes(m) ==
    /\ Change(m)
    /\ state[m] = "stopped"
    /\ state' = [state EXCEPT ![m] = "running"]
    /\ UNCHANGED <<stops, stoppedAt, news>>

Ends(m) ==
    /\ Change(m) /\ Told(m)
    /\ state' = [state EXCEPT ![m] = "exited"]
    /\ UNCHANGED <<stops, stoppedAt>>

----------------------------------------------------------------------------
(***************************************************************************)
(* The request.                                                            *)
(***************************************************************************)

\* The next member in order that f has not read.
NextIn(f, m) == m \in members /\ f[m] = Unread /\ \A k \in members : k < m => f[k] # Unread
AllRead(f) == \A m \in members : f[m] # Unread

\* stoppedFirst, with MinFunc: the one of S that stopped first, by its read.
StoppedFirst(S, reads) ==
    CHOOSE m \in S : \A k \in S \ {m} :
        \/ reads[m].stoppedAt < reads[k].stoppedAt
        \/ reads[m].stoppedAt = reads[k].stoppedAt /\ m < k

\* A pass over the members begins.
NewPass == phase' = "pass" /\ seen' = NoneRead /\ closed' = {} /\ since' = changes

\* GroupWait.
GroupBegin(new) ==
    /\ phase = "idle" /\ "group" \in WaitKinds
    /\ phase' = "mark" /\ kind' = "group" /\ newOnly' = new
    /\ members' = Group
    /\ UNCHANGED <<memberVars, marks, seen, closed, expired, answer, since, news>>

\* Exec accepted an execution request when the program had stopped so often;
\* Wait goes by that count.
ExecBegin(m) ==
    /\ phase = "idle" /\ "session" \in WaitKinds /\ state[m] # "exited"
    /\ kind' = "session" /\ newOnly' = TRUE
    /\ members' = {m}
    /\ marks' = [marks EXCEPT ![m] = MemberState(m)]
    /\ NewPass
    /\ UNCHANGED <<memberVars, expired, answer, news>>

\* groupWait: the marks are one read per member.
Mark(m) ==
    /\ phase = "mark" /\ NextIn(marks, m)
    /\ marks' = [marks EXCEPT ![m] = MemberState(m)]
    /\ UNCHANGED <<memberVars, phase, kind, members, newOnly, seen, closed, expired, answer, since, news>>

Answers(m, how, when) ==
    /\ phase' = "report"
    /\ answer' = [NoAnswer EXCEPT !.member = m, !.how = how, !.stoppedAt = when]

\* groupWaitFrom: all have ended, or one is stopped already, or it waits.
Marked ==
    /\ phase = "mark" /\ AllRead(marks)
    /\ LET stopped == {m \in members : marks[m].state = "stopped"}
           first   == StoppedFirst(stopped, marks)
       IN  CASE ~\E m \in members : Live(m) ->
                    /\ phase' = "done"
                    /\ answer' = [NoAnswer EXCEPT !.how = "ended", !.ended = TRUE]
                    /\ UNCHANGED <<seen, closed, since>>
             [] (\E m \in members : Live(m)) /\ ~newOnly /\ stopped # {} ->
                    Answers(first, "stopped", marks[first].stoppedAt)
                    /\ UNCHANGED <<seen, closed, since>>
             [] OTHER -> NewPass /\ UNCHANGED answer
    /\ UNCHANGED <<memberVars, kind, members, newOnly, marks, expired, news>>

\* statesOf; of waitUntil, its look at the one session.
Pass(m) ==
    /\ phase = "pass" /\ NextIn(seen, m)
    /\ seen' = [seen EXCEPT ![m] = MemberState(m)]
    /\ closed' = closed \ {m}
    /\ UNCHANGED <<memberVars, phase, kind, members, newOnly, marks, expired, answer, since, news>>

\* Mutant: it waits for a change of state, and forgets how often it stopped.
StoppedNow == {m \in members : Live(m) /\ seen[m].state = "stopped" /\ marks[m].state # "stopped"}

\* answered: of those that stopped since, the first; else one that ended.
Stopped == {m \in members : Live(m) /\ seen[m].stops > marks[m].stops}
EndedMembers == {m \in members : Live(m) /\ seen[m].state = "exited"}

\* The pass is over: an answer, a timeout, or it waits.
Decide ==
    /\ phase = "pass" /\ AllRead(seen)
    /\ IF Stopped # {}
       THEN LET m == StoppedFirst(Stopped, seen) IN Answers(m, "stopped", seen[m].stoppedAt)
       ELSE IF EndedMembers # {}
       THEN Answers(CHOOSE m \in EndedMembers : \A k \in EndedMembers : m <= k, "ended", 0)
       ELSE IF expired
       THEN phase' = "done" /\ answer' = [NoAnswer EXCEPT !.how = "timeout"]
       ELSE phase' = "wait" /\ UNCHANGED answer
    /\ UNCHANGED <<memberVars, kind, members, newOnly, marks, seen, closed, expired, since, news>>

\* Mutant: only one member's channel is looked at.
WaitAnyClosedFirst ==
    /\ phase = "wait" /\ \E m \in closed : \A k \in members : m <= k
    /\ NewPass
    /\ UNCHANGED <<memberVars, kind, members, newOnly, marks, expired, answer, news>>

\* anyClosed: the channel of a member that had not ended before the call.
WaitAnyClosed ==
    /\ phase = "wait" /\ \E m \in closed : Live(m)
    /\ NewPass
    /\ UNCHANGED <<memberVars, kind, members, newOnly, marks, expired, answer, news>>

\* The deadline.  A group's members are looked at once more; waitUntil
\* returns at once, also when the session changed just now.
WaitDeadline ==
    /\ phase = "wait"
    /\ expired' = TRUE
    /\ IF kind = "group"
       THEN NewPass /\ UNCHANGED answer
       ELSE /\ phase' = "done" /\ answer' = [NoAnswer EXCEPT !.how = "timeout"]
            /\ UNCHANGED <<seen, closed, since>>
    /\ UNCHANGED <<memberVars, kind, members, newOnly, marks, news>>

\* groupReport, after its output settled: do all members have ended now?
Report ==
    /\ phase = "report" /\ phase' = "done"
    /\ answer' = [answer EXCEPT !.ended = \A m \in members : state[m] = "exited"]
    /\ UNCHANGED <<memberVars, kind, members, newOnly, marks, seen, closed, expired, since, news>>

----------------------------------------------------------------------------
\* Members are found running, stopped or ended.
WaitInit ==
    /\ state \in [Group -> {"running", "stopped", "exited"}]
    /\ stops = [m \in Group |-> IF state[m] = "stopped" THEN 1 ELSE 0]
    /\ stoppedAt = [m \in Group |-> 0] /\ changes = 0
    /\ phase = "idle" /\ kind = "group" /\ members = {} /\ newOnly = FALSE
    /\ marks = NoneRead /\ seen = NoneRead /\ closed = {} /\ expired = FALSE /\ answer = NoAnswer
    /\ since = 0 /\ news = {}

\* The request's goroutine.
Waiter == (\E m \in Group : Mark(m) \/ Pass(m)) \/ Marked \/ Decide \/ WaitAnyClosed \/ Report

WaitNext ==
    \/ \E m \in Group : MemberStops(m) \/ Resumes(m) \/ Ends(m) \/ ExecBegin(m)
    \/ \E new \in BOOLEAN : GroupBegin(new)
    \/ Waiter \/ WaitDeadline

WaitSpec == WaitInit /\ [][WaitNext]_waitVars /\ WF_waitVars(Waiter)

----------------------------------------------------------------------------
(***************************************************************************)
(* Properties.                                                             *)
(***************************************************************************)

\* "A change racing the deadline still counts" (groupWaitFrom): a group wait
\* that says it timed out overlooked no stop and no end before its deadline,
\* also none that is over again.
TimeoutHonest == phase = "done" /\ kind = "group" /\ answer.how = "timeout" => news = {}

\* The member that answers did stop or end since it was found, or was found
\* stopped; no member that stopped before the members were last looked at, and
\* not again, stopped earlier ("the one that stopped first", answered; "the one
\* stopped longest", GroupWait).
FirstAnswers ==
    answer.member # NoMember =>
        LET m    == answer.member
            was  == marks[m].state = "stopped" /\ marks[m].stoppedAt = answer.stoppedAt
        IN  /\ m \in news \/ (was /\ ~newOnly) \/ expired
            /\ seen # NoneRead => \A k \in members :
                  Live(k) /\ stops[k] > marks[k].stops /\ stoppedAt[k] <= since
                      => answer.how = "stopped" /\ answer.stoppedAt <= stoppedAt[k]

\* A wait that says all have ended is right, for good.
EndedIsTrue == answer.ended => \A m \in members : state[m] = "exited"

WaitHonest == TimeoutHonest /\ FirstAnswers /\ EndedIsTrue

\* "TimedOut is set if neither happened" (Wait).  waitUntil's select may take
\* the deadline although the session has changed.
WaitExact == phase = "done" /\ answer.how = "timeout" => news = {}

\* A waiting request does not sleep over a stop or an end: the channels are
\* read with the states (memberState, waitUntil).
WaitWakes == (phase = "wait" /\ news # {}) ~> phase # "wait"
=============================================================================
