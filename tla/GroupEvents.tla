---------------------------- MODULE GroupEvents ----------------------------
(***************************************************************************)
(* The event logs of a group's sessions and one client that reads them     *)
(* page by page with GroupEvents (internal/session/events.go, group.go).   *)
(*                                                                         *)
(* A log is a bounded ring: an append drops the oldest events beyond its   *)
(* bounds and wakes the readers that wait for it.  A group query locks one *)
(* member's log at a time, so appends run between the members' queries;    *)
(* the cursor it returns is all a client keeps between two requests.       *)
(***************************************************************************)
EXTENDS Naturals, Sequences, FiniteSets, Functions, FiniteSetsExt, SequencesExt

CONSTANTS
    Members,    \* the group's sessions, as numbers: the order of their ids
    EventKinds,
    Size(_),    \* eventSize of an event of that kind
    MaxCount,   \* maxEvents
    MaxBytes,   \* maxEventBytes
    Filters,    \* bound: the kinds a client asks for, one set per client
    Limits,     \* bound: the limits it asks for
    Ticks,      \* bound: how much time may pass between two events
    MaxEvents,  \* bound: events of all members
    MaxCalls    \* bound: requests of the client

ASSUME GroupEventsAssumption ==
    /\ Members \subseteq Nat /\ IsFiniteSet(Members) /\ Members # {}
    /\ \A k \in EventKinds : Size(k) \in Nat \ {0}
    /\ MaxCount \in Nat \ {0} /\ MaxBytes \in Nat \ {0}
    /\ Filters \subseteq SUBSET EventKinds
    /\ Limits \subseteq Nat \ {0} /\ Ticks \subseteq Nat
    /\ MaxEvents \in Nat /\ MaxCalls \in Nat

VARIABLES
    \* the members' logs
    log,      \* every event appended, as the recording sees them (sink)
    held,     \* how many of the newest are still held
    clock,    \* the time of the last append
    \* the request being answered
    pc,       \* "idle", "query" or "wait"
    newest,   \* EventsParams.Newest
    limit,    \* eventLimit(EventsParams.Limit)
    waits,    \* the request waits when nothing matches
    last,     \* its deadline has passed: this is the last round
    at,       \* where the round's queries start, per member
    parts,    \* what the members queried so far answered
    changed,  \* members whose channel closed since their query
    dropped,  \* GroupEventsResult.Dropped so far
    \* the client
    wanted,   \* the kinds it asks for
    cursor,   \* GroupEventsResult.Cursor, parsed
    calls,    \* requests answered
    got,      \* seqs it was given, per member
    told,     \* the sum of Dropped
    tailed    \* it asked for the newest at least once

logVars     == <<log, held, clock>>
requestVars == <<pc, newest, limit, waits, last, at, parts, changed, dropped>>
clientVars  == <<wanted, cursor, calls, got, told, tailed>>
vars        == <<logVars, requestVars, clientVars>>

\* A member not queried yet.
NoPart  == [events |-> <<>>, latest |-> 0, more |-> 0, dropped |-> 0, queried |-> FALSE]
NoParts == [m \in Members |-> NoPart]

----------------------------------------------------------------------------
(***************************************************************************)
(* eventLog.                                                               *)
(***************************************************************************)
Bytes(s) == FoldFunction(LAMBDA e, sum : Size(e.kind) + sum, 0, s)

\* The newest n events of s.
Newest(s, n) == SubSeq(s, Len(s) - n + 1, Len(s))

\* Mutant: an event beyond the bounds is dropped, even the newest one.
TrimAll(s, n) ==
    Max({0} \cup {k \in 1 .. n : k <= MaxCount /\ Bytes(Newest(s, k)) <= MaxBytes})

\* trimLocked: how many of the newest n events stay.
Trim(s, n) ==
    Max({1} \cup {k \in 1 .. n : k <= MaxCount /\ Bytes(Newest(s, k)) <= MaxBytes})

\* Mutant: only a reader that waits already is woken.
WakeWaiting(m) == IF pc = "wait" THEN changed \cup {m} ELSE changed

\* append's close of the channel, which a reader has since its query.
Wake(m) == IF parts[m].queried THEN changed \cup {m} ELSE changed

\* append: two events may have the same time.
LogAppend(m, kind, tick) ==
    /\ MapThenSumSet(LAMBDA k : Len(log[k]), Members) < MaxEvents
    /\ clock' = clock + tick
    /\ log' = [log EXCEPT ![m] = Append(@, [seq |-> Len(@) + 1, kind |-> kind, time |-> clock'])]
    /\ held' = [held EXCEPT ![m] = Trim(log'[m], @ + 1)]
    /\ changed' = Wake(m)
    /\ UNCHANGED <<pc, newest, limit, waits, last, at, parts, dropped, clientVars>>

\* queryLocked.
QueryLocked(m, since) ==
    LET s       == log[m]
        first   == Len(s) - held[m] + 1
        after   == SubSeq(s, Max({since + 1, first}), Len(s))
        matches == SelectSeq(after, LAMBDA e : e.kind \in wanted)
        n       == Min({Len(matches), limit})
    IN  [events  |-> IF newest THEN Newest(matches, n) ELSE SubSeq(matches, 1, n),
         latest  |-> Len(s),
         more    |-> Len(matches) - n,
         dropped |-> IF since + 1 < first THEN first - since - 1 ELSE 0,
         queried |-> TRUE]

----------------------------------------------------------------------------
(***************************************************************************)
(* groupEventsOnce, groupEvents.                                           *)
(***************************************************************************)

\* mergeBefore.
MergeBefore(a, m, b, k) == a.time < b.time \/ (a.time = b.time /\ m < k)

\* mergeEvents: a k-way merge; heads says how many of each part were taken.
MergeEvents ==
    LET rest(heads) == {m \in Members : heads[m] < Len(parts[m].events)}
        head(heads, m) == parts[m].events[heads[m] + 1]
        best(heads) == CHOOSE m \in rest(heads) :
                          \A k \in rest(heads) \ {m} :
                              MergeBefore(head(heads, m), m, head(heads, k), k)
        merge[heads \in [Members -> Nat]] ==
            IF rest(heads) = {} THEN <<>>
            ELSE LET m == best(heads)
                 IN  <<[member |-> m, seq |-> head(heads, m).seq]>>
                     \o merge[[heads EXCEPT ![m] = @ + 1]]
    IN  merge[[m \in Members |-> 0]]

\* What the limit and the budget (ShapeGroupEvents) leave of the merged
\* events: the oldest, or the newest; at least one, if there is one.
Kept(merged, n) == IF newest THEN Newest(merged, n) ELSE SubSeq(merged, 1, n)

\* The seqs of member m in kept.
Returned(kept, m) == {kept[i].seq : i \in {i \in DOMAIN kept : kept[i].member = m}}

\* Mutant: a member all of whose queried events were returned is done.
NextCursorQueried(kept) ==
    [m \in Members |->
        LET seqs == Returned(kept, m)
        IN  CASE Cardinality(seqs) = Len(parts[m].events) -> Max({at[m], parts[m].latest})
              [] Cardinality(seqs) # Len(parts[m].events) /\ ~newest /\ seqs # {} -> Max({at[m]} \cup seqs)
              [] OTHER -> at[m]]

\* Mutant: a member with events left out stays where it was.
NextCursorStays(kept) ==
    [m \in Members |->
        IF parts[m].more = 0 /\ Cardinality(Returned(kept, m)) = Len(parts[m].events)
        THEN Max({at[m], parts[m].latest})
        ELSE at[m]]

\* nextCursor: past everything a member has if all its matching events were
\* returned, else past the last returned one; with newest it stays.
NextCursor(kept) ==
    [m \in Members |->
        LET seqs == Returned(kept, m)
            all  == parts[m].more = 0 /\ Cardinality(seqs) = Len(parts[m].events)
        IN  IF all THEN Max({at[m], parts[m].latest})
            ELSE IF ~newest /\ seqs # {} THEN Max({at[m]} \cup seqs)
            ELSE at[m]]


\* The request is answered, and nothing of it stays.
Return ==
    /\ pc' = "idle" /\ newest' = FALSE /\ limit' = 1 /\ waits' = FALSE /\ last' = FALSE
    /\ at' = [m \in Members |-> 0] /\ parts' = NoParts /\ changed' = {} /\ dropped' = 0

\* GroupEvents begins, at the cursor the client has.
Request(new, lim, wait) ==
    /\ pc = "idle"
    /\ calls < MaxCalls
    /\ pc' = "query"
    /\ newest' = new /\ limit' = lim /\ waits' = wait /\ last' = FALSE
    /\ at' = cursor
    /\ parts' = NoParts /\ changed' = {} /\ dropped' = 0
    /\ tailed' = (tailed \/ new)
    /\ UNCHANGED <<logVars, wanted, cursor, calls, got, told>>

\* One member's queryWatch: its answer, and the channel its next append closes.
QueryWatch(m) ==
    /\ pc = "query"
    /\ ~parts[m].queried /\ \A k \in Members : k < m => parts[k].queried
    /\ parts' = [parts EXCEPT ![m] = QueryLocked(m, at[m])]
    /\ UNCHANGED <<logVars, pc, newest, limit, waits, last, at, changed, dropped, clientVars>>

\* Mutant: only the last round's drops are reported.
RoundDroppedLast == FoldFunction(LAMBDA p, sum : p.dropped + sum, 0, parts)

\* The drops this round found are added to those of the rounds before.
RoundDropped == FoldFunction(LAMBDA p, sum : p.dropped + sum, dropped, parts)

\* The round is over: an answer, or nothing matched and it waits (of the parts
\* only the channels matter then).
Answer(n) ==
    /\ pc = "query"
    /\ \A m \in Members : parts[m].queried
    /\ LET merged == MergeEvents
           kept   == Kept(merged, n)
           next   == NextCursor(kept)
       IN  /\ n <= Min({Len(merged), limit}) /\ (n = 0 => merged = <<>>)
           /\ IF kept # <<>> \/ ~waits \/ last
              THEN /\ cursor' = next
                   /\ calls' = calls + 1
                   /\ got' = [m \in Members |-> got[m] \o SelectSeq([i \in DOMAIN kept |->
                                  IF kept[i].member = m THEN kept[i].seq ELSE 0], LAMBDA k : k # 0)]
                   /\ told' = told + RoundDropped
                   /\ Return
              ELSE /\ pc' = "wait"
                   /\ at' = next
                   /\ dropped' = RoundDropped
                   /\ parts' = [m \in Members |-> [NoPart EXCEPT !.queried = TRUE]]
                   /\ UNCHANGED <<newest, limit, waits, last, changed, cursor, calls, got, told>>
    /\ UNCHANGED <<logVars, wanted, tailed>>

\* anyClosed: some member's log has changed since its query.
AnyClosed ==
    /\ pc = "wait"
    /\ changed # {}
    /\ pc' = "query"
    /\ parts' = NoParts /\ changed' = {}
    /\ UNCHANGED <<logVars, newest, limit, waits, last, at, dropped, clientVars>>

\* The deadline: "an append racing the deadline still counts".
Deadline ==
    /\ pc = "wait"
    /\ pc' = "query" /\ last' = TRUE
    /\ parts' = NoParts /\ changed' = {}
    /\ UNCHANGED <<logVars, newest, limit, waits, at, dropped, clientVars>>

----------------------------------------------------------------------------
Init ==
    /\ log = [m \in Members |-> <<>>] /\ held = [m \in Members |-> 0] /\ clock = 0
    /\ pc = "idle" /\ newest = FALSE /\ limit = 1 /\ waits = FALSE /\ last = FALSE
    /\ at = [m \in Members |-> 0] /\ parts = NoParts /\ changed = {} /\ dropped = 0
    /\ wanted \in Filters
    /\ cursor = [m \in Members |-> 0] /\ calls = 0
    /\ got = [m \in Members |-> <<>>] /\ told = 0 /\ tailed = FALSE

Reader ==
    \/ \E m \in Members : QueryWatch(m)
    \/ \E n \in 0 .. Max(Limits) : Answer(n)
    \/ AnyClosed

Next ==
    \/ \E m \in Members, kind \in EventKinds, tick \in Ticks : LogAppend(m, kind, tick)
    \/ \E new \in BOOLEAN, lim \in Limits, wait \in BOOLEAN : Request(new, lim, wait)
    \/ Reader \/ Deadline

\* The goroutine of a request runs on; its deadline may be as far as one likes.
Spec == Init /\ [][Next]_vars /\ WF_vars(Reader)

----------------------------------------------------------------------------
(***************************************************************************)
(* Properties.                                                             *)
(***************************************************************************)

\* The variables' types; a log always holds its newest event (trimLocked),
\* and no more than its bounds allow.
TypeOK ==
    /\ \A m \in Members :
          /\ \A i \in DOMAIN log[m] : log[m][i] \in [seq : {i}, kind : EventKinds, time : 0 .. clock]
          /\ held[m] \in IF log[m] = <<>> THEN {0} ELSE 1 .. Min({Len(log[m]), MaxCount})
          /\ cursor[m] \in 0 .. Len(log[m]) /\ at[m] \in 0 .. Len(log[m])
    /\ clock \in Nat /\ dropped \in Nat /\ told \in Nat /\ calls \in 0 .. MaxCalls
    /\ pc \in {"idle", "query", "wait"} /\ limit \in Nat \ {0}
    /\ newest \in BOOLEAN /\ waits \in BOOLEAN /\ last \in BOOLEAN /\ tailed \in BOOLEAN
    /\ changed \subseteq Members /\ wanted \in Filters

\* The wanted events of m up to the cursor that the client was not given.
Missed(m) ==
    {e.seq : e \in {e \in Range(log[m]) : e.kind \in wanted /\ e.seq <= cursor[m]}} \ Range(got[m])

Held(m) == Len(log[m]) - held[m] + 1 .. Len(log[m])

\* The cursor "never skips a matching event this result left out" (api/group.go):
\* what a client that follows it was not given, the log had dropped before it
\* came, whatever was appended between the queries of two members, and however
\* limit and budget cut the merged events.  And without newest, which "may
\* repeat some", it is given each member's events once and in order.
NothingSkipped ==
    \A m \in Members :
        /\ Missed(m) \cap Held(m) = {}
        /\ ~tailed => \A i \in 2 .. Len(got[m]) : got[m][i - 1] < got[m][i]

\* "The oldest are dropped and readers are told" (DESIGN.md): the results'
\* Dropped add up to at least what the client missed.
MissesTold == MapThenSumSet(LAMBDA m : Cardinality(Missed(m)), Members) <= told

\* A client that follows the cursor knows what it has: each event once, or
\* dropped and counted (GroupEvents' merge, NextCursor and Dropped).
CursorHonest == NothingSkipped /\ MissesTold

\* A request waits although a member holds an event it asks for.
Due ==
    /\ pc = "wait"
    /\ \E m \in Members : \E e \in Range(Newest(log[m], held[m])) : e.kind \in wanted /\ e.seq > at[m]

\* A request that waits does not sleep over an event it asks for: an append
\* after a member's query is never missed (queryWatch), also while the other
\* members are still being queried.
WaiterWakes == Due ~> ~Due
=============================================================================
