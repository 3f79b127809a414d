-------------------------- MODULE FacadeConnection --------------------------
(***************************************************************************)
(* One editor's DAP connection that joins a session (internal/facade:      *)
(* facade.go, requests.go, events.go; dap/server.go; session/join.go).     *)
(*                                                                         *)
(* The goroutines are the reader, which handles the lifecycle requests;    *)
(* the worker, which handles the requests that change something in the     *)
(* order they came; one goroutine per other request; and the follower,     *)
(* which turns the session's event log into DAP events.  The event gate    *)
(* orders them.  A step is what one of them does while it holds the gate,  *)
(* or between two things others can see.                                   *)
(*                                                                         *)
(* A request is one of three kinds: "continue" (isExecution), "bps" (gated *)
(* and ordered, but no execution: breakpoints, the lease) and "read" (own  *)
(* goroutine).  A request that is refused before it reaches the session    *)
(* (admissible, a lifecycle request out of turn) changes nothing but its   *)
(* own answer and is not a step.                                           *)
(***************************************************************************)
EXTENDS Naturals, Sequences, FiniteSets

CONSTANTS
    MaxReqs,      \* bound: requests the reader takes
    MaxLog,       \* bound: events the session logs
    KeepLog,      \* events the log holds (its ring drops older ones)
    MaxBatch,     \* api.MaxEventsLimit: events of one Follow
    MaxInFlight,  \* maxInFlight
    OthersRun,    \* do other clients continue the program?
    MayBreak      \* may the connection break?

ASSUME ConnectionAssumption ==
    /\ MaxReqs \in Nat /\ MaxLog \in Nat /\ KeepLog \in Nat \ {0}
    /\ MaxBatch \in Nat \ {0} /\ MaxInFlight \in Nat \ {0}
    /\ OthersRun \in BOOLEAN /\ MayBreak \in BOOLEAN

Kinds == {"continue", "bps", "read"}
Reqs  == 1 .. MaxReqs
Other == 0      \* the cause of an event that no request of this editor caused

VARIABLES
    phase,      \* connection.phase
    reader,     \* what the reader does
    reqs,       \* the kinds of the requests taken
    at,         \* how far each of them is
    queue,      \* inFlight.ordered: the worker's requests, the first in work
    gate,       \* is the gate held by the worker?
    view,       \* view: configured, leaving
    broken,     \* a write failed, or the stream ended: the connection is closed
    log,        \* the session's events, with their cause
    prog,       \* the session's state
    join,       \* what JoinPoint returned
    follower,   \* what the follower does
    since, hi,  \* the follower's last seq; the last seq of its batch
    answered,   \* the requests whose successful response was written
    shown,      \* what the editor makes of its responses and events
    told,       \* the events relayed, in order
    missed      \* the events a resync stood for

sessionVars == <<log, prog>>
clientVars  == <<answered, shown, told, missed>>
followVars  == <<follower, since, hi>>
connectionVars ==
    <<phase, reader, reqs, at, queue, gate, view, broken, sessionVars,
      join, followVars, clientVars>>

----------------------------------------------------------------------------
(***************************************************************************)
(* The session: the program, and the log every change of it is told in.    *)
(***************************************************************************)

Logged(kind, cause) ==
    /\ Len(log) < MaxLog
    /\ log' = Append(log, [kind |-> kind, cause |-> cause])

\* The program stops, another client continues it, or the session ends.
SessionChanges ==
    /\ \/ prog = "running" /\ prog' = "stopped" /\ Logged("stopped", Other)
       \/ OthersRun /\ prog = "stopped" /\ prog' = "running" /\ Logged("exec", Other)
       \/ prog # "exited" /\ prog' = "exited" /\ Logged("ended", Other)
    /\ UNCHANGED <<phase, reader, reqs, at, queue, gate, view, broken, join,
                   followVars, clientVars>>

----------------------------------------------------------------------------
(***************************************************************************)
(* The reader.                                                             *)
(***************************************************************************)

IsExecution(k) == k = "continue"
IsGated(k)     == k \in {"continue", "bps"}
IsOrdered(k)   == IsGated(k)

\* admissible: attached, and configured for an execution.
Admissible(k) == phase \in (IF IsExecution(k) THEN {"configured"}
                            ELSE {"attached", "configured"})

\* initialize and attach, each once and in this order.
Handshake ==
    /\ reader = "read"
    /\ \/ phase = "new" /\ phase' = "initialized"
       \/ phase = "initialized" /\ phase' = "attached"
    /\ UNCHANGED <<reader, reqs, at, queue, gate, view, broken, sessionVars,
                   join, followVars, clientVars>>

\* What an editor does: it offers continue on a stop it shows, and only once.
EditorSends(k) ==
    k = "continue" => /\ shown = "stopped"
                      /\ \A r \in DOMAIN reqs : reqs[r] = k => at[r] = "done"

\* dispatchOther reads a request: the reader then waits for a slot.
Read(k) ==
    /\ reader = "read" /\ EditorSends(k) /\ Admissible(k) /\ Len(reqs) < MaxReqs
    /\ reqs' = Append(reqs, k)
    /\ reader' = "slot"
    /\ UNCHANGED <<phase, at, queue, gate, view, broken, sessionVars, join,
                   followVars, clientVars>>

\* spawn: to the worker's queue, or to a goroutine of its own.
Spawn ==
    LET r == Len(reqs)
    IN  /\ reader = "slot"
        /\ Cardinality({i \in Reqs : at[i] \in {"queued", "called"}}) < MaxInFlight
        /\ reader' = "read"
        /\ at' = [at EXCEPT ![r] = "queued"]
        /\ queue' = IF IsOrdered(reqs[r]) THEN Append(queue, r) ELSE queue
        /\ UNCHANGED <<phase, reqs, gate, view, broken, sessionVars, join,
                       followVars, clientVars>>

\* Mutant: the log is followed from its end as of the join, not as of the
\* response.
JoinAtEnd == Len(log)

JoinAt == join.seq

\* configurationDone up to its response: JoinPoint reads the state and the
\* newest seq together.
ConfigurationDone ==
    /\ reader = "read" /\ phase = "attached"
    /\ phase' = "configured"
    /\ join' = [seq |-> Len(log), state |-> prog]
    /\ reader' = IF broken THEN "read" ELSE "join"
    /\ UNCHANGED <<reqs, at, queue, gate, view, broken, sessionVars,
                   followVars, clientVars>>

\* join, under the gate: the state at the join point, then the follower.
Join ==
    /\ reader = "join" /\ ~gate
    /\ reader' = "read"
    /\ shown' = IF broken THEN shown ELSE join.state
    /\ \/ /\ join.state = "exited"
          /\ UNCHANGED <<view, followVars>>
       \/ /\ join.state # "exited"
          /\ view' = [view EXCEPT !.configured = TRUE]
          /\ follower' = "idle"
          /\ since' = JoinAt
          /\ UNCHANGED hi
    /\ UNCHANGED <<phase, reqs, at, queue, gate, broken, sessionVars, join,
                   answered, told, missed>>

\* disconnect, under the gate; it ends the reader.
Disconnect ==
    /\ reader = "read" /\ ~gate
    /\ view' = [view EXCEPT !.leaving = TRUE]
    /\ reader' = "done"
    /\ UNCHANGED <<phase, reqs, at, queue, gate, broken, sessionVars, join,
                   followVars, clientVars>>

\* The stream ended, or a write failed, which closes it; the reader sees it
\* the next time it reads.
Break ==
    /\ MayBreak /\ ~broken
    /\ broken' = TRUE
    /\ UNCHANGED <<phase, reader, reqs, at, queue, gate, view, sessionVars,
                   join, followVars, clientVars>>

ReadEnds ==
    /\ reader = "read" /\ broken
    /\ reader' = "done"
    /\ UNCHANGED <<phase, reqs, at, queue, gate, view, broken, sessionVars,
                   join, followVars, clientVars>>

\* Serve cancels the connection's context once the reader has returned.
Canceled == reader = "done"

----------------------------------------------------------------------------
(***************************************************************************)
(* handle: the worker's requests, and the others'.                         *)
(***************************************************************************)

\* Mutant: the response is written without the gate.
GateForNone(k) == FALSE

\* handle holds the gate from its session call until its response.
GateFor(k) == IsGated(k)

\* The session call of the worker's first request.  A continue needs a
\* stopped program.  Once the context is done the call may end instead.
Serve ==
    LET r == Head(queue)
        k == reqs[r]
    IN  /\ queue # <<>> /\ at[r] = "queued" /\ ~gate
        /\ gate' = GateFor(k)
        /\ \/ /\ k = "continue" /\ prog = "stopped"
              /\ prog' = "running" /\ Logged("exec", r)
              /\ at' = [at EXCEPT ![r] = "called"]
           \/ /\ k = "bps" /\ prog # "exited"
              /\ Logged("breakpoint", r)
              /\ at' = [at EXCEPT ![r] = "called"]
              /\ UNCHANGED prog
           \/ /\ \/ k = "continue" /\ prog # "stopped"
                 \/ k = "bps" /\ prog = "exited"
                 \/ Canceled
              /\ at' = [at EXCEPT ![r] = "failed"]
              /\ UNCHANGED <<log, prog>>
        /\ UNCHANGED <<phase, reader, reqs, queue, view, broken, join,
                       followVars, clientVars>>

\* The response and what follows it under the gate; the slot is free.
Respond ==
    LET r == Head(queue)
        ok == at[r] = "called" /\ ~broken
    IN  /\ queue # <<>> /\ at[r] \in {"called", "failed"}
        /\ answered' = IF ok THEN answered \cup {r} ELSE answered
        /\ shown' = IF ok /\ reqs[r] = "continue" THEN "running" ELSE shown
        /\ at' = [at EXCEPT ![r] = "done"]
        /\ queue' = Tail(queue)
        /\ gate' = FALSE
        /\ UNCHANGED <<phase, reader, reqs, view, broken, sessionVars, join,
                       followVars, told, missed>>

\* A read: its own goroutine, no gate.
ServeRead(r) ==
    /\ r \in DOMAIN reqs /\ reqs[r] = "read" /\ at[r] = "queued"
    /\ at' = [at EXCEPT ![r] = "done"]
    /\ UNCHANGED <<phase, reader, reqs, queue, gate, view, broken, sessionVars,
                   join, followVars, clientVars>>

----------------------------------------------------------------------------
(***************************************************************************)
(* follow.                                                                 *)
(***************************************************************************)

First == IF Len(log) > KeepLog THEN Len(log) - KeepLog + 1 ELSE 1

\* Follow: the oldest events after since that the log holds, and whether it
\* dropped some.
Follow ==
    LET lo == IF First > since + 1 THEN First ELSE since + 1
    IN  /\ follower = "idle" /\ ~Canceled /\ Len(log) > since
        /\ hi' = IF Len(log) - lo + 1 > MaxBatch THEN lo + MaxBatch - 1 ELSE Len(log)
        /\ follower' = IF lo > since + 1 THEN "resync" ELSE "relay"
        /\ since' = lo - 1
        /\ missed' = missed \cup (since + 1 .. lo - 1)
        /\ UNCHANGED <<phase, reader, reqs, at, queue, gate, view, broken,
                       sessionVars, join, answered, shown, told>>

\* relay: what it sends under the gate; nothing to a leaving editor, and the
\* follower ends when the write fails.
Resync ==
    /\ follower = "resync" /\ ~gate
    /\ follower' = IF broken /\ ~view.leaving THEN "done" ELSE "relay"
    /\ shown' = IF broken \/ view.leaving THEN shown ELSE prog
    /\ UNCHANGED <<phase, reader, reqs, at, queue, gate, view, broken,
                   sessionVars, join, since, hi, answered, told, missed>>

\* translate: a stop, another client's execution, the end; the client's own
\* execution is covered by its response.
Translate(e) ==
    CASE e.kind = "stopped" -> "stopped"
      [] e.kind = "exec" /\ e.cause = Other -> "running"
      [] e.kind = "ended" -> "exited"
      [] OTHER -> shown

Relay ==
    LET e == log[since + 1]
        sent == ~broken /\ ~view.leaving
    IN  /\ follower = "relay" /\ ~gate
        /\ since' = since + 1
        /\ follower' = IF (broken /\ ~view.leaving) \/ e.kind = "ended" THEN "done"
                       ELSE IF since + 1 = hi THEN "idle" ELSE "relay"
        /\ shown' = IF sent THEN Translate(e) ELSE shown
        /\ told' = IF sent THEN Append(told, since + 1) ELSE told
        /\ UNCHANGED <<phase, reader, reqs, at, queue, gate, view, broken,
                       sessionVars, join, hi, answered, missed>>

\* Mutant: Follow waits for the next event whatever became of the connection.
FollowEndsEnded ==
    /\ follower = "idle" /\ Canceled /\ prog = "exited"
    /\ follower' = "done"
    /\ UNCHANGED <<phase, reader, reqs, at, queue, gate, view, broken,
                   sessionVars, join, since, hi, clientVars>>

\* Follow returns when the connection's context ends.
FollowEnds ==
    /\ follower = "idle" /\ Canceled
    /\ follower' = "done"
    /\ UNCHANGED <<phase, reader, reqs, at, queue, gate, view, broken,
                   sessionVars, join, since, hi, clientVars>>

\* Serve returns once every goroutine has: then the client's presence ends
\* (module Presence).
ServeEnds ==
    /\ Canceled /\ queue = <<>> /\ follower \in {"none", "done"}
    /\ \A r \in DOMAIN reqs : at[r] \in {"none", "done"}
    /\ reader' = "closed"
    /\ UNCHANGED <<phase, reqs, at, queue, gate, view, broken, sessionVars,
                   join, followVars, clientVars>>

ConnectionInit ==
    /\ phase = "new" /\ reader = "read" /\ reqs = <<>>
    /\ at = [r \in Reqs |-> "none"]
    /\ queue = <<>> /\ gate = FALSE /\ broken = FALSE
    /\ view = [configured |-> FALSE, leaving |-> FALSE]
    /\ log = <<>> /\ prog \in {"running", "stopped"}
    /\ join = [seq |-> 0, state |-> "none"]
    /\ follower = "none" /\ since = 0 /\ hi = 0
    /\ answered = {} /\ shown = "none" /\ told = <<>> /\ missed = {}

ConnectionNext ==
    \/ SessionChanges
    \/ Handshake \/ (\E k \in Kinds : Read(k)) \/ Spawn
    \/ ConfigurationDone \/ Join \/ Disconnect \/ Break \/ ReadEnds
    \/ Serve \/ Respond \/ (\E r \in Reqs : ServeRead(r))
    \/ Follow \/ Resync \/ Relay \/ FollowEnds \/ ServeEnds

\* Goroutines go on; the gate is a Go mutex, which no waiter is denied for
\* ever.  The editor owes nothing.
ConnectionFairness ==
    /\ WF_connectionVars(Spawn) /\ SF_connectionVars(Join) /\ WF_connectionVars(ReadEnds)
    /\ SF_connectionVars(Serve) /\ WF_connectionVars(Respond)
    /\ \A r \in Reqs : WF_connectionVars(ServeRead(r))
    /\ WF_connectionVars(Follow \/ FollowEnds) /\ SF_connectionVars(Resync \/ Relay)
    /\ WF_connectionVars(ServeEnds)

ConnectionSpec == ConnectionInit /\ [][ConnectionNext]_connectionVars /\ ConnectionFairness

----------------------------------------------------------------------------
(***************************************************************************)
(* Properties.                                                             *)
(***************************************************************************)

\* A request's response is always written before the events it causes (the
\* gate, held by handle from the session call to the response).
ResponseFirst ==
    \A i \in DOMAIN told :
        LET c == log[told[i]].cause IN c = Other \/ c \in answered

\* From the join point on every event reaches the editor once and in order,
\* or a resync stood for it: none falls between JoinPoint and the follower,
\* or between two Follows.
ToldInOrder ==
    /\ \A i \in DOMAIN told : \A j \in DOMAIN told : i < j => told[i] < told[j]
    /\ ((follower # "none" /\ ~broken /\ ~view.leaving)
        => {told[i] : i \in DOMAIN told} \cup missed = join.seq + 1 .. since)

\* Once everything logged is told and no request is in flight, the editor
\* shows the program as it is, as long as it missed no event.
EditorAgrees ==
    (view.configured /\ ~view.leaving /\ ~broken /\ queue = <<>>
     /\ follower = "idle" /\ since = Len(log) /\ missed = {})
    => shown = prog

\* A response is written before the events its request causes, every event
\* from the join point on reaches the editor once, in order, or a resync
\* stands for it, and with everything told the editor shows the program's
\* state (facade/events.go's follower and requests.go's gate).
EventsInOrder == ResponseFirst /\ ToldInOrder /\ EditorAgrees

\* A connection whose editor left, or that broke, ends: no goroutine of it
\* waits for ever, so the client's leaving is always noticed.
ConnectionEnds == (reader = "done" \/ broken) ~> (reader = "closed")
=============================================================================
