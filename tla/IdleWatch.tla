----------------------------- MODULE IdleWatch -----------------------------
(***************************************************************************)
(* The server's count of live sessions, which the idle timeout and         *)
(* daemon.stop go by (internal/daemon/server.go), and the manager's        *)
(* reports of it (notify and Live, internal/session/manager.go).           *)
(*                                                                         *)
(* Every change of the sessions is followed by a notify on the same        *)
(* thread: it counts the live sessions, then tells the server.  Threads    *)
(* of different sessions run at the same time.                             *)
(***************************************************************************)
EXTENDS Naturals, FiniteSets

CONSTANT Sessions

VARIABLES
    phase,    \* of each session: "new", "live", "exited" (both mapped), "gone"
    pc,       \* of each notify: "idle", "count", "report" or "done"
    counted,  \* what a notify counted
    live,     \* server.live
    exiting   \* the idle timeout was reached

vars == <<phase, pc, counted, live, exiting>>

\* The threads that notify: a session's start, its watcher, and whoever
\* removes it from the map (stop, Detach, fail).
Notifies == [by : {"start", "watch", "remove"}, of : Sessions]
By(who, s) == [by |-> who, of |-> s]

Notify(who, s) == pc' = [pc EXCEPT ![By(who, s)] = "count"]

\* add.
Add(s) ==
    /\ phase[s] = "new" /\ ~exiting
    /\ phase' = [phase EXCEPT ![s] = "live"]
    /\ Notify("start", s)
    /\ UNCHANGED <<counted, live, exiting>>

\* The session ends, on its own or by a request.
End(s) ==
    /\ phase[s] = "live"
    /\ phase' = [phase EXCEPT ![s] = "exited"]
    /\ UNCHANGED <<pc, counted, live, exiting>>

\* watch, which begins when the start returns: also after a stop removed s.
Watch(s) ==
    /\ phase[s] \in {"exited", "gone"}
    /\ pc[By("start", s)] = "done" /\ pc[By("watch", s)] = "idle"
    /\ Notify("watch", s)
    /\ UNCHANGED <<phase, counted, live, exiting>>

\* remove, removeSession: after the session ended.
Remove(s) ==
    /\ phase[s] = "exited"
    /\ phase' = [phase EXCEPT ![s] = "gone"]
    /\ Notify("remove", s)
    /\ UNCHANGED <<counted, live, exiting>>

LiveSessions == {s \in Sessions : phase[s] = "live"}

\* notify: Live ...
Count(n) ==
    /\ pc[n] = "count"
    /\ counted' = [counted EXCEPT ![n] = Cardinality(LiveSessions)]
    /\ pc' = [pc EXCEPT ![n] = "report"]
    /\ UNCHANGED <<phase, live, exiting>>

\* ... then setLive.
SetLive(n) ==
    /\ pc[n] = "report"
    /\ live' = counted[n]
    /\ pc' = [pc EXCEPT ![n] = "done"]
    /\ UNCHANGED <<phase, counted, exiting>>

\* watchIdle, when IdleTimeout passed since the count became 0.
IdleExit ==
    /\ live = 0 /\ ~exiting
    /\ exiting' = TRUE
    /\ UNCHANGED <<phase, pc, counted, live>>

Init ==
    /\ phase = [s \in Sessions |-> "new"]
    /\ pc = [n \in Notifies |-> "idle"]
    /\ counted = [n \in Notifies |-> 0]
    /\ live = 0
    /\ exiting = FALSE

Next ==
    \/ \E s \in Sessions : Add(s) \/ End(s) \/ Watch(s) \/ Remove(s)
    \/ \E n \in Notifies : Count(n) \/ SetLive(n)
    \/ IdleExit

Spec == Init /\ [][Next]_vars

\* Every change of the sessions has been reported.
Settled ==
    /\ \A n \in Notifies : pc[n] \in {"idle", "done"}
    /\ \A s \in Sessions : phase[s] = "exited" => pc[By("watch", s)] = "done"

\* The server's count is the number of live sessions whenever no change of it
\* is being reported: OnLive "is called with the number of live sessions
\* whenever it may have changed (for the daemon's idle timer)" (manager.go),
\* and watchIdle "stops the daemon once it has had no sessions for
\* IdleTimeout" (server.go).
LiveAgrees == Settled => live = Cardinality(LiveSessions)
=============================================================================
