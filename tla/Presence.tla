------------------------------ MODULE Presence ------------------------------
(***************************************************************************)
(* Editor connections of a session's clients (internal/session/presence.go)*)
(* and the clients' exception modes (exceptions.go), over the control      *)
(* lease: what a client keeps while its editor restarts, and what it loses *)
(* when its last editor connection closed.                                 *)
(*                                                                         *)
(* A step is what the code does in one section of Session.mu, or one       *)
(* request to the adapter.  A connection's own requests run one at a time  *)
(* (facade's ordered worker) and all return before it leaves               *)
(* (facade.Serve), so a connection is one thread: the requests, then       *)
(* Leave, then the cleanup.                                                *)
(***************************************************************************)
EXTENDS ControlLease, FiniteSets

CONSTANTS
    Editors,    \* the clients that open editor connections
    MaxConns,   \* bound: connections opened in all
    Declared,   \* the exception filters the adapter declares
    MaxFails,   \* bound: requests to the adapter that fail
    MaxAsks,    \* bound: exception modes asked for and operations on the lease
    Overlap     \* may two connections of a client set its mode at once?

ASSUME PresenceAssumption ==
    /\ Editors \subseteq Clients /\ (Clients \cup {Nobody}) \cap Nat = {}
    /\ MaxConns \in Nat /\ MaxFails \in Nat /\ MaxAsks \in Nat
    /\ Overlap \in BOOLEAN

Conns   == 1 .. MaxConns
Threads == Conns \cup Clients
Modes   == {"none", "all", "uncaught"}
NoEntry == [conns |-> 0, gen |-> 0, excSet |-> FALSE]

VARIABLES
    pc,        \* where each connection, and each client's command, is
    owner,     \* the client of a connection
    pres,      \* Session.presence; NoEntry where the map has none
    gen,       \* the generation a connection's cleanup was captured with
    asks,      \* the mode, and --force, a thread asks for
    ebps,      \* has the client editor breakpoints?
    excModes,  \* Session.excModes: the clients' modes
    filters,   \* the exception filters the adapter has
    syncMu,    \* the thread that holds syncMu
    plan,      \* the modes a thread will store once the adapter took them
    up,        \* neither the server's nor the manager's context is done
    fails,     \* requests to the adapter that failed
    asked,     \* modes asked for and operations on the lease so far
    chosen     \* history: who set each client's mode last, and to what

presenceVars == <<pc, owner, pres, gen, asks, ebps, excModes, filters,
                  syncMu, plan, up, fails, asked, chosen>>
vars == <<leaseVars, presenceVars>>

NoAsk   == [mode |-> "none", force |-> FALSE]
NoModes == [c \in Clients |-> "none"]
Nothing == [by |-> Nobody, mode |-> "none"]
connGen == Cardinality({k \in Conns : pc[k] # "unused"})
Who(t)  == IF t \in Conns THEN owner[t] ELSE t

----------------------------------------------------------------------------
(***************************************************************************)
(* Connections: Connect, Leave, decrement.                                 *)
(***************************************************************************)

Connect(c) ==
    LET k == connGen + 1
    IN  /\ k \in Conns
        /\ pc' = [pc EXCEPT ![k] = "open"]
        /\ owner' = [owner EXCEPT ![k] = c]
        /\ pres' = [pres EXCEPT ![c] = [conns |-> @.conns + 1, gen |-> k, excSet |-> @.excSet]]
        /\ UNCHANGED <<leaseVars, gen, asks, ebps, excModes, filters, syncMu,
                       plan, up, fails, asked, chosen>>

\* Leave up to the timer or the cleanup: decrement, then at once or, for a
\* restart, after the grace time.
Leave(k, restart) ==
    LET c == owner[k]
        e == [pres[c] EXCEPT !.conns = @ - 1]
    IN  /\ pc[k] = "open"
        /\ \/ /\ e.conns > 0
              /\ pres' = [pres EXCEPT ![c] = e]
              /\ pc' = [pc EXCEPT ![k] = "gone"]
              /\ UNCHANGED gen
           \/ /\ e.conns = 0 /\ ~(live /\ up)
              /\ pres' = [pres EXCEPT ![c] = NoEntry]
              /\ pc' = [pc EXCEPT ![k] = "gone"]
              /\ UNCHANGED gen
           \/ /\ e.conns = 0 /\ live /\ up
              /\ pres' = [pres EXCEPT ![c] = e]
              /\ gen' = [gen EXCEPT ![k] = e.gen]
              /\ pc' = [pc EXCEPT ![k] = IF restart THEN "timer" ELSE "leave"]
        /\ UNCHANGED <<leaseVars, owner, asks, ebps, excModes, filters, syncMu,
                       plan, up, fails, asked, chosen>>

\* Mutant: the timer's cleanup is dropped.
GraceForgotten(k) ==
    /\ pc[k] = "timer"
    /\ pc' = [pc EXCEPT ![k] = "gone"]
    /\ UNCHANGED <<leaseVars, owner, pres, gen, asks, ebps, excModes, filters,
                   syncMu, plan, up, fails, asked, chosen>>

\* The grace timer's function: nothing once the manager has stopped.
GraceEnds(k) ==
    /\ pc[k] = "timer"
    /\ pc' = [pc EXCEPT ![k] = IF up THEN "leave" ELSE "gone"]
    /\ UNCHANGED <<leaseVars, owner, pres, gen, asks, ebps, excModes, filters,
                   syncMu, plan, up, fails, asked, chosen>>

\* An open connection's setBreakpoints, when the session is live.
SetEditorBreakpoints(k) ==
    /\ pc[k] = "open" /\ live
    /\ ebps' = [ebps EXCEPT ![owner[k]] = TRUE]
    /\ UNCHANGED <<leaseVars, pc, owner, pres, gen, asks, excModes, filters,
                   syncMu, plan, up, fails, asked, chosen>>

----------------------------------------------------------------------------
(***************************************************************************)
(* Exception modes.  setExceptionMode holds syncMu from its checks to the  *)
(* store of the new modes, with the request to the adapter between.        *)
(***************************************************************************)

WithMode(c, mode, force) ==
    [d \in Clients |-> IF d = c THEN mode
                       ELSE IF force THEN "none" ELSE excModes[d]]

FiltersFor(modes) == {modes[c] : c \in Clients} \ {"none"}

\* Mutant: syncMu is let go before the adapter is asked.
HoldSyncBriefly(t) == UNCHANGED syncMu

HoldSync(t) == syncMu' = t

\* Where a thread goes when setExceptionMode has returned.
Back(t) == IF pc[t] \in {"reset", "resetting", "retaken"} THEN "last" ELSE IF t \in Conns THEN "open" ELSE "idle"

\* Mutant: any leaving of the client will do.
LeftAnyGen(k) ==
    LET e == pres[owner[k]] IN live /\ e # NoEntry /\ e.conns = 0

\* leftLocked: the leaving that k's cleanup was captured for still holds.
Left(k) ==
    LET e == pres[owner[k]]
    IN  live /\ e # NoEntry /\ e.conns = 0 /\ e.gen = gen[k]

\* Mutant: the guard was checked before syncMu was taken, and is not again.
GuardChecked(t) == TRUE

\* The guard of a cleanup's reset; a client's own request has none.
Guard(t) == pc[t] = "reset" => Left(t)

\* Who may call setExceptionMode: an open connection (setExceptionBreakpoints)
\* and a client's command ask for a mode; a cleanup resets it.
MayAsk(t, mode, force) ==
    \/ /\ pc[t] = "open" /\ ~force
       /\ \/ Overlap
          \/ \A k \in Conns \ {t} : owner[k] = owner[t] => pc[k] \notin {"asked", "taken", "note"}
    \/ pc[t] = "idle"
    \/ pc[t] = "reset" /\ mode = "none" /\ ~force

\* setExceptionMode up to the request; refused, it changes nothing.
ModeBegin(t, mode, force) ==
    LET modes == WithMode(Who(t), mode, force)
    IN  /\ MayAsk(t, mode, force)
        /\ asked < MaxAsks \/ pc[t] = "reset"
        /\ syncMu = Nobody
        /\ live /\ Guard(t) /\ FiltersFor(modes) \subseteq Declared
        /\ HoldSync(t)
        /\ asked' = IF pc[t] = "reset" THEN asked ELSE asked + 1
        /\ asks' = [asks EXCEPT ![t] = [mode |-> mode, force |-> force]]
        /\ plan' = [plan EXCEPT ![t] = modes]
        /\ pc' = [pc EXCEPT ![t] = IF @ = "reset" THEN "resetting" ELSE "asked"]
        /\ UNCHANGED <<leaseVars, owner, pres, gen, ebps, excModes, filters,
                       up, fails, chosen>>

\* A cleanup's reset that is refused: the client came back, or the session
\* has exited.
ResetRefused(k) ==
    /\ pc[k] = "reset"
    /\ syncMu = Nobody
    /\ ~(live /\ Guard(k))
    /\ pc' = [pc EXCEPT ![k] = "last"]
    /\ UNCHANGED <<leaseVars, owner, pres, gen, asks, ebps, excModes, filters,
                   syncMu, plan, up, fails, asked, chosen>>

\* The adapter takes the filters and answers.
AdapterTakes(t) ==
    /\ pc[t] \in {"asked", "resetting"}
    /\ filters' = FiltersFor(plan[t])
    /\ pc' = [pc EXCEPT ![t] = IF @ = "asked" THEN "taken" ELSE "retaken"]
    /\ UNCHANGED <<leaseVars, owner, pres, gen, asks, ebps, excModes, syncMu,
                   plan, up, fails, asked, chosen>>

\* sendFilters fails: refused by the adapter, or given up on, also when the
\* adapter has taken them.  The modes stay.
ModeFails(t) ==
    /\ pc[t] \in {"asked", "resetting", "taken", "retaken"}
    /\ fails < MaxFails
    /\ fails' = fails + 1
    /\ pc' = [pc EXCEPT ![t] = Back(t)]
    /\ asks' = [asks EXCEPT ![t] = NoAsk]
    /\ plan' = [plan EXCEPT ![t] = NoModes]
    /\ syncMu' = Nobody
    /\ UNCHANGED <<leaseVars, owner, pres, gen, ebps, excModes, filters, up,
                   asked, chosen>>

\* The modes are stored and syncMu let go.
ModeDone(t) ==
    LET c == Who(t)
        own == pc[t] = "taken"
    IN  /\ pc[t] \in {"taken", "retaken"}
        /\ excModes' = plan[t]
        /\ syncMu' = Nobody
        /\ plan' = [plan EXCEPT ![t] = NoModes]
        /\ pc' = [pc EXCEPT ![t] = IF own /\ t \in Conns THEN "note" ELSE Back(t)]
        /\ asks' = [asks EXCEPT ![t] = IF own /\ t \in Conns THEN @ ELSE NoAsk]
        /\ chosen' = [d \in Clients |->
                        IF ~own THEN chosen[d]
                        ELSE IF d = c THEN [by |-> t, mode |-> asks[t].mode]
                        ELSE IF asks[t].force THEN Nothing ELSE chosen[d]]
        /\ UNCHANGED <<leaseVars, owner, pres, gen, ebps, filters, up, fails, asked>>

\* Mutant: what an editor set is not remembered.
ExceptionsForgotten(k) ==
    /\ pc[k] = "note"
    /\ pc' = [pc EXCEPT ![k] = "open"]
    /\ asks' = [asks EXCEPT ![k] = NoAsk]
    /\ UNCHANGED <<leaseVars, owner, pres, gen, ebps, excModes, filters, syncMu,
                   plan, up, fails, asked, chosen>>

\* Presence.ExceptionsSet, after a connection's setExceptionBreakpoints.
ExceptionsSet(k) ==
    /\ pc[k] = "note"
    /\ pc' = [pc EXCEPT ![k] = "open"]
    /\ pres' = [pres EXCEPT ![owner[k]].excSet = asks[k].mode # "none"]
    /\ asks' = [asks EXCEPT ![k] = NoAsk]
    /\ UNCHANGED <<leaseVars, owner, gen, ebps, excModes, filters, syncMu, plan, up,
                   fails, asked, chosen>>

----------------------------------------------------------------------------
(***************************************************************************)
(* leave, the cleanup: three steps, each with its own check.               *)
(***************************************************************************)

LeaveBreakpoints(k) ==
    /\ pc[k] = "leave"
    /\ ebps' = [ebps EXCEPT ![owner[k]] = @ /\ ~Left(k)]
    /\ pc' = [pc EXCEPT ![k] = "check"]
    /\ UNCHANGED <<leaseVars, owner, pres, gen, asks, excModes, filters,
                   syncMu, plan, up, fails, asked, chosen>>

LeaveCheckMode(k) ==
    LET c == owner[k]
    IN  /\ pc[k] = "check"
        /\ pc' = [pc EXCEPT ![k] = IF Left(k) /\ pres[c].excSet /\ excModes[c] # "none"
                                   THEN "reset" ELSE "last"]
        /\ UNCHANGED <<leaseVars, owner, pres, gen, asks, ebps, excModes,
                       filters, syncMu, plan, up, fails, asked, chosen>>

\* Mutant: the entry of a client that left stays.
LeaveKeepsEntry(c) == LeaveLease(c) /\ UNCHANGED pres

\* The last of a leaving: its lease, its request, its entry.
LeaveAll(c) ==
    /\ LeaveLease(c)
    /\ pres' = [pres EXCEPT ![c] = NoEntry]

LeaveLast(k) ==
    LET c == owner[k]
    IN  /\ pc[k] = "last"
        /\ pc' = [pc EXCEPT ![k] = "gone"]
        /\ gen' = [gen EXCEPT ![k] = 0]
        /\ \/ /\ Left(k)
              /\ LeaveAll(c)
           \/ /\ ~Left(k)
              /\ UNCHANGED <<leaseVars, pres>>
        /\ UNCHANGED <<owner, asks, ebps, excModes, filters, syncMu, plan, up, fails, asked,
                       chosen>>

----------------------------------------------------------------------------
\* The clients' operations on the lease, by an editor or by a command.
ClientLease ==
    /\ \E c \in Clients :
           \/ TakeLease(c, FALSE)
           \/ \E to \in Clients : GrantLease(c, to, FALSE)
           \/ ReleaseLease(c) \/ Acquire(c) \/ RequestLease(c)
    /\ asked < MaxAsks
    /\ asked' = asked + 1
    /\ UNCHANGED <<pc, owner, pres, gen, asks, ebps, excModes, filters, syncMu,
                   plan, up, fails, chosen>>

SessionEnds == EndLease /\ UNCHANGED presenceVars

\* The daemon begins to stop: the manager's and the server's contexts end.
DaemonStops ==
    /\ up
    /\ up' = FALSE
    /\ UNCHANGED <<leaseVars, pc, owner, pres, gen, asks, ebps, excModes,
                   filters, syncMu, plan, fails, asked, chosen>>

Init ==
    /\ LeaseInit
    /\ pc = [t \in Threads |-> IF t \in Conns THEN "unused" ELSE "idle"]
    /\ owner = [k \in Conns |-> Nobody]
    /\ pres = [c \in Clients |-> NoEntry]
    /\ gen = [k \in Conns |-> 0]
    /\ asks = [t \in Threads |-> NoAsk]
    /\ ebps = [c \in Clients |-> FALSE]
    /\ excModes = [c \in Clients |-> "none"]
    /\ filters = {}
    /\ syncMu = Nobody
    /\ plan = [t \in Threads |-> NoModes]
    /\ up = TRUE
    /\ fails = 0 /\ asked = 0
    /\ chosen = [c \in Clients |-> Nothing]

Next ==
    \/ \E c \in Editors : Connect(c)
    \/ \E k \in Conns :
           \/ \E restart \in BOOLEAN : Leave(k, restart)
           \/ GraceEnds(k)
           \/ SetEditorBreakpoints(k)
           \/ ExceptionsSet(k)
           \/ LeaveBreakpoints(k) \/ LeaveCheckMode(k) \/ ResetRefused(k) \/ LeaveLast(k)
    \/ \E t \in Threads :
           \/ \E mode \in Modes, force \in BOOLEAN : ModeBegin(t, mode, force)
           \/ AdapterTakes(t) \/ ModeFails(t) \/ ModeDone(t)
    \/ ClientLease
    \/ SessionEnds
    \/ DaemonStops

\* Goroutines go on, the adapter answers, timers fire.
Fairness ==
    /\ \A k \in Conns : WF_vars(GraceEnds(k) \/ LeaveBreakpoints(k)
                                \/ LeaveCheckMode(k) \/ LeaveLast(k))
    /\ \A k \in Conns : SF_vars(ResetRefused(k) \/ ModeBegin(k, "none", FALSE))
    /\ \A t \in Threads : WF_vars(AdapterTakes(t) \/ ModeDone(t))

Spec == Init /\ [][Next]_vars /\ Fairness

----------------------------------------------------------------------------
(***************************************************************************)
(* Properties.                                                             *)
(***************************************************************************)

\* What an editor set holds: the exception mode a connection set last, while
\* it is open and nobody else set that client's mode, is the client's mode,
\* whatever cleanup of an earlier connection was under way when it came
\* (setExceptionMode's guard, checked with syncMu held).
\* Whenever no request is in flight and none failed, the adapter has the union
\* of the clients' modes.
ModeInForce ==
    /\ \A c \in Clients :
          (chosen[c].by \in Conns /\ pc[chosen[c].by] \in {"open", "asked", "taken", "note"})
          => excModes[c] = chosen[c].mode
    /\ (syncMu = Nobody /\ fails = 0) => filters = FiltersFor(excModes)

\* Leaving takes everything: when a cleanup is through, the client has no
\* editor breakpoints, no lease, no request, and no exception mode that an
\* editor of it set last, unless a request to the adapter failed.
LeavingTakesAll ==
    [][ \A c \in Clients :
          (pres[c] # NoEntry /\ pres[c].conns = 0 /\ pres'[c] = NoEntry)
          => /\ ~ebps'[c] /\ holder' # c
             /\ \A i \in DOMAIN requests' : requests'[i] # c
             /\ (chosen[c].by \in Conns /\ fails = 0) => excModes'[c] = "none" ]_vars

\* A restart's grace is honoured: while the newest connection's grace time
\* runs, no older cleanup of the client, however late, takes anything.
GraceHonoured ==
    [][ \A k \in Conns :
          (pc[k] = "timer" /\ pc'[k] = "timer" /\ gen[k] = pres[owner[k]].gen)
          => LET c == owner[k]
             IN  /\ pres'[c] # NoEntry
                 /\ ebps[c] => ebps'[c]
                 /\ holder = c /\ holder' # c => moved'.action # "leave" ]_vars

\* A cleanup takes all and only what it should, whatever came back, left
\* again or failed while it waited or ran (leave, cleanUpLeft).
CleanupExact == LeavingTakesAll /\ GraceHonoured

\* Every leaving ends: a client without a connection comes back or is cleaned
\* up, unless the session ends or the daemon stops.
LeavingEnds ==
    \A c \in Editors :
        (pres[c] # NoEntry /\ pres[c].conns = 0)
        ~> (pres[c] = NoEntry \/ pres[c].conns > 0 \/ ~live \/ ~up)
=============================================================================
