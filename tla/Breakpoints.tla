---------------------------- MODULE Breakpoints ----------------------------
(***************************************************************************)
(* The breakpoints of one file of a live session, shared by its clients,   *)
(* and the adapter's copy of them (internal/session/breakpoints.go,        *)
(* replace.go, slots.go, funcbps.go; the stop filter's rule of emulate.go).*)
(*                                                                         *)
(* A client's request changes the list under mu, then sends the whole      *)
(* file to the adapter (syncBreakpoints): syncMu is held from the snapshot *)
(* of the list to the answer.  Each request is a thread; what it does      *)
(* under one lock of mu is one action.  Executions (continue, run-until)   *)
(* hold execMu until their request is sent; only then may a second one     *)
(* begin.  A function's list is synced the same way and is not repeated.   *)
(*                                                                         *)
(* The adapter is external: it takes lists in order, keeps the last one,   *)
(* and resolves a line at once or later, when it tells so with an event.   *)
(***************************************************************************)
EXTENDS Naturals, Sequences, FiniteSets, Functions

CONSTANTS
    Clients,
    Requests,    \* bound: the clients' requests
    Lines,       \* lines breakpoints are requested at
    Place(_),    \* the line the adapter places one on, once resolved
    Conds,       \* conditions; "" is none
    Specs,       \* bound: what clients ask for: [line, cond, log]
    Lists,       \* bound: the lists editors send: line -> condition
    StartSpecs,  \* the lines the starter's own breakpoints are at
    Starter,     \* the client that started the session
    None,
    MaxFailures, \* bound: syncs that run into requestTimeout or are refused
    MaxLate,     \* bound: lines the adapter resolves later
    Kinds        \* bound: which requests clients make

ASSUME BreakpointsAssumption ==
    /\ None \notin Clients \cup Requests \cup {"configure"} /\ "configure" \notin Requests
    /\ Lines \subseteq Nat \ {0} /\ \A l \in Lines : Place(l) \in Lines
    /\ Specs \subseteq [line : Lines, cond : Conds, log : BOOLEAN]
    /\ \A items \in Lists : /\ DOMAIN items \subseteq Lines /\ Range(items) \subseteq Conds
                           /\ IsFiniteSet(DOMAIN items)
    /\ "" \in Conds /\ Starter \in Clients
    /\ StartSpecs \subseteq Lines /\ IsFiniteSet(StartSpecs)
    /\ MaxFailures \in Nat /\ MaxLate \in Nat

VARIABLES
    \* Session, under mu
    bps,          \* Session.bps of the file
    nextBP,       \* Session.nextBP
    running,      \* Session.state = running
    initialized,  \* Session.initialized is closed
    \* threads
    calls,        \* where each request, and configure, is
    syncMu,       \* the thread that holds syncMu, or None
    execMu,       \* the thread that holds execMu, or None
    seq,          \* dap.Client.seq
    \* the adapter (external)
    inbox,        \* lists it has not taken yet
    list,         \* the list it keeps: line -> condition
    resolved,     \* lines of it that are resolved
    stream,       \* its messages the read loop has not taken yet
    \* bounds
    timeouts, refusals, late

sessionVars == <<bps, nextBP, running, initialized>>
threadVars  == <<calls, syncMu, execMu, seq>>
adapterVars == <<inbox, list, resolved, stream>>
boundVars   == <<timeouts, refusals, late>>
vars        == <<sessionVars, threadVars, adapterVars, boundVars>>

\* The start's configurationPhase is a thread of its own.
Configure == "configure"
Threads   == Requests \cup {Configure}

\* then: what follows the sync; slots: the breakpoints it is about; id: of the
\* DAP request; answer, lines: what it got; line, cond, temp: run-until's
\* target and its temporary breakpoint (temp: also the one to remove).
Idle == [kind |-> "none", pc |-> "idle", then |-> "done", client |-> None, line |-> 0, cond |-> "",
         slots |-> {}, lines |-> {}, id |-> 0, answer |-> "none", temp |-> 0]

Ended(c) == [Idle EXCEPT !.kind = c.kind, !.client = c.client, !.pc = "done"]
GoTo(c, where) == IF where = "done" THEN Ended(c) ELSE [c EXCEPT !.pc = where]

IdsOf(S)   == {b.id : b \in S}
Older(S)   == CHOOSE b \in S : \A d \in S : b.id <= d.id

----------------------------------------------------------------------------
(***************************************************************************)
(* The list.                                                               *)
(***************************************************************************)

\* addNewLocked, with an id of its own.
NewBreakpoint(i, c, line, cond, log) ==
    [id |-> i, owner |-> c, req |-> line, line |-> line, cond |-> cond, log |-> log,
     temp |-> FALSE, editor |-> FALSE, verified |-> FALSE, adapterID |-> 0]

\* setEmulated, with the condition: a breakpoint's new spec.
Update(b, cond, log) == [b EXCEPT !.cond = cond, !.log = log]

\* Mutant: a new breakpoint's id is read before the counter is advanced.
AddBreakpointLockedEarlyId(c, line, cond, log) ==
    LET own == {b \in bps : b.owner = c /\ b.req = line}
    IN  IF own # {}
        THEN /\ bps' = (bps \ {Older(own)})
                       \cup {[Update(Older(own), cond, log) EXCEPT !.temp = FALSE]}
             /\ UNCHANGED nextBP
        ELSE /\ nextBP' = nextBP + 1
             /\ bps' = bps \cup {NewBreakpoint(nextBP, c, line, cond, log)}

\* addBreakpointLocked: the first one c has at the line is changed and made
\* permanent, else a new one is added.
AddBreakpointLocked(c, line, cond, log) ==
    LET own == {b \in bps : b.owner = c /\ b.req = line}
    IN  IF own # {}
        THEN /\ bps' = (bps \ {Older(own)})
                       \cup {[Update(Older(own), cond, log) EXCEPT !.temp = FALSE]}
             /\ UNCHANGED nextBP
        ELSE /\ nextBP' = nextBP + 1
             /\ bps' = bps \cup {NewBreakpoint(nextBP + 1, c, line, cond, log)}

Oldest(S) == IF S = {} THEN {} ELSE {Older(S)}

\* matchItems: by the line requested, then by the line it was placed on; each
\* line of the editor's list gets one breakpoint of old, or none.
MatchItems(old, wanted) ==
    LET byRequested(l) == Oldest({b \in old : b.req = l})
        rest           == old \ UNION {byRequested(l) : l \in wanted}
    IN  [l \in wanted |-> IF byRequested(l) # {} THEN byRequested(l)
                          ELSE Oldest({b \in rest : b.line = l})]

\* matchLocked: c's editor breakpoints of the file become the ones the editor
\* lists (line -> condition).  What c set with the CLI and temporary ones stay.
MatchLocked(c, items) ==
    LET wanted  == DOMAIN items
        old     == {b \in bps : b.owner = c /\ ~b.temp}
        match   == MatchItems(old, wanted)
        matched == UNION Range(match)
        gone    == {b \in old \ matched : b.editor}
        fresh   == {l \in wanted : match[l] = {}}
        idOf(l) == nextBP + Cardinality({k \in fresh : k <= l})
    IN  /\ bps' = (bps \ (gone \cup matched))
                  \cup (UNION {{[Update(b, items[l], FALSE) EXCEPT !.editor = TRUE] : b \in match[l]} :
                                   l \in wanted})
                  \cup {[NewBreakpoint(idOf(l), c, l, items[l], FALSE) EXCEPT !.editor = TRUE] :
                            l \in fresh}
        /\ nextBP' = nextBP + Cardinality(fresh)

----------------------------------------------------------------------------
(***************************************************************************)
(* What the adapter is sent, and what the stop filter makes of a stop.     *)
(***************************************************************************)

\* slotsFor's condition of the breakpoints requested at one line: the one all
\* of them have, else none.
SlotCondition(at) ==
    IF \A b, d \in at : b.cond = d.cond THEN (CHOOSE b \in at : TRUE).cond ELSE ""

\* slotsFor: one breakpoint per line.
SlotsFor(S) == [l \in {b.req : b \in S} |-> SlotCondition({b \in S : b.req = l})]

\* needsFilterLocked, conditionsDiffer: by the line they were placed on.
NeedsFilter ==
    \/ \E b \in bps : b.log
    \/ \E b, d \in bps : b.line = d.line /\ b.cond # d.cond

\* Mutant: the stop's line is compared with the line requested.
PlanRequested(p) == {b \in bps : b.req = p}

\* planLocked: the breakpoints at a stop on line p.
Plan(p) == {b \in bps : b.line = p}

\* planLocked, held: the adapter checked a condition they all share.
Held(b, plan, true) ==
    (\A d \in plan : d.cond = b.cond) \/ b.cond = "" \/ b.cond \in true

\* decide: a logpoint never stops.  A stop at no known breakpoint is shown.
Decide(p, true) ==
    LET plan == Plan(p)
    IN  plan = {} \/ \E b \in plan : Held(b, plan, true) /\ ~b.log

----------------------------------------------------------------------------
(***************************************************************************)
(* syncBreakpoints.                                                        *)
(***************************************************************************)
Set(t, call) == calls' = [calls EXCEPT ![t] = call]

\* A request's call after its change of the list: a sync, then "then".
Syncing(call, then) == [call EXCEPT !.pc = "sync", !.then = then]

\* Before the adapter is initialized, configure is going to send the list.
SyncSkip(t) ==
    /\ calls[t].pc = "sync"
    /\ ~initialized
    /\ Set(t, GoTo(calls[t], calls[t].then))
    /\ UNCHANGED <<sessionVars, syncMu, execMu, seq, adapterVars, boundVars>>

\* Mutant: syncMu is not taken.
SyncStartUnlocked(t) ==
    /\ calls[t].pc = "sync"
    /\ initialized
    /\ Set(t, [calls[t] EXCEPT !.pc = "send", !.slots = bps])
    /\ UNCHANGED <<sessionVars, syncMu, execMu, seq, adapterVars, boundVars>>

\* The lock, and the snapshot of the list under mu.
SyncStart(t) ==
    /\ calls[t].pc = "sync"
    /\ initialized
    /\ syncMu = None
    /\ syncMu' = t
    /\ Set(t, [calls[t] EXCEPT !.pc = "send", !.slots = bps])
    /\ UNCHANGED <<sessionVars, execMu, seq, adapterVars, boundVars>>

\* dap.Client.Do.
SyncSend(t) ==
    /\ calls[t].pc = "send"
    /\ seq' = seq + 1
    /\ inbox' = Append(inbox, [id |-> seq + 1, list |-> SlotsFor(calls[t].slots)])
    /\ Set(t, [calls[t] EXCEPT !.pc = "wait", !.id = seq + 1])
    /\ UNCHANGED <<sessionVars, syncMu, execMu, list, resolved, stream, boundVars>>

\* requestTimeout: the list may still reach the adapter.
SyncTimeout(t) ==
    /\ calls[t].pc = "wait" /\ calls[t].answer = "none"
    /\ timeouts + refusals < MaxFailures
    /\ timeouts' = timeouts + 1
    /\ Set(t, [calls[t] EXCEPT !.answer = "err"])
    /\ UNCHANGED <<sessionVars, syncMu, execMu, seq, adapterVars, refusals, late>>

\* applySlotsLocked: the adapter's answer, a set of resolved lines, on the
\* breakpoints the list was made of that are still there.
ApplySlots(slots, lines) ==
    bps' = {IF b.id \in IdsOf(slots)
            THEN [b EXCEPT !.adapterID = b.req, !.verified = b.req \in lines,
                           !.line = IF b.req \in lines THEN Place(b.req) ELSE b.req]
            ELSE b : b \in bps}

\* What an error of the sync leads to: a continue or run-until is given up (its
\* temporary breakpoint is removed first), other requests just return.
AfterError(c) == IF c.then \in {"place", "execute", "abort"} THEN "unplace" ELSE "done"

SyncEnd(t) ==
    LET c == calls[t]
    IN  /\ c.pc = "wait" /\ c.answer # "none"
        /\ syncMu' = IF syncMu = t THEN None ELSE syncMu
        /\ IF c.answer = "ok" THEN ApplySlots(c.slots, c.lines) ELSE UNCHANGED bps
        /\ Set(t, GoTo([c EXCEPT !.slots = {}, !.lines = {}, !.id = 0, !.answer = "none"],
                       IF c.answer = "ok" THEN c.then ELSE AfterError(c)))
        /\ UNCHANGED <<nextBP, running, initialized, execMu, seq, adapterVars, boundVars>>

\* dap.Client.deliver: the answer reaches the caller that still waits for it.
OnResponse(m) ==
    /\ calls' = [t \in Threads |->
                    IF calls[t].pc = "wait" /\ calls[t].id = m.id /\ calls[t].answer = "none"
                    THEN [calls[t] EXCEPT !.answer = IF m.ok THEN "ok" ELSE "err", !.lines = m.lines]
                    ELSE calls[t]]
    /\ UNCHANGED bps

\* updateBreakpointLocked.
OnBreakpoint(m) ==
    /\ bps' = {IF b.adapterID \in m.lines
               THEN [b EXCEPT !.verified = TRUE, !.line = Place(b.req)]
               ELSE b : b \in bps}
    /\ UNCHANGED calls

Deliver ==
    /\ stream # <<>>
    /\ LET m == Head(stream) IN IF m.msg = "response" THEN OnResponse(m) ELSE OnBreakpoint(m)
    /\ stream' = Tail(stream)
    /\ UNCHANGED <<nextBP, running, initialized, syncMu, execMu, seq, inbox, list, resolved, boundVars>>

----------------------------------------------------------------------------
(***************************************************************************)
(* Requests that change the list.                                          *)
(***************************************************************************)
May(t, kind) == calls[t] = Idle /\ kind \in Kinds

Begin(t, kind, c) == [Idle EXCEPT !.kind = kind, !.client = c]

\* AddBreakpoint.
AddBreakpoint(t, c, line, cond, log) ==
    /\ May(t, "add")
    /\ AddBreakpointLocked(c, line, cond, log)
    /\ Set(t, Syncing(Begin(t, "add", c), "done"))
    /\ UNCHANGED <<running, initialized, syncMu, execMu, seq, adapterVars, boundVars>>

\* ReplaceBreakpoints: the editor's list.
Replace(t, c, items) ==
    /\ May(t, "replace")
    /\ MatchLocked(c, items)
    /\ Set(t, Syncing(Begin(t, "replace", c), "done"))
    /\ UNCHANGED <<running, initialized, syncMu, execMu, seq, adapterVars, boundVars>>

\* removeBreakpoints: the list without gone, and a sync if that is less.
RemoveBreakpoints(t, gone, call, then) ==
    /\ bps' = bps \ gone
    /\ Set(t, IF gone # {} THEN Syncing(call, then) ELSE GoTo(call, then))
    /\ UNCHANGED <<nextBP, running, initialized, syncMu, seq, adapterVars, boundVars>>

\* RemoveBreakpoint of an id: found, and the owner checked ...
FindBreakpoint(t, c, b, force) ==
    /\ May(t, "remove")
    /\ b.owner = c \/ force
    /\ Set(t, [Begin(t, "remove", c) EXCEPT !.pc = "remove", !.temp = b.id])
    /\ UNCHANGED <<sessionVars, syncMu, execMu, seq, adapterVars, boundVars>>

\* ... then removed, if it is still there.
RemoveBreakpoint(t) ==
    /\ calls[t].pc = "remove"
    /\ RemoveBreakpoints(t, {b \in bps : b.id = calls[t].temp}, [calls[t] EXCEPT !.temp = 0], "done")
    /\ UNCHANGED execMu

\* RemoveBreakpoint of all of c's, or everyone's with force.
RemoveAll(t, c, force) ==
    /\ May(t, "remove")
    /\ RemoveBreakpoints(t, {b \in bps : force \/ b.owner = c}, Begin(t, "remove", c), "done")
    /\ UNCHANGED execMu

\* leave: c's last editor connection is gone.
Leave(t, c) ==
    /\ May(t, "leave")
    /\ RemoveBreakpoints(t, {b \in bps : b.owner = c /\ b.editor /\ ~b.temp}, Begin(t, "leave", c), "done")
    /\ UNCHANGED execMu

\* configurationPhase: the starter's breakpoints, then the whole list.
ConfigurationPhase ==
    /\ calls[Configure] = Idle
    /\ initialized
    /\ LET new  == {l \in StartSpecs : \A b \in bps : ~(b.owner = Starter /\ b.req = l)}
           old  == {b \in bps : b.owner = Starter /\ b.req \in StartSpecs}
           idOf(l) == nextBP + Cardinality({k \in new : k <= l})
       IN  /\ bps' = (bps \ old) \cup {[Update(b, "", FALSE) EXCEPT !.temp = FALSE] : b \in old}
                     \cup {NewBreakpoint(idOf(l), Starter, l, "", FALSE) : l \in new}
           /\ nextBP' = nextBP + Cardinality(new)
           /\ Set(Configure, IF bps' = {} THEN Ended(Begin(Configure, "configure", None))
                             ELSE Syncing(Begin(Configure, "configure", None), "done"))
    /\ UNCHANGED <<running, initialized, syncMu, execMu, seq, adapterVars, boundVars>>

----------------------------------------------------------------------------
(***************************************************************************)
(* Executions: execute, placeTarget, RunUntil.                             *)
(***************************************************************************)

\* Mutant: only the client's own temporary breakpoints are leftovers.
LeftoversOwn(c) == {b \in bps : b.temp /\ b.owner = c}

\* removeTemporary: every client's.
Leftovers(c) == {b \in bps : b.temp}

\* execute: a continue (line 0) or a run-until was admitted.
Execute(t, c, line, cond) ==
    /\ May(t, IF line = 0 THEN "continue" ELSE "runUntil")
    /\ execMu = None
    /\ ~running /\ initialized
    /\ execMu' = t
    /\ RemoveBreakpoints(t, Leftovers(c),
           [Begin(t, "execute", c) EXCEPT !.line = line, !.cond = cond],
           IF line = 0 THEN "execute" ELSE "place")

\* placeTarget: the client's own breakpoint there if it stops, else a new
\* temporary one.
PlaceTarget(t) ==
    LET c   == calls[t]
        own == {b \in bps : b.owner = c.client /\ b.req = c.line /\ ~b.log}
    IN  /\ c.pc = "place"
        /\ IF own # {}
           THEN Set(t, [c EXCEPT !.pc = "execute"]) /\ UNCHANGED <<bps, nextBP>>
           ELSE /\ nextBP' = nextBP + 1
                /\ bps' = bps \cup {[NewBreakpoint(nextBP + 1, c.client, c.line, c.cond, FALSE)
                                        EXCEPT !.temp = TRUE]}
                /\ Set(t, [Syncing(c, "execute") EXCEPT !.temp = nextBP + 1])
        /\ UNCHANGED <<running, initialized, syncMu, execMu, seq, adapterVars, boundVars>>

\* The program runs, or the adapter refused; execMu is let go.
ExecuteSend(t, ok) ==
    /\ calls[t].pc = "execute"
    /\ running' = ok
    /\ execMu' = IF ok THEN None ELSE execMu
    /\ Set(t, IF ok THEN [calls[t] EXCEPT !.pc = "running"] ELSE [calls[t] EXCEPT !.pc = "unplace"])
    /\ UNCHANGED <<bps, nextBP, initialized, syncMu, seq, adapterVars, boundVars>>

\* Mutant: run-until removes its breakpoint whatever became of it.
StillTemporaryAlways(temp) == {b \in bps : b.id = temp}

\* stillTemporary: run-until's own, unless its owner made it permanent.
StillTemporary(temp) == {b \in bps : b.id = temp /\ b.temp}

\* placeTarget or execute failed: the temporary breakpoint goes again.
Unplace(t) ==
    /\ calls[t].pc = "unplace"
    /\ RemoveBreakpoints(t, StillTemporary(calls[t].temp), [calls[t] EXCEPT !.temp = 0], "abort")
    /\ UNCHANGED execMu

Abort(t) ==
    /\ calls[t].pc = "abort"
    /\ execMu' = None
    /\ Set(t, Ended(calls[t]))
    /\ UNCHANGED <<sessionVars, syncMu, seq, adapterVars, boundVars>>

\* RunUntil's Wait saw the program stop or exit ...
RunUntilStopped(t) ==
    /\ calls[t].pc = "stopped"
    /\ RemoveBreakpoints(t, StillTemporary(calls[t].temp), [calls[t] EXCEPT !.temp = 0], "done")
    /\ UNCHANGED execMu

\* ... or gave up: its breakpoint stays until the next execution.
WaitTimeout(t) ==
    /\ calls[t].pc = "running"
    /\ Set(t, Ended(calls[t]))
    /\ UNCHANGED <<sessionVars, syncMu, execMu, seq, adapterVars, boundVars>>

----------------------------------------------------------------------------
(***************************************************************************)
(* The adapter and the program (external).                                 *)
(***************************************************************************)
AdapterInitialized ==
    /\ ~initialized
    /\ initialized' = TRUE
    /\ UNCHANGED <<bps, nextBP, running, threadVars, adapterVars, boundVars>>

\* It takes a list, and resolves some of its lines at once.
AdapterTakes ==
    /\ inbox # <<>>
    /\ inbox' = Tail(inbox)
    /\ LET m == Head(inbox)
       IN  \/ /\ list' = m.list
              /\ \E new \in SUBSET (DOMAIN m.list \ DOMAIN list) :
                    resolved' = (resolved \cap DOMAIN m.list) \cup new
              /\ stream' = Append(stream, [msg |-> "response", id |-> m.id, ok |-> TRUE, lines |-> resolved'])
              /\ UNCHANGED refusals
           \/ /\ timeouts + refusals < MaxFailures
              /\ refusals' = refusals + 1
              /\ stream' = Append(stream, [msg |-> "response", id |-> m.id, ok |-> FALSE, lines |-> {}])
              /\ UNCHANGED <<list, resolved>>
    /\ UNCHANGED <<sessionVars, threadVars, timeouts, late>>

\* A module was loaded: another line is resolved.
AdapterResolves(l) ==
    /\ l \in DOMAIN list \ resolved
    /\ late < MaxLate
    /\ late' = late + 1
    /\ resolved' = resolved \cup {l}
    /\ stream' = Append(stream, [msg |-> "breakpoint", id |-> 0, ok |-> TRUE, lines |-> {l}])
    /\ UNCHANGED <<sessionVars, threadVars, inbox, list, timeouts, refusals>>

ProgramStops ==
    /\ running
    /\ running' = FALSE
    /\ calls' = [t \in Threads |-> IF calls[t].pc = "running"
                                   THEN [calls[t] EXCEPT !.pc = "stopped"] ELSE calls[t]]
    /\ UNCHANGED <<bps, nextBP, initialized, syncMu, execMu, seq, adapterVars, boundVars>>

----------------------------------------------------------------------------
Init ==
    /\ bps = {} /\ nextBP = 0 /\ running = FALSE /\ initialized = FALSE
    /\ calls = [t \in Threads |-> Idle] /\ syncMu = None /\ execMu = None /\ seq = 0
    /\ inbox = <<>> /\ list = <<>> /\ resolved = {} /\ stream = <<>>
    /\ timeouts = 0 /\ refusals = 0 /\ late = 0

Request(t) ==
    \E c \in Clients :
        \/ \E spec \in Specs : AddBreakpoint(t, c, spec.line, spec.cond, spec.log)
        \/ \E items \in Lists : Replace(t, c, items)
        \/ \E b \in bps, force \in BOOLEAN : FindBreakpoint(t, c, b, force)
        \/ \E force \in BOOLEAN : RemoveAll(t, c, force)
        \/ Leave(t, c)
        \/ Execute(t, c, 0, "")
        \/ \E spec \in Specs : Execute(t, c, spec.line, spec.cond)

Proceed(t) ==
    \/ RemoveBreakpoint(t) \/ PlaceTarget(t) \/ Unplace(t) \/ Abort(t)
    \/ \E ok \in BOOLEAN : ExecuteSend(t, ok)
    \/ RunUntilStopped(t) \/ WaitTimeout(t)

Sync(t) == SyncSkip(t) \/ SyncStart(t) \/ SyncSend(t) \/ SyncTimeout(t) \/ SyncEnd(t)

Next ==
    \/ \E t \in Requests : Request(t) \/ Proceed(t)
    \/ \E t \in Threads : Sync(t)
    \/ ConfigurationPhase \/ Deliver
    \/ AdapterInitialized \/ AdapterTakes \/ (\E l \in Lines : AdapterResolves(l)) \/ ProgramStops

Spec == Init /\ [][Next]_vars

----------------------------------------------------------------------------
(***************************************************************************)
(* Properties.                                                             *)
(***************************************************************************)
Breakpoint == [id : Nat, owner : Clients, req : Lines, line : Lines, cond : Conds, log : BOOLEAN,
               temp : BOOLEAN, editor : BOOLEAN, verified : BOOLEAN, adapterID : Lines \cup {0}]
Pcs == {"idle", "sync", "send", "wait", "remove", "place", "execute", "running", "stopped",
        "unplace", "abort", "done"}

\* The variables' types; ids are unique, and given out once.
TypeOK ==
    /\ bps \subseteq Breakpoint
    /\ \A b, d \in bps : b.id = d.id => b = d
    /\ nextBP \in Nat /\ \A b \in bps : b.id \in 1 .. nextBP
    /\ running \in BOOLEAN /\ initialized \in BOOLEAN
    /\ \A t \in Threads : calls[t].pc \in Pcs /\ calls[t].then \in Pcs /\ calls[t].slots \subseteq Breakpoint
    /\ syncMu \in Threads \cup {None} /\ execMu \in Threads \cup {None}
    /\ DOMAIN list \subseteq Lines /\ resolved \subseteq DOMAIN list

\* Nothing is on its way between the session and the adapter.
Quiet ==
    /\ inbox = <<>> /\ stream = <<>> /\ calls[Configure].pc = "done"
    /\ \A t \in Threads : calls[t].pc \notin {"sync", "send", "wait"}

\* "The list the adapter keeps is always the newest one" (syncBreakpoints):
\* whatever requests overlap, and also when some gave up waiting for their
\* answer, the adapter ends up with the current breakpoints, unless it refused.
ListNewest == Quiet /\ refusals = 0 => list = SlotsFor(bps)

\* "A breakpoint as the adapter resolved it", its line "where the adapter placed
\* it" (api.Breakpoint): one that is shown as verified is resolved in the list
\* the adapter keeps then, and shown at its place, whatever answers and events
\* were overtaken or came after their request had given up (applySlotsLocked,
\* updateBreakpointLocked).
VerifiedResolved == \A b \in bps : b.verified => b.req \in resolved /\ b.line = Place(b.req)

\* Run-until's breakpoints "belong to the execution that placed them, which a
\* new one supersedes" (removeTemporary): there is never more than one.
OneTemporary == Cardinality({b \in bps : b.temp}) <= 1

\* The adapter stops at line p for the conditions that are true there.
AdapterStops(p, true) ==
    \E l \in resolved : Place(l) = p /\ (list[l] = "" \/ list[l] \in true)

\* Some breakpoint at line p is to stop.
Wanted(p, true) ==
    \E b \in bps : Place(b.req) = p /\ ~b.log /\ (b.cond = "" \/ b.cond \in true)

\* "Each owner's --if, --hit and --log apply on their own, and one's logpoint
\* never suppresses another's stop" (DESIGN.md): once the adapter resolved them,
\* the program is seen to stop at a line exactly when some breakpoint there
\* wants it, although the adapter has one condition per requested line and may
\* place several lines on one.
StopsWanted ==
    (Quiet /\ refusals = 0 /\ \A b \in bps : b.verified) =>
        \A p \in Lines, true \in SUBSET (Conds \ {""}) :
            (AdapterStops(p, true) /\ (NeedsFilter => Decide(p, true))) = Wanted(p, true)

\* What a session shows of its breakpoints is so, and the program is seen to
\* stop by it (VerifiedResolved, StopsWanted).
StopsExactly == VerifiedResolved /\ StopsWanted

\* A permanent breakpoint goes only by a removal somebody asked for (that only
\* its owner may, unless forced, is FindBreakpoint's guard), or, if its owner's
\* editor set it, by that editor's list or its leaving; never by an execution's
\* cleanup of temporary ones, even if it was one of those when the cleanup
\* began.
PermanentStep ==
    \A b \in bps : (~b.temp /\ b.id \notin IdsOf(bps')) =>
        \E t \in Requests :
            /\ calls'[t] # calls[t]
            /\ \/ calls'[t].kind = "remove"
               \/ calls'[t].kind \in {"replace", "leave"} /\ calls'[t].client = b.owner /\ b.editor

PermanentKept == [][PermanentStep]_vars

\* Temporary breakpoints come one at a time, and their cleanup takes nothing
\* else (removeTemporary, RunUntil).
TemporaryOnly == []OneTemporary /\ PermanentKept

\* The session shows a breakpoint as the adapter has it: an event that tells of
\* "a pending breakpoint that resolved once the module loaded" reaches "every
\* breakpoint of that adapter id" (updateBreakpointLocked).
ResolutionShows ==
    Quiet /\ timeouts = 0 /\ refusals = 0 => \A b \in bps : b.verified = (b.req \in resolved)
=============================================================================
