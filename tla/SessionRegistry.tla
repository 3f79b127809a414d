-------------------------- MODULE SessionRegistry --------------------------
(***************************************************************************)
(* The daemon's sessions: the manager's map, claims on container processes *)
(* and persisted metadata (internal/session/manager.go, claims.go,         *)
(* internal/daemon/store.go), and the daemon's life: orderly stop, crash   *)
(* and restart (internal/daemon/server.go).  The count of live sessions    *)
(* that every change of the map reports, and the idle timeout it feeds,    *)
(* are IdleWatch's subject.                                                *)
(*                                                                         *)
(* A start, a stop or detach request, a session's watcher and a StopAll    *)
(* are each a thread.  What a thread does under Manager.mu is one action,  *)
(* and so is each of its calls that takes no such lock (ending a session,  *)
(* removing a file); between two of them any other thread may run.         *)
(*                                                                         *)
(* A session is what one start request makes.  Its id, at most four        *)
(* characters, may have been another session's before.  How a session ends *)
(* is SessionExec's subject: here it is one step.  Test runs with a        *)
(* runner, whose sessions are shared before their adapter starts, are not  *)
(* part of this module.                                                    *)
(***************************************************************************)
EXTENDS Naturals, FiniteSets

CONSTANTS
    Sessions,     \* the starts: each makes at most one session
    Ids,          \* session ids newID can draw
    Pids,         \* processes of the container
    Targets,      \* what starts ask to debug: processes or the app of the
                  \* container, or something else
    Calls,        \* bound: stop and detach requests
    None,         \* no session, no id
    Reuse,        \* may an id be drawn a second time?
    MaxRestarts   \* bound: daemons after the first one

ASSUME RegistryAssumption ==
    /\ None \notin Sessions \cup Ids \cup Calls
    /\ Targets \subseteq Pids \cup {"launch", "host"} /\ Pids \cap {"launch", "host"} = {}
    /\ Reuse \in BOOLEAN
    /\ MaxRestarts \in Nat

VARIABLES
    \* Manager, under mu
    sessions,  \* Manager.sessions: id -> session
    lost,      \* ids in Manager.lost
    claims,    \* Manager.claims of the container: key -> session
    \* Session
    id,        \* Session.ID
    target,    \* what the start asks to debug: a claim key, or "host"
    exited,    \* Session.state = exited
    attached,  \* its adapter holds the debuggee
    \* the store
    disk,      \* metadata files: id -> the session it describes
    \* threads
    pc,        \* where each thread is
    found,     \* claims a start found in its way
    call,      \* what each request is about: its kind, session and id
    left,      \* sessions each StopAll has still to end
    \* the daemon
    daemon,    \* "up", "canceled" (the server's context), "down" or "crashed"
    restarts   \* daemons started after the first one

managerVars == <<sessions, lost, claims>>
sessionVars == <<id, target, exited, attached>>
threadVars  == <<found, call, left>>
daemonVars  == <<daemon, restarts>>
vars == <<managerVars, sessionVars, disk, pc, threadVars, daemonVars>>

Keys == Pids \cup {"launch"}

NoCall == [kind |-> "none", session |-> None, id |-> None]

Start(s) == [kind |-> "start", of |-> s]
Watch(s) == [kind |-> "watch", of |-> s]
Call(c)  == [kind |-> "call", of |-> c]

\* Requests, and Serve's own StopAll as the last one.
Callers == Calls \cup {None}
Serve   == Call(None)
Threads == {Start(s) : s \in Sessions} \cup {Watch(s) : s \in Sessions}
           \cup {Call(c) : c \in Callers}

\* The process runs; requests that came before the context was canceled are
\* still being handled then.
Alive == daemon \in {"up", "canceled"}

Goto(t, where) == pc' = [pc EXCEPT ![t] = where]
Mapped(s) == id[s] \in Ids /\ sessions[id[s]] = s

----------------------------------------------------------------------------
(***************************************************************************)
(* Steps several threads share.                                            *)
(***************************************************************************)

\* terminate, or the end of the program or of the adapter.
EndSession(s) ==
    /\ exited' = [exited EXCEPT ![s] = TRUE]
    /\ attached' = [attached EXCEPT ![s] = FALSE]

\* release.
Release(s) == claims' = [k \in Keys |-> IF claims[k] = s /\ target[s] = k THEN None ELSE claims[k]]

\* remove: by id, whichever session that names.
Unmap(i) == sessions' = [sessions EXCEPT ![i] = None]

\* The store's Save: the file is replaced in one step, whoever it described.
StoreSave(s) == [disk EXCEPT ![id[s]] = s]

\* The store's Lost: every file that can be read names a session.
StoreLost == {i \in Ids : disk[i] # None}

\* Mutant: the save does not look whether the session is still mapped.
SaveIfLiveAlways(s) == disk' = StoreSave(s)

\* Mutant: only a session that ended is saved.
SaveIfLiveAtEnd(s) ==
    disk' = IF Mapped(s) /\ exited[s] THEN StoreSave(s) ELSE disk

\* saveIfLive: map and file change under one lock.
SaveIfLive(s) == disk' = IF Mapped(s) THEN StoreSave(s) ELSE disk

\* forget.
RemoveFile(i) == disk' = [disk EXCEPT ![i] = None]

----------------------------------------------------------------------------
(***************************************************************************)
(* A start: create, claim, run, fail.                                      *)
(***************************************************************************)

\* newID draws an id no mapped or lost session has, and reserves nothing; a
\* session that exited long ago may have had it.
NewID(i) ==
    /\ sessions[i] = None /\ i \notin lost
    /\ Reuse \/ \A r \in Sessions : id[r] # i

\* Start: only what runs in a container is claimed.
Claiming(k) == k # "host"

\* create.
Create(s, i, k) ==
    /\ Alive
    /\ pc[Start(s)] = "idle" /\ id[s] = None
    /\ NewID(i)
    /\ id' = [id EXCEPT ![s] = i]
    /\ target' = [target EXCEPT ![s] = k]
    /\ Goto(Start(s), IF Claiming(k) THEN "claim" ELSE "adapter")
    /\ UNCHANGED <<managerVars, exited, attached, disk, threadVars, daemonVars>>

\* Mutant: a launch's claim only keeps out other launches.
ConflictsSameKey(k, other) == k = other

\* The claims of the container a claim with key k conflicts with.
Conflicts(k, other) == k = other \/ "launch" \in {k, other}

\* Mutant: every claim is recorded for the whole container.
ClaimWhole(s) ==
    /\ pc[Start(s)] = "claim"
    /\ {k \in Keys : claims[k] # None} = {}
    /\ claims' = [claims EXCEPT !["launch"] = s]
    /\ Goto(Start(s), "adapter")
    /\ UNCHANGED <<sessions, lost, sessionVars, disk, threadVars, daemonVars>>

\* take, its section under mu: no conflicting claim, or those in the way.
Claim(s) ==
    /\ pc[Start(s)] = "claim"
    /\ LET taken == {k \in Keys : claims[k] # None /\ Conflicts(target[s], k)}
       IN  IF taken = {}
           THEN /\ claims' = [claims EXCEPT ![target[s]] = s]
                /\ Goto(Start(s), "adapter")
                /\ UNCHANGED found
           ELSE /\ found' = [found EXCEPT ![s] = {<<k, claims[k]>> : k \in taken}]
                /\ Goto(Start(s), "claimed")
                /\ UNCHANGED claims
    /\ UNCHANGED <<sessions, lost, sessionVars, disk, call, left, daemonVars>>

\* take: refused by a live holder; the claims of holders that all ended are
\* dropped, unless they changed hands meanwhile, and it tries again.
ClaimFound(s) ==
    /\ pc[Start(s)] = "claimed"
    /\ IF \E f \in found[s] : ~exited[f[2]]
       THEN Goto(Start(s), "done") /\ UNCHANGED claims
       ELSE /\ claims' = [k \in Keys |-> IF <<k, claims[k]>> \in found[s] THEN None ELSE claims[k]]
            /\ Goto(Start(s), "claim")
    /\ found' = [found EXCEPT ![s] = {}]
    /\ UNCHANGED <<sessions, lost, sessionVars, disk, call, left, daemonVars>>

\* startAdapter: the adapter runs, or it failed and the claim is given back.
StartAdapter(s) ==
    /\ pc[Start(s)] = "adapter"
    /\ \/ attached' = [attached EXCEPT ![s] = TRUE] /\ Goto(Start(s), "add")
       \/ Goto(Start(s), "release") /\ UNCHANGED attached
    /\ UNCHANGED <<managerVars, id, target, exited, disk, threadVars, daemonVars>>

\* run: the session is shared now, unless it ended already.
Add(s) ==
    /\ pc[Start(s)] = "add"
    /\ IF exited[s]
       THEN Goto(Start(s), "fail") /\ UNCHANGED sessions
       ELSE sessions' = [sessions EXCEPT ![id[s]] = s] /\ Goto(Start(s), "save")
    /\ UNCHANGED <<lost, claims, sessionVars, disk, threadVars, daemonVars>>

Save(s) ==
    /\ pc[Start(s)] = "save"
    /\ SaveIfLive(s)
    /\ Goto(Start(s), "configure")
    /\ UNCHANGED <<managerVars, sessionVars, threadVars, daemonVars>>

\* Mutant: a canceled request's start goes on.
ConfigureRegardless(s) ==
    /\ pc[Start(s)] = "configure"
    /\ pc' = [pc EXCEPT ![Start(s)] = "done", ![Watch(s)] = "waiting"]
    /\ UNCHANGED <<managerVars, sessionVars, disk, threadVars, daemonVars>>

\* configure: it may fail whatever the adapter does, and always does once the
\* request's context is canceled.
Configure(s) ==
    /\ pc[Start(s)] = "configure"
    /\ \/ /\ daemon = "up"
          /\ pc' = [pc EXCEPT ![Start(s)] = "done", ![Watch(s)] = "waiting"]
       \/ Goto(Start(s), "fail")
    /\ UNCHANGED <<managerVars, sessionVars, disk, threadVars, daemonVars>>

\* fail: terminate, remove, forget; then the claim is given back.
Fail(s) ==
    /\ pc[Start(s)] = "fail"
    /\ EndSession(s)
    /\ Goto(Start(s), "failRemove")
    /\ UNCHANGED <<managerVars, id, target, disk, threadVars, daemonVars>>

FailRemove(s) ==
    /\ pc[Start(s)] = "failRemove"
    /\ Unmap(id[s])
    /\ Goto(Start(s), "forget")
    /\ UNCHANGED <<lost, claims, sessionVars, disk, threadVars, daemonVars>>

FailForget(s) ==
    /\ pc[Start(s)] = "forget"
    /\ RemoveFile(id[s])
    /\ Goto(Start(s), "release")
    /\ UNCHANGED <<managerVars, sessionVars, threadVars, daemonVars>>

StartRelease(s) ==
    /\ pc[Start(s)] = "release"
    /\ Release(s)
    /\ Goto(Start(s), "done")
    /\ UNCHANGED <<sessions, lost, sessionVars, disk, threadVars, daemonVars>>

----------------------------------------------------------------------------
(***************************************************************************)
(* A session's end on its own, and its watcher.                            *)
(***************************************************************************)
SessionEnds(s) ==
    /\ Alive
    /\ attached[s]
    /\ EndSession(s)
    /\ UNCHANGED <<managerVars, id, target, disk, pc, threadVars, daemonVars>>

\* watch.
WatchRelease(s) ==
    /\ pc[Watch(s)] = "waiting"
    /\ exited[s]
    /\ Release(s)
    /\ Goto(Watch(s), "save")
    /\ UNCHANGED <<sessions, lost, sessionVars, disk, threadVars, daemonVars>>

WatchSave(s) ==
    /\ pc[Watch(s)] = "save"
    /\ SaveIfLive(s)
    /\ Goto(Watch(s), "done")
    /\ UNCHANGED <<managerVars, sessionVars, threadVars, daemonVars>>

----------------------------------------------------------------------------
(***************************************************************************)
(* Stop and Detach requests, for a session the client's lease covers, and  *)
(* StopAll.                                                                *)
(***************************************************************************)
Begin(c, kind, s, i, where) ==
    /\ Alive
    /\ pc[Call(c)] = "idle"
    /\ call' = [call EXCEPT ![c] = [kind |-> kind, session |-> s, id |-> i]]
    /\ Goto(Call(c), where)

\* The request is answered.
Return(c) ==
    /\ call' = [call EXCEPT ![c] = NoCall]
    /\ Goto(Call(c), "done")

\* Stop of a lost session: it leaves the list, then its file goes.
StopLost(c, i) ==
    /\ i \in lost
    /\ lost' = lost \ {i}
    /\ Begin(c, "lost", None, i, "forget")
    /\ UNCHANGED <<sessions, claims, sessionVars, disk, found, left, daemonVars>>

\* Detach: only an attached session.
Detachable(s) == target[s] # "launch"

\* Get: the session the id names now.
Request(c, kind, i) ==
    /\ i \notin lost /\ sessions[i] # None
    /\ kind = "detach" => Detachable(sessions[i])
    /\ Begin(c, kind, sessions[i], i, "end")
    /\ UNCHANGED <<managerVars, sessionVars, disk, found, left, daemonVars>>

\* Terminate (StopAll: terminate).
CallEnds(c) ==
    /\ pc[Call(c)] = "end"
    /\ EndSession(call[c].session)
    /\ Goto(Call(c), "release")
    /\ UNCHANGED <<managerVars, id, target, disk, threadVars, daemonVars>>

CallReleases(c) ==
    /\ pc[Call(c)] = "release"
    /\ Release(call[c].session)
    /\ Goto(Call(c), IF call[c].kind = "stopAll" THEN "forget" ELSE "remove")
    /\ UNCHANGED <<sessions, lost, sessionVars, disk, threadVars, daemonVars>>

\* stop removes the session if its id still names it (removeSession) and then
\* forgets it; Detach removes and forgets whatever the id names.
CallRemoves(c) ==
    /\ pc[Call(c)] = "remove"
    /\ IF call[c].kind = "detach" \/ Mapped(call[c].session)
       THEN Unmap(call[c].id) /\ Goto(Call(c), "forget") /\ UNCHANGED call
       ELSE Return(c) /\ UNCHANGED sessions
    /\ UNCHANGED <<lost, claims, sessionVars, disk, found, left, daemonVars>>

CallForgets(c) ==
    /\ pc[Call(c)] = "forget"
    /\ RemoveFile(call[c].id)
    /\ IF call[c].kind = "stopAll"
       THEN Goto(Call(c), "each") /\ UNCHANGED call
       ELSE Return(c)
    /\ UNCHANGED <<managerVars, sessionVars, found, left, daemonVars>>

\* Mutant: the map is cleared before the list is made.
StopAllClearsFirst(c) ==
    /\ pc[Call(c)] = "stopAll"
    /\ sessions' = [i \in Ids |-> None]
    /\ Goto(Call(c), "each")
    /\ UNCHANGED <<lost, claims, sessionVars, disk, threadVars, daemonVars>>

\* StopAll: every session is unmapped at once, then ended one by one.
StopAll(c) ==
    /\ pc[Call(c)] = "stopAll"
    /\ left' = [left EXCEPT ![c] = {s \in Sessions : Mapped(s)}]
    /\ sessions' = [i \in Ids |-> None]
    /\ Goto(Call(c), "each")
    /\ UNCHANGED <<lost, claims, sessionVars, disk, found, call, daemonVars>>

StopAllNext(c, s) ==
    /\ pc[Call(c)] = "each"
    /\ s \in left[c]
    /\ left' = [left EXCEPT ![c] = @ \ {s}]
    /\ call' = [call EXCEPT ![c] = [kind |-> "stopAll", session |-> s, id |-> id[s]]]
    /\ Goto(Call(c), "end")
    /\ UNCHANGED <<managerVars, sessionVars, disk, found, daemonVars>>

----------------------------------------------------------------------------
(***************************************************************************)
(* The daemon.                                                             *)
(***************************************************************************)

\* daemon.stop, when no session is live or it is forced.
DaemonStop(c) ==
    /\ Begin(c, "stopAll", None, None, "stopAll")
    /\ UNCHANGED <<managerVars, sessionVars, disk, found, left, daemonVars>>

\* The server's context is canceled: no connection is served any more, and
\* Serve runs StopAll itself.
Cancel ==
    /\ daemon = "up"
    /\ daemon' = "canceled"
    /\ call' = [call EXCEPT ![None].kind = "stopAll"]
    /\ UNCHANGED <<managerVars, sessionVars, disk, found, left, restarts>>

\* daemon.stop's StopAll is over, it was answered and the daemon stops.
DaemonStopped(c) ==
    /\ pc[Call(c)] = "each" /\ left[c] = {}
    /\ IF daemon = "up"
       THEN Cancel /\ pc' = [pc EXCEPT ![Call(c)] = "done", ![Serve] = "stopAll"]
       ELSE Return(c) /\ UNCHANGED <<managerVars, sessionVars, disk, found, left, daemonVars>>

\* The idle timeout, a signal, or watchSocket found the socket gone.
Interrupt == Cancel /\ Goto(Serve, "stopAll")

\* Serve's StopAll is over, and every request has returned (wg.Wait).
Drained ==
    /\ daemon = "canceled"
    /\ pc[Serve] = "each" /\ left[None] = {}
    /\ \A t \in Threads \ {Serve} : t.kind # "watch" => pc[t] \in {"idle", "done"}

\* The process ends: nothing but the files is left.
ProcessEnds ==
    /\ sessions' = [i \in Ids |-> None]
    /\ lost' = {}
    /\ claims' = [k \in Keys |-> None]
    /\ attached' = [s \in Sessions |-> FALSE]
    /\ exited' = [s \in Sessions |-> id[s] # None]
    /\ pc' = [t \in Threads |-> IF t # Serve /\ pc[t] # "idle" THEN "done" ELSE "idle"]
    /\ found' = [s \in Sessions |-> {}]
    /\ left' = [c \in Callers |-> {}]
    /\ call' = [c \in Callers |-> NoCall]
    /\ UNCHANGED <<id, target, disk>>

Exit == Drained /\ ProcessEnds /\ daemon' = "down" /\ UNCHANGED restarts

Crash ==
    /\ Alive
    /\ daemon' = "crashed"
    /\ ProcessEnds
    /\ UNCHANGED restarts

\* Serve, NewManager: what the earlier daemons left on disk is lost.
Restart ==
    /\ ~Alive
    /\ restarts < MaxRestarts
    /\ restarts' = restarts + 1
    /\ daemon' = "up"
    /\ lost' = StoreLost
    /\ UNCHANGED <<sessions, claims, sessionVars, disk, pc, threadVars>>

----------------------------------------------------------------------------
Init ==
    /\ sessions = [i \in Ids |-> None]
    /\ lost = {}
    /\ claims = [k \in Keys |-> None]
    /\ id = [s \in Sessions |-> None]
    /\ target = [s \in Sessions |-> "host"]
    /\ exited = [s \in Sessions |-> FALSE]
    /\ attached = [s \in Sessions |-> FALSE]
    /\ disk = [i \in Ids |-> None]
    /\ pc = [t \in Threads |-> "idle"]
    /\ found = [s \in Sessions |-> {}]
    /\ call = [c \in Callers |-> NoCall]
    /\ left = [c \in Callers |-> {}]
    /\ daemon = "up" /\ restarts = 0

StartStep(s) ==
    \/ \E i \in Ids, k \in Targets : Create(s, i, k)
    \/ Claim(s) \/ ClaimFound(s) \/ StartAdapter(s) \/ Add(s) \/ Save(s) \/ Configure(s)
    \/ Fail(s) \/ FailRemove(s) \/ FailForget(s) \/ StartRelease(s)
    \/ SessionEnds(s) \/ WatchRelease(s) \/ WatchSave(s)

CallStep(c) ==
    \/ CallEnds(c) \/ CallReleases(c) \/ CallRemoves(c) \/ CallForgets(c)
    \/ StopAll(c) \/ (\E s \in Sessions : StopAllNext(c, s))

RequestStep(c) ==
    \/ \E i \in Ids : StopLost(c, i) \/ \E kind \in {"stop", "detach"} : Request(c, kind, i)
    \/ DaemonStop(c)
    \/ DaemonStopped(c)

Next ==
    \/ \E s \in Sessions : StartStep(s)
    \/ \E c \in Callers : CallStep(c)
    \/ \E c \in Calls : RequestStep(c)
    \/ Interrupt \/ Exit \/ Crash \/ Restart

Spec == Init /\ [][Next]_vars

----------------------------------------------------------------------------
(***************************************************************************)
(* Properties.                                                             *)
(***************************************************************************)
Pcs == {"idle", "claim", "claimed", "adapter", "add", "save", "configure",
        "fail", "failRemove", "forget", "release", "waiting",
        "end", "remove", "stopAll", "each", "done"}

\* The variables' types; a claim is on the key its session's start asked for.
TypeOK ==
    /\ sessions \in [Ids -> Sessions \cup {None}]
    /\ lost \subseteq Ids
    /\ \A k \in Keys : claims[k] # None => claims[k] \in Sessions /\ target[claims[k]] = k
    /\ id \in [Sessions -> Ids \cup {None}]
    /\ target \in [Sessions -> Keys \cup {"host"}]
    /\ exited \in [Sessions -> BOOLEAN] /\ attached \in [Sessions -> BOOLEAN]
    /\ disk \in [Ids -> Sessions \cup {None}]
    /\ pc \in [Threads -> Pcs]
    /\ found \in [Sessions -> SUBSET (Keys \X Sessions)]
    /\ call \in [Callers -> [kind : {"none", "lost", "stop", "detach", "stopAll"},
                             session : Sessions \cup {None}, id : Ids \cup {None}]]
    /\ left \in [Callers -> SUBSET Sessions]
    /\ daemon \in {"up", "canceled", "down", "crashed"}
    /\ restarts \in Nat

\* "Two sessions never fight over one debuggee, even when they start at the
\* same moment" (claims.go): no two sessions hold the same container process,
\* nor one it and the other the container's launched app, whatever claims
\* ended holders left behind, were taken over or given back late.
OneDebugger ==
    \A s, r \in Sessions :
        (s # r /\ attached[s] /\ attached[r] /\ {target[s], target[r]} \subseteq Keys)
        => ~(target[s] = target[r] \/ "launch" \in {target[s], target[r]})

\* Metadata of a session that left the map is on its way out: "a late save
\* can't bring back the metadata of a stopped session" (saveIfLive), whichever
\* of its watcher, a stop, a failed start and StopAll comes last.
NoRevivedMetadata ==
    \A i \in Ids :
        disk[i] # None =>
            \/ sessions[i] = disk[i] \/ i \in lost \/ ~Alive
            \/ \E s \in Sessions :
                  /\ id[s] = i
                  /\ pc[Start(s)] = "forget"
            \/ \E c \in Callers :
                  \/ call[c].id = i /\ pc[Call(c)] \in {"end", "release", "remove", "forget"}
                  \/ \E s \in left[c] : id[s] = i

\* A session whose start returned.
Running(s) == pc[Watch(s)] = "waiting" /\ ~exited[s]

\* A running session is in the map, where clients find it and StopAll ends it,
\* until something is ending it.
RunningIsMapped ==
    \A s \in Sessions : Running(s) =>
        \/ Mapped(s)
        \/ \E c \in Callers : s \in left[c] \/ (call[c].session = s /\ pc[Call(c)] = "end")

\* A crash loses nothing silently: the metadata of every running session is on
\* disk before its start returns and until something ends it, so the next
\* daemon lists it as lost.
CrashShows ==
    \A s \in Sessions : Running(s) /\ Mapped(s) => disk[id[s]] = s

\* "The metadata left there at start belongs to sessions a crashed daemon lost"
\* (store.go): an orderly exit, also one that starts, stops and ends of
\* sessions run into, leaves no adapter and no metadata but that of sessions
\* lost before.
CleanExit ==
    Drained => /\ \A s \in Sessions : ~attached[s]
               /\ \A i \in Ids : disk[i] # None => i \in lost

\* Every session is accounted for: while it runs clients find it in the map,
\* after a crash its file names it, and an orderly exit leaves none that the
\* next daemon would list as lost without reason.
SessionsAccounted == RunningIsMapped /\ CrashShows /\ CleanExit
=============================================================================
