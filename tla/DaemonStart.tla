---------------------------- MODULE DaemonStart ----------------------------
(***************************************************************************)
(* How clients find, start and replace the daemon (internal/daemon:        *)
(* start.go, client.go, Serve and listen of server.go, lockFile), over the *)
(* three files they share: the lock, the token and the socket.             *)
(*                                                                         *)
(* A step is one system call on those files, one message of the handshake, *)
(* or a daemon's own decision to stop.  A daemon may crash, which frees    *)
(* its lock and leaves its files behind; the runtime directory may be      *)
(* removed under everybody (systemd, at the user's last logout), and the   *)
(* next to prepare it makes another lock file.                             *)
(***************************************************************************)
EXTENDS Naturals, FiniteSets

CONSTANTS
    Clients,     \* the commands that call Connect
    Info,        \* the build of each, which is also that of the eyedbgd it starts
    NoAutostart, \* the clients with EYEDBG_NO_AUTOSTART=1
    MaxDaemons,  \* bound: the daemon processes that are ever started
    MaxStops,    \* bound: daemons that stop or crash on their own
    MaxWipes,    \* bound: removals of the runtime directory
    None

ASSUME DaemonStartAssumption ==
    /\ None \notin Clients /\ (Clients \cup {None}) \cap Nat = {} /\ NoAutostart \subseteq Clients
    /\ MaxDaemons \in Nat /\ MaxStops \in Nat /\ MaxWipes \in Nat

Daemons == 1 .. MaxDaemons

VARIABLES
    lock,    \* per lock file ever made: who holds it
    token,   \* the token file: the daemon that wrote it
    socket,  \* the socket file: the daemon that bound it
    daemon,  \* each daemon process
    client,  \* each client
    gen,     \* the lock file at the path, or the one made there next
    dir,     \* is the runtime directory there
    stops    \* history: daemons that stopped or crashed, and were stopped

vars == <<lock, token, socket, daemon, client, gen, dir, stops>>

\* Processes that are no more, and those that do not listen yet.
Gone == {"exited", "crashed"}
Starting == {"born", "locked", "bare", "named"}
Alive(d) == daemon[d].pc \notin Gone \cup {"unborn"}
Serving(d) == daemon[d].pc = "serving"

NewDaemon == [pc |-> "unborn", build |-> None, file |-> 0, sessions |-> 0]
NewClient == [pc |-> "read", polling |-> FALSE, token |-> None, conn |-> None,
              spawned |-> None, exited |-> FALSE, late |-> FALSE]

SetD(d, pc) == daemon' = [daemon EXCEPT ![d].pc = pc]
SetC(c, pc) == client' = [client EXCEPT ![c].pc = pc]

----------------------------------------------------------------------------
(***************************************************************************)
(* Serve.                                                                  *)
(***************************************************************************)

\* Mutant: a daemon that finds the lock taken waits for it.
LockWaits(d) ==
    /\ daemon[d].pc = "born" /\ lock[gen] = None
    /\ lock' = [lock EXCEPT ![gen] = d]
    /\ daemon' = [daemon EXCEPT ![d].pc = "locked", ![d].file = gen]
    /\ dir' = TRUE
    /\ UNCHANGED <<token, socket, client, gen, stops>>

\* Prepare and lockFile: a daemon that finds the lock taken exits.
Lock(d) ==
    /\ daemon[d].pc = "born"
    /\ IF lock[gen] = None
       THEN /\ lock' = [lock EXCEPT ![gen] = d]
            /\ daemon' = [daemon EXCEPT ![d].pc = "locked", ![d].file = gen]
       ELSE SetD(d, "exited") /\ UNCHANGED lock
    /\ dir' = TRUE
    /\ UNCHANGED <<token, socket, client, gen, stops>>

\* listen: the socket file found is stale ...
RemoveStale(d) ==
    /\ daemon[d].pc = "locked"
    /\ socket' = None
    /\ SetD(d, "bare")
    /\ UNCHANGED <<lock, token, client, gen, dir, stops>>

\* An error of listen: Serve returns, and the lock goes.
ListenFails(d) ==
    /\ lock' = [lock EXCEPT ![daemon[d].file] = None]
    /\ SetD(d, "exited")
    /\ UNCHANGED <<token, socket>>

\* ... a fresh token is published ...
WriteToken(d) ==
    /\ daemon[d].pc = "bare"
    /\ IF dir THEN token' = d /\ SetD(d, "named") /\ UNCHANGED <<lock, socket>>
              ELSE ListenFails(d)
    /\ UNCHANGED <<client, gen, dir, stops>>

\* ... and the socket opened: an error when there is one again.
Listen(d) ==
    /\ daemon[d].pc = "named"
    /\ IF dir /\ socket = None
       THEN socket' = d /\ SetD(d, "serving") /\ UNCHANGED <<lock, token>>
       ELSE ListenFails(d)
    /\ UNCHANGED <<client, gen, dir, stops>>

\* The idle timeout, a signal, or watchSocket, which only asks whether there
\* is a socket file.
Shutdown(d) ==
    /\ Serving(d)
    /\ \/ stops < MaxStops /\ stops' = stops + 1
       \/ socket = None /\ UNCHANGED stops
    /\ SetD(d, "closing")
    /\ UNCHANGED <<lock, token, socket, client, gen, dir>>

\* The listener closes, which removes the socket file at its path, then the
\* connections, then the sessions are stopped.
CloseListener(d) ==
    /\ daemon[d].pc = "closing"
    /\ socket' = None
    /\ daemon' = [daemon EXCEPT ![d].pc = "closed", ![d].sessions = 0]
    /\ UNCHANGED <<lock, token, client, gen, dir, stops>>

\* Mutant: the lock is released before the files are removed.
ReleaseFirst(d) ==
    /\ \/ daemon[d].pc = "closed" /\ SetD(d, "unlocked")
          /\ lock' = [lock EXCEPT ![daemon[d].file] = None]
          /\ UNCHANGED <<token, socket>>
       \/ daemon[d].pc = "unlocked" /\ token' = None /\ socket' = None
          /\ SetD(d, "exited") /\ UNCHANGED lock
    /\ UNCHANGED <<client, gen, dir, stops>>

\* The deferred calls of Serve, last first: token, socket, lock.
Release(d) ==
    /\ \/ daemon[d].pc = "closed" /\ SetD(d, "untokened")
          /\ token' = None /\ UNCHANGED <<lock, socket>>
       \/ daemon[d].pc = "untokened" /\ SetD(d, "unlinked")
          /\ socket' = None /\ UNCHANGED <<lock, token>>
       \/ daemon[d].pc = "unlinked" /\ SetD(d, "exited")
          /\ lock' = [lock EXCEPT ![daemon[d].file] = None]
          /\ UNCHANGED <<token, socket>>
    /\ UNCHANGED <<client, gen, dir, stops>>

\* The process is killed: the kernel frees its lock, its files stay.
Crash(d) ==
    /\ Alive(d) /\ daemon[d].pc # "born" /\ stops < MaxStops
    /\ stops' = stops + 1
    /\ SetD(d, "crashed")
    /\ lock' = [g \in DOMAIN lock |-> IF lock[g] = d THEN None ELSE lock[g]]
    /\ UNCHANGED <<token, socket, client, gen, dir>>

\* A connected client starts a session.
SessionStarts(d) ==
    /\ Serving(d) /\ daemon[d].sessions = 0
    /\ \E c \in Clients : client[c].pc = "connected" /\ client[c].conn = d
    /\ daemon' = [daemon EXCEPT ![d].sessions = 1]
    /\ UNCHANGED <<lock, token, socket, client, gen, dir, stops>>

\* The runtime directory is removed, with everything in it.
Wipe ==
    /\ gen < MaxWipes
    /\ gen' = gen + 1 /\ dir' = FALSE
    /\ token' = None /\ socket' = None
    /\ UNCHANGED <<lock, daemon, client, stops>>

----------------------------------------------------------------------------
(***************************************************************************)
(* Connect: Dial, replaceStale, start.                                     *)
(***************************************************************************)

\* A Dial that found no daemon: the first one leads to start, the others
\* are polls.
NotRunning(c) ==
    SetC(c, IF client[c].polling THEN "wait"
            ELSE IF c \in NoAutostart THEN "not_running" ELSE "spawn")

\* Dial: the token is read ...
ReadToken(c) ==
    /\ client[c].pc = "read"
    /\ IF token = None THEN NotRunning(c)
       ELSE client' = [client EXCEPT ![c].pc = "dial", ![c].token = token]
    /\ UNCHANGED <<lock, token, socket, daemon, gen, dir, stops>>

\* ... the socket dialled: refused when nobody listens behind it ...
DialSocket(c) ==
    /\ client[c].pc = "dial"
    /\ IF socket # None /\ daemon[socket].pc \in {"serving", "closing"}
       THEN client' = [client EXCEPT ![c].pc = "hello", ![c].conn = socket]
       ELSE NotRunning(c)
    /\ UNCHANGED <<lock, token, socket, daemon, gen, dir, stops>>

Compatible(c, d) == Info[c] = daemon[d].build

\* Mutant: the daemon that lost the race is not waited for.
HelloPolledAtOnce(c, d) ==
    SetC(c, IF Compatible(c, d) THEN "connected" ELSE "mismatch")

\* hello answered while polling: a daemon of another process won the race.
HelloPolled(c, d) ==
    SetC(c, IF client[c].spawned # d /\ ~client[c].exited THEN "loser"
            ELSE IF Compatible(c, d) THEN "connected" ELSE "mismatch")

\* hello answered to the first Dial: replaceStale looks at the sessions.
HelloFirst(c, d) ==
    SetC(c, IF Compatible(c, d) THEN "connected"
            ELSE IF daemon[d].sessions > 0 THEN "mismatch" ELSE "stop")

\* ... and hello answered, unless the daemon closed the connection or the
\* token was another daemon's.
Hello(c) ==
    LET d == client[c].conn
    IN  /\ client[c].pc = "hello"
        /\ IF ~Serving(d) THEN SetC(c, "failed")
           ELSE IF client[c].token # d THEN SetC(c, "unauthorized")
           ELSE IF client[c].polling THEN HelloPolled(c, d) ELSE HelloFirst(c, d)
        /\ UNCHANGED <<lock, token, socket, daemon, gen, dir, stops>>

\* replaceStale: daemon.stop.  A daemon with sessions refuses ...
StopChecked(c) ==
    LET d == client[c].conn
    IN  /\ client[c].pc = "stop"
        /\ SetC(c, IF ~Serving(d) THEN "failed"
                   ELSE IF daemon[d].sessions > 0 THEN "refused" ELSE "checked")
        /\ UNCHANGED <<lock, token, socket, daemon, gen, dir, stops>>

\* ... otherwise it stops every session there is by then, answers, and shuts
\* down.
StopStale(c) ==
    LET d == client[c].conn
    IN  /\ client[c].pc = "checked"
        /\ IF Serving(d)
           THEN /\ daemon' = [daemon EXCEPT ![d].pc = "closing", ![d].sessions = 0]
                /\ SetC(c, "stopping")
                /\ stops' = stops + 1
           ELSE SetC(c, "failed") /\ UNCHANGED <<daemon, stops>>
        /\ UNCHANGED <<lock, token, socket, gen, dir>>

\* WaitStopped takes the lock itself, to see that it is free ...
Probe(c) ==
    /\ client[c].pc = "stopping" /\ lock[gen] = None
    /\ IF dir THEN lock' = [lock EXCEPT ![gen] = c] /\ SetC(c, "probed")
              ELSE SetC(c, "failed") /\ UNCHANGED lock
    /\ UNCHANGED <<token, socket, daemon, gen, dir, stops>>

\* ... and closes it.
ProbeEnds(c) ==
    /\ client[c].pc = "probed"
    /\ lock' = [g \in DOMAIN lock |-> IF lock[g] = c THEN None ELSE lock[g]]
    /\ SetC(c, IF c \in NoAutostart THEN "not_running" ELSE "spawn")
    /\ UNCHANGED <<token, socket, daemon, gen, dir, stops>>

\* start: Prepare and spawn.
Spawn(c) ==
    /\ client[c].pc = "spawn"
    /\ \E d \in Daemons :
        /\ daemon[d].pc = "unborn" /\ \A e \in 1 .. d - 1 : daemon[e].pc # "unborn"
        /\ daemon' = [daemon EXCEPT ![d] = [NewDaemon EXCEPT
                        !.pc = "born", !.build = Info[c]]]
        /\ client' = [client EXCEPT ![c].pc = "read", ![c].polling = TRUE,
                                    ![c].spawned = d, ![c].conn = None]
    /\ dir' = TRUE
    /\ UNCHANGED <<lock, token, socket, gen, stops>>

\* Mutant: start gives up when the daemon it spawned exits.
SpawnedExitsFails(c) ==
    /\ client[c].pc = "wait" /\ ~client[c].exited
    /\ daemon[client[c].spawned].pc \in Gone
    /\ SetC(c, "failed")
    /\ UNCHANGED <<lock, token, socket, daemon, gen, dir, stops>>

\* The spawned daemon exited: keep polling.
SpawnedExits(c) ==
    /\ client[c].pc = "wait" /\ ~client[c].exited
    /\ daemon[client[c].spawned].pc \in Gone
    /\ client' = [client EXCEPT ![c].exited = TRUE, ![c].pc = "read"]
    /\ UNCHANGED <<lock, token, socket, daemon, gen, dir, stops>>

\* A poll that may still find a daemon.
Coming == \/ \E d \in Daemons : daemon[d].pc \in Starting
          \/ socket # None /\ Serving(socket) /\ token # None

\* The ticker, as long as it is of use.
Poll(c) ==
    /\ client[c].pc = "wait" /\ Coming
    /\ SetC(c, "read")
    /\ UNCHANGED <<lock, token, socket, daemon, gen, dir, stops>>

\* The timeouts: both are longer than a daemon takes to start or to stop.
Timeout(c) ==
    /\ \/ client[c].pc = "wait" /\ ~Coming
       \/ /\ client[c].pc = "stopping" /\ lock[gen] \in Daemons
          /\ daemon[lock[gen]].pc \in Starting \cup {"serving"}
    /\ SetC(c, "timeout")
    /\ UNCHANGED <<lock, token, socket, daemon, gen, dir, stops>>

\* awaitLoser: the spawned daemon exits, or time runs out.
AwaitLoser(c) ==
    LET d == client[c].conn
        s == client[c].spawned
    IN  /\ client[c].pc = "loser"
        /\ daemon[s].pc \in Gone \cup {"serving"}
        /\ client' = [client EXCEPT ![c].pc = IF Compatible(c, d) THEN "connected" ELSE "mismatch",
                                    ![c].late = daemon[s].pc = "serving"]
        /\ UNCHANGED <<lock, token, socket, daemon, gen, dir, stops>>

----------------------------------------------------------------------------
Init ==
    /\ lock = [g \in 0 .. MaxWipes |-> None]
    /\ token = None /\ socket = None /\ gen = 0 /\ dir = FALSE /\ stops = 0
    /\ daemon = [d \in Daemons |-> NewDaemon]
    /\ client = [c \in Clients |-> NewClient]

DaemonStep(d) ==
    Lock(d) \/ RemoveStale(d) \/ WriteToken(d) \/ Listen(d) \/ CloseListener(d) \/ Release(d)

ClientStep(c) ==
    \/ ReadToken(c) \/ DialSocket(c) \/ Hello(c) \/ StopChecked(c) \/ StopStale(c) \/ Probe(c)
    \/ ProbeEnds(c) \/ Spawn(c) \/ SpawnedExits(c) \/ Timeout(c) \/ AwaitLoser(c)

Next ==
    \/ \E d \in Daemons : DaemonStep(d) \/ Shutdown(d) \/ Crash(d) \/ SessionStarts(d)
    \/ \E c \in Clients : ClientStep(c) \/ Poll(c)
    \/ Wipe

\* Processes and the ticker go on; nothing has to stop, crash or start a
\* session.
Spec ==
    /\ Init /\ [][Next]_vars
    /\ \A d \in Daemons : WF_vars(DaemonStep(d))
    /\ \A c \in Clients : WF_vars(ClientStep(c)) /\ WF_vars(Poll(c))

----------------------------------------------------------------------------
(***************************************************************************)
(* Properties.                                                             *)
(***************************************************************************)

\* Serve: "the winner may remove any socket or token file it finds, since
\* they can only be stale".  While a daemon serves it is the only one that
\* does, and the token and the socket clients find are its own.
ServesAlone ==
    \A d \in Daemons : Serving(d) =>
        token = d /\ socket = d /\ \A e \in Daemons \ {d} : ~Serving(e)

\* That holds as long as the runtime directory stays, whatever starts, stops
\* and crashes there are.
FilesAreServers == gen = 0 => ServesAlone

\* watchSocket: once the directory is removed, no daemon of before serves on
\* beside a new one.
NoneLeftBehind ==
    \A d, e \in Daemons : Serving(d) /\ Serving(e) /\ d # e => socket = None

\* Concurrent starts: as long as no daemon stopped and the directory stayed,
\* no Connect fails for another reason than that the daemon is of another
\* build, or may not be started.
NoLostStart ==
    (stops = 0 /\ gen = 0) => \A c \in Clients :
        client[c].pc \notin {"failed", "unauthorized", "timeout"}

\* awaitLoser: a Connect that returned somebody else's daemon leaves no
\* daemon of its own behind that could still take the lock.
NoneLingers ==
    \A c \in Clients :
        (client[c].pc \in {"connected", "mismatch"} /\ ~client[c].late
           /\ client[c].spawned \notin {None, client[c].conn})
        => daemon[client[c].spawned].pc \in Gone

\* Clients that start a daemon at once meet at one: no start is lost to the
\* race, and no loser is left that could still take the lock (start.go).
StartsMeet == NoLostStart /\ NoneLingers

\* Connect returns.
Returned == {"connected", "mismatch", "refused", "not_running", "failed", "unauthorized", "timeout"}
ConnectReturns == \A c \in Clients : <>(client[c].pc \in Returned)
=============================================================================
