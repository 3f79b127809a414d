-------------------------- MODULE DaemonStartProofs -------------------------
(***************************************************************************)
(* How clients find and start the daemon (internal/daemon: start.go,       *)
(* server.go): whoever serves has the token and the socket to itself, and  *)
(* clients that start a daemon at once meet at one, for any clients,       *)
(* daemons, stops, crashes and removals of the runtime directory.          *)
(*                                                                         *)
(* The argument: as long as the directory stays there is one lock file,    *)
(* and every daemon past its lock holds it, so at most one removes, writes *)
(* or binds anything.  Until a daemon stops, the first one to lock keeps   *)
(* the lock, so that every token and socket a client finds is that one's,  *)
(* and a daemon that exited did so because that one was there.             *)
(***************************************************************************)
EXTENDS DaemonStart, TLAPS

\* Where a daemon is that has locked, and has not released.
Holding == {"locked", "bare", "named", "serving", "closing", "closed", "untokened", "unlinked"}

DaemonPcs == Holding \cup Gone \cup {"unborn", "born"}
ClientPcs == Returned \cup {"read", "dial", "hello", "stop", "checked", "stopping", "probed",
                            "spawn", "wait", "loser"}

DaemonRecords == [pc : DaemonPcs, build : {None} \cup {Info[c] : c \in Clients},
                  file : 0 .. MaxWipes, sessions : {0, 1}]
ClientRecords == [pc : ClientPcs, polling : BOOLEAN, token : Daemons \cup {None},
                  conn : Daemons \cup {None}, spawned : Daemons \cup {None},
                  exited : BOOLEAN, late : BOOLEAN]

StartTypeOK ==
    /\ lock \in [0 .. MaxWipes -> Clients \cup Daemons \cup {None}]
    /\ token \in Daemons \cup {None} /\ socket \in Daemons \cup {None}
    /\ daemon \in [Daemons -> DaemonRecords]
    /\ client \in [Clients -> ClientRecords]
    /\ gen \in 0 .. MaxWipes /\ dir \in BOOLEAN /\ stops \in Nat

\* A daemon past its lock holds the one lock file there is, and the files it
\* made are there.
Alone(d) ==
    /\ daemon[d].pc \in Holding => lock[0] = d /\ daemon[d].file = 0
    /\ daemon[d].pc \in {"named", "serving", "closing", "closed"} => token = d
    /\ daemon[d].pc \in {"serving", "closing"} => socket = d
    /\ daemon[d].pc \in {"bare", "named"} => socket = None

\* What a client knows of the daemon it started, and of the one it found.
Spawns(c) ==
    /\ ~client[c].polling => client[c].spawned = None /\ ~client[c].exited
    /\ client[c].polling => client[c].spawned \in Daemons /\ daemon[client[c].spawned].pc # "unborn"
    /\ client[c].exited => daemon[client[c].spawned].pc \in Gone
    /\ client[c].pc \in {"wait", "loser"} => client[c].polling
    /\ client[c].pc \in {"stop", "checked", "stopping", "probed", "spawn"} => ~client[c].polling
    /\ client[c].pc \in {"hello", "stop", "checked", "loser"} => client[c].conn \in Daemons

\* Nobody stopped: a daemon is on its way, serves or found another one.
FirstDaemon(d) ==
    /\ daemon[d].pc \in {"unborn", "born", "locked", "bare", "named", "serving", "exited"}
    /\ daemon[d].pc \in Holding => dir
    /\ daemon[d].pc = "exited" => lock[0] # None

\* Nobody stopped: the files are those of the daemon that locked first.
FirstFiles ==
    /\ lock[0] \in Daemons \cup {None}
    /\ lock[0] # None => daemon[lock[0]].pc \in Holding
    /\ token # None => lock[0] = token /\ daemon[token].pc \in {"named", "serving"}
    /\ socket # None => daemon[socket].pc = "serving"

\* Nobody stopped: clients only meet that daemon.
FirstClient(c) ==
    /\ client[c].pc \notin {"failed", "unauthorized", "timeout", "stopping", "probed"}
    /\ client[c].pc \in {"dial", "hello"} => token # None /\ client[c].token = token
    /\ client[c].pc \in {"hello", "stop", "checked", "loser"} => daemon[client[c].conn].pc = "serving"

FilesInv == gen = 0 => \A d \in Daemons : Alone(d)
SpawnsInv == \A c \in Clients : Spawns(c)
FirstInv ==
    gen = 0 /\ stops = 0 => /\ \A d \in Daemons : FirstDaemon(d)
                            /\ FirstFiles
                            /\ \A c \in Clients : FirstClient(c)

StartInv == StartTypeOK /\ FilesInv /\ SpawnsInv /\ NoneLingers /\ FirstInv

----------------------------------------------------------------------------
(***************************************************************************)
(* One process moves.                                                      *)
(***************************************************************************)

\* Only the daemon d moves, to where.
OnlyDaemon(d, where) ==
    /\ daemon' \in [Daemons -> DaemonRecords]
    /\ \A e \in Daemons : e # d => daemon'[e] = daemon[e]
    /\ daemon'[d].pc = where

\* Only the client c moves, to where; what it knows stays.
OnlyClient(c, where) ==
    /\ client' \in [Clients -> ClientRecords]
    /\ \A b \in Clients : b # c => client'[b] = client[b]
    /\ client'[c].pc = where
    /\ client'[c].polling = client[c].polling /\ client'[c].token = client[c].token
    /\ client'[c].conn = client[c].conn /\ client'[c].spawned = client[c].spawned
    /\ client'[c].exited = client[c].exited /\ client'[c].late = client[c].late

\* SetD is a step of one daemon, which keeps its lock file.
LEMMA SetDMoves ==
    ASSUME StartTypeOK, NEW d \in Daemons, NEW where \in DaemonPcs, SetD(d, where)
    PROVE  OnlyDaemon(d, where) /\ daemon'[d].file = daemon[d].file
<1>1. daemon[d] \in DaemonRecords /\ daemon \in [Daemons -> DaemonRecords]
  BY DEF StartTypeOK
<1>2. daemon' = [daemon EXCEPT ![d] = [daemon[d] EXCEPT !.pc = where]]
  BY DEF SetD
<1>3. [daemon[d] EXCEPT !.pc = where] \in DaemonRecords
  BY <1>1 DEF DaemonRecords
<1>4. /\ [daemon[d] EXCEPT !.pc = where].pc = where
      /\ [daemon[d] EXCEPT !.pc = where].file = daemon[d].file
  BY <1>1 DEF DaemonRecords
<1> QED
  BY <1>1, <1>2, <1>3, <1>4 DEF OnlyDaemon

\* SetC is a step of one client.
LEMMA SetCMoves ==
    ASSUME StartTypeOK, NEW c \in Clients, NEW where \in ClientPcs, SetC(c, where)
    PROVE  OnlyClient(c, where)
<1>1. client[c] \in ClientRecords /\ client \in [Clients -> ClientRecords]
  BY DEF StartTypeOK
<1>2. client' = [client EXCEPT ![c] = [client[c] EXCEPT !.pc = where]]
  BY DEF SetC
<1>3. [client[c] EXCEPT !.pc = where] \in ClientRecords
  BY <1>1 DEF ClientRecords
<1>4. client'[c] = [client[c] EXCEPT !.pc = where]
  BY <1>1, <1>2
<1>5. /\ client'[c].pc = where
      /\ client'[c].polling = client[c].polling /\ client'[c].token = client[c].token
      /\ client'[c].conn = client[c].conn /\ client'[c].spawned = client[c].spawned
      /\ client'[c].exited = client[c].exited /\ client'[c].late = client[c].late
  BY <1>1, <1>4 DEF ClientRecords
<1> QED
  BY <1>1, <1>2, <1>3, <1>5 DEF OnlyClient

\* A step of daemons alone: what clients know stays true when no daemon comes
\* back, and what they found when it still serves.
LEMMA ClientsStay ==
    ASSUME StartInv, client' = client,
           \A e \in Daemons : /\ daemon[e].pc \in Gone => daemon'[e].pc \in Gone
                              /\ daemon[e].pc # "unborn" => daemon'[e].pc # "unborn"
    PROVE  /\ SpawnsInv' /\ NoneLingers'
           /\ /\ \A c \in Clients : FirstClient(c)
              /\ token # None => token' = token
              /\ \A e \in Daemons : daemon[e].pc = "serving" => daemon'[e].pc = "serving"
              => \A c \in Clients : FirstClient(c)'
<1>0. SpawnsInv /\ NoneLingers /\ client \in [Clients -> ClientRecords]
  BY DEF StartInv, StartTypeOK
<1>1. SpawnsInv'
  BY <1>0 DEF SpawnsInv, Spawns
<1>2. NoneLingers'
  BY <1>0 DEF NoneLingers, SpawnsInv, Spawns, ClientRecords
<1>3. ASSUME \A c \in Clients : FirstClient(c), token # None => token' = token,
             \A e \in Daemons : daemon[e].pc = "serving" => daemon'[e].pc = "serving"
      PROVE  \A c \in Clients : FirstClient(c)'
  BY <1>0, <1>3 DEF FirstClient, SpawnsInv, Spawns
<1> QED
  BY <1>1, <1>2, <1>3

\* The parts of the invariant, and what the constants are assumed to be.
LEMMA Parts ==
    ASSUME StartInv
    PROVE  /\ StartTypeOK /\ FilesInv /\ SpawnsInv /\ NoneLingers /\ FirstInv
           /\ None \notin Daemons /\ None \notin Clients /\ Clients \cap Daemons = {}
           /\ 0 \in 0 .. MaxWipes /\ MaxWipes \in Nat /\ gen \in 0 .. MaxWipes /\ stops \in Nat
           /\ lock \in [0 .. MaxWipes -> Clients \cup Daemons \cup {None}]
           /\ token \in Daemons \cup {None} /\ socket \in Daemons \cup {None}
           /\ \A e \in Daemons : daemon[e].pc \in DaemonPcs /\ daemon[e].file \in 0 .. MaxWipes
  BY DaemonStartAssumption DEF StartInv, StartTypeOK, DaemonRecords, Daemons

\* Serve takes the lock, or exits.
LEMMA LockKeeps ==
    ASSUME StartInv, NEW d \in Daemons, Lock(d)
    PROVE  StartInv'
<1>f. UNCHANGED <<token, socket, client, gen, stops>>
  BY DEF Lock
<1>1. /\ daemon[d].pc = "born" /\ dir' = TRUE
      /\ \/ /\ lock[gen] = None /\ lock' = [lock EXCEPT ![gen] = d]
            /\ OnlyDaemon(d, "locked") /\ daemon'[d].file = gen
         \/ lock[gen] # None /\ lock' = lock /\ OnlyDaemon(d, "exited")
  <2>1. CASE /\ lock[gen] = None /\ lock' = [lock EXCEPT ![gen] = d]
             /\ daemon' = [daemon EXCEPT ![d].pc = "locked", ![d].file = gen]
    <3>1. daemon \in [Daemons -> DaemonRecords] /\ daemon[d] \in DaemonRecords /\ gen \in 0 .. MaxWipes
      BY Parts DEF StartTypeOK
    <3>2. daemon'[d] = [daemon[d] EXCEPT !.pc = "locked", !.file = gen]
      BY <2>1, <3>1
    <3>3. daemon'[d] \in DaemonRecords /\ daemon'[d].pc = "locked" /\ daemon'[d].file = gen
      BY <3>1, <3>2 DEF DaemonRecords, DaemonPcs, Holding
    <3>4. OnlyDaemon(d, "locked")
      BY <2>1, <3>1, <3>3 DEF OnlyDaemon
    <3> QED
      BY <2>1, <3>3, <3>4 DEF Lock
  <2>2. CASE lock[gen] # None /\ lock' = lock /\ SetD(d, "exited")
    BY <2>2, Parts, SetDMoves DEF Lock, DaemonPcs, Gone
  <2> QED
    BY <2>1, <2>2 DEF Lock
<1>2. StartTypeOK'
  BY Parts, <1>1, <1>f DEF StartTypeOK, OnlyDaemon
<1>3. FilesInv'
  BY Parts, <1>1, <1>f DEF FilesInv, Alone, OnlyDaemon, Holding
<1>4. SpawnsInv' /\ NoneLingers'
  BY <1>1, <1>f, ClientsStay DEF OnlyDaemon, Gone
<1>5. FirstInv'
  <2> SUFFICES ASSUME gen' = 0, stops' = 0
               PROVE  (\A e \in Daemons : FirstDaemon(e)') /\ FirstFiles' /\ \A c \in Clients : FirstClient(c)'
    BY DEF FirstInv
  <2>0. gen = 0 /\ stops = 0
    BY Parts, <1>1, <1>f
  <2>1. /\ \A e \in Daemons : FirstDaemon(e) /\ Alone(e)
        /\ FirstFiles /\ \A c \in Clients : FirstClient(c)
    BY Parts, <2>0 DEF FirstInv, FilesInv
  <2>2. \A e \in Daemons : FirstDaemon(e)'
    BY Parts, <1>1, <1>f, <2>0, <2>1 DEF OnlyDaemon, FirstDaemon, FirstFiles, Alone, Holding
  <2>3. FirstFiles'
    BY Parts, <1>1, <1>f, <2>0, <2>1 DEF OnlyDaemon, FirstDaemon, FirstFiles, Alone, Holding
  <2>4. /\ token # None => token' = token
        /\ \A e \in Daemons : daemon[e].pc = "serving" => daemon'[e].pc = "serving"
    BY Parts, <1>1, <1>f, <2>0, <2>1 DEF OnlyDaemon, FirstDaemon, FirstFiles, Alone, Holding
  <2>5. \A c \in Clients : FirstClient(c)'
    BY <1>1, <1>f, <2>1, <2>4, ClientsStay DEF OnlyDaemon, Gone
  <2> QED
    BY <2>2, <2>3, <2>5
<1> QED
  BY <1>2, <1>3, <1>4, <1>5 DEF StartInv

\* listen removes the socket file it finds.
LEMMA RemoveStaleKeeps ==
    ASSUME StartInv, NEW d \in Daemons, RemoveStale(d)
    PROVE  StartInv'
<1>f. UNCHANGED <<lock, token, client, gen, dir, stops>>
  BY DEF RemoveStale
<1>1. /\ daemon[d].pc = "locked" /\ socket' = None
      /\ OnlyDaemon(d, "bare") /\ daemon'[d].file = daemon[d].file
  BY Parts, SetDMoves DEF RemoveStale, DaemonPcs, Holding, Gone
<1>2. StartTypeOK'
  BY Parts, <1>1, <1>f DEF StartTypeOK, OnlyDaemon
<1>3. FilesInv'
  BY Parts, <1>1, <1>f DEF FilesInv, Alone, OnlyDaemon, Holding
<1>4. SpawnsInv' /\ NoneLingers'
  BY <1>1, <1>f, ClientsStay DEF OnlyDaemon, Gone
<1>5. FirstInv'
  <2> SUFFICES ASSUME gen' = 0, stops' = 0
               PROVE  (\A e \in Daemons : FirstDaemon(e)') /\ FirstFiles' /\ \A c \in Clients : FirstClient(c)'
    BY DEF FirstInv
  <2>0. gen = 0 /\ stops = 0
    BY Parts, <1>1, <1>f
  <2>1. /\ \A e \in Daemons : FirstDaemon(e) /\ Alone(e)
        /\ FirstFiles /\ \A c \in Clients : FirstClient(c)
    BY Parts, <2>0 DEF FirstInv, FilesInv
  <2>2. \A e \in Daemons : FirstDaemon(e)'
    BY Parts, <1>1, <1>f, <2>0, <2>1 DEF OnlyDaemon, FirstDaemon, FirstFiles, Alone, Holding
  <2>3. FirstFiles'
    BY Parts, <1>1, <1>f, <2>0, <2>1 DEF OnlyDaemon, FirstDaemon, FirstFiles, Alone, Holding
  <2>4. /\ token # None => token' = token
        /\ \A e \in Daemons : daemon[e].pc = "serving" => daemon'[e].pc = "serving"
    BY Parts, <1>1, <1>f, <2>0, <2>1 DEF OnlyDaemon, FirstDaemon, FirstFiles, Alone, Holding
  <2>5. \A c \in Clients : FirstClient(c)'
    BY <1>1, <1>f, <2>1, <2>4, ClientsStay DEF OnlyDaemon, Gone
  <2> QED
    BY <2>2, <2>3, <2>5
<1> QED
  BY <1>2, <1>3, <1>4, <1>5 DEF StartInv

\* listen publishes the token, or fails.
LEMMA WriteTokenKeeps ==
    ASSUME StartInv, NEW d \in Daemons, WriteToken(d)
    PROVE  StartInv'
<1>f. UNCHANGED <<client, gen, dir, stops>>
  BY DEF WriteToken, ListenFails
<1>1. /\ daemon[d].pc = "bare" /\ socket' = socket
      /\ \/ /\ dir /\ token' = d /\ lock' = lock
            /\ OnlyDaemon(d, "named") /\ daemon'[d].file = daemon[d].file
         \/ /\ ~dir /\ token' = token /\ lock' = [lock EXCEPT ![daemon[d].file] = None]
            /\ OnlyDaemon(d, "exited")
  BY Parts, SetDMoves DEF WriteToken, ListenFails, DaemonPcs, Holding, Gone
<1>2. StartTypeOK'
  BY Parts, <1>1, <1>f DEF StartTypeOK, OnlyDaemon
<1>3. FilesInv'
  BY Parts, <1>1, <1>f DEF FilesInv, Alone, OnlyDaemon, Holding
<1>4. SpawnsInv' /\ NoneLingers'
  BY <1>1, <1>f, ClientsStay DEF OnlyDaemon, Gone
<1>5. FirstInv'
  <2> SUFFICES ASSUME gen' = 0, stops' = 0
               PROVE  (\A e \in Daemons : FirstDaemon(e)') /\ FirstFiles' /\ \A c \in Clients : FirstClient(c)'
    BY DEF FirstInv
  <2>0. gen = 0 /\ stops = 0
    BY Parts, <1>1, <1>f
  <2>1. /\ \A e \in Daemons : FirstDaemon(e) /\ Alone(e)
        /\ FirstFiles /\ \A c \in Clients : FirstClient(c)
    BY Parts, <2>0 DEF FirstInv, FilesInv
  <2>2. \A e \in Daemons : FirstDaemon(e)'
    BY Parts, <1>1, <1>f, <2>0, <2>1 DEF OnlyDaemon, FirstDaemon, FirstFiles, Alone, Holding
  <2>3. FirstFiles'
    BY Parts, <1>1, <1>f, <2>0, <2>1 DEF OnlyDaemon, FirstDaemon, FirstFiles, Alone, Holding
  <2>4. /\ token # None => token' = token
        /\ \A e \in Daemons : daemon[e].pc = "serving" => daemon'[e].pc = "serving"
    BY Parts, <1>1, <1>f, <2>0, <2>1 DEF OnlyDaemon, FirstDaemon, FirstFiles, Alone, Holding
  <2>5. \A c \in Clients : FirstClient(c)'
    BY <1>1, <1>f, <2>1, <2>4, ClientsStay DEF OnlyDaemon, Gone
  <2> QED
    BY <2>2, <2>3, <2>5
<1> QED
  BY <1>2, <1>3, <1>4, <1>5 DEF StartInv

\* listen opens the socket, or fails.
LEMMA ListenKeeps ==
    ASSUME StartInv, NEW d \in Daemons, Listen(d)
    PROVE  StartInv'
<1>f. UNCHANGED <<client, gen, dir, stops>>
  BY DEF Listen, ListenFails
<1>1. /\ daemon[d].pc = "named" /\ token' = token
      /\ \/ /\ dir /\ socket = None /\ socket' = d /\ lock' = lock
            /\ OnlyDaemon(d, "serving") /\ daemon'[d].file = daemon[d].file
         \/ /\ ~(dir /\ socket = None) /\ socket' = socket /\ lock' = [lock EXCEPT ![daemon[d].file] = None]
            /\ OnlyDaemon(d, "exited")
  BY Parts, SetDMoves DEF Listen, ListenFails, DaemonPcs, Holding, Gone
<1>2. StartTypeOK'
  BY Parts, <1>1, <1>f DEF StartTypeOK, OnlyDaemon
<1>3. FilesInv'
  BY Parts, <1>1, <1>f DEF FilesInv, Alone, OnlyDaemon, Holding
<1>4. SpawnsInv' /\ NoneLingers'
  BY <1>1, <1>f, ClientsStay DEF OnlyDaemon, Gone
<1>5. FirstInv'
  <2> SUFFICES ASSUME gen' = 0, stops' = 0
               PROVE  (\A e \in Daemons : FirstDaemon(e)') /\ FirstFiles' /\ \A c \in Clients : FirstClient(c)'
    BY DEF FirstInv
  <2>0. gen = 0 /\ stops = 0
    BY Parts, <1>1, <1>f
  <2>1. /\ \A e \in Daemons : FirstDaemon(e) /\ Alone(e)
        /\ FirstFiles /\ \A c \in Clients : FirstClient(c)
    BY Parts, <2>0 DEF FirstInv, FilesInv
  <2>2. \A e \in Daemons : FirstDaemon(e)'
    BY Parts, <1>1, <1>f, <2>0, <2>1 DEF OnlyDaemon, FirstDaemon, FirstFiles, Alone, Holding
  <2>3. FirstFiles'
    BY Parts, <1>1, <1>f, <2>0, <2>1 DEF OnlyDaemon, FirstDaemon, FirstFiles, Alone, Holding
  <2>4. /\ token # None => token' = token
        /\ \A e \in Daemons : daemon[e].pc = "serving" => daemon'[e].pc = "serving"
    BY Parts, <1>1, <1>f, <2>0, <2>1 DEF OnlyDaemon, FirstDaemon, FirstFiles, Alone, Holding
  <2>5. \A c \in Clients : FirstClient(c)'
    BY <1>1, <1>f, <2>1, <2>4, ClientsStay DEF OnlyDaemon, Gone
  <2> QED
    BY <2>2, <2>3, <2>5
<1> QED
  BY <1>2, <1>3, <1>4, <1>5 DEF StartInv

\* A daemon decides to stop.
LEMMA ShutdownKeeps ==
    ASSUME StartInv, NEW d \in Daemons, Shutdown(d)
    PROVE  StartInv'
<1>f. UNCHANGED <<lock, token, socket, client, gen, dir>>
  BY DEF Shutdown, Serving
<1>1. /\ daemon[d].pc = "serving" /\ OnlyDaemon(d, "closing") /\ daemon'[d].file = daemon[d].file
      /\ stops' = stops + 1 \/ (socket = None /\ stops' = stops)
  BY Parts, SetDMoves DEF Shutdown, Serving, DaemonPcs, Holding, Gone
<1>2. StartTypeOK'
  BY Parts, <1>1, <1>f DEF StartTypeOK, OnlyDaemon
<1>3. FilesInv'
  BY Parts, <1>1, <1>f DEF FilesInv, Alone, OnlyDaemon, Holding
<1>4. SpawnsInv' /\ NoneLingers'
  BY <1>1, <1>f, ClientsStay DEF OnlyDaemon, Gone
<1>5. FirstInv'
  <2> SUFFICES ASSUME gen' = 0, stops' = 0
               PROVE  (\A e \in Daemons : FirstDaemon(e)') /\ FirstFiles' /\ \A c \in Clients : FirstClient(c)'
    BY DEF FirstInv
  <2>0. gen = 0 /\ stops = 0
    BY Parts, <1>1, <1>f
  <2>1. /\ \A e \in Daemons : FirstDaemon(e) /\ Alone(e)
        /\ FirstFiles /\ \A c \in Clients : FirstClient(c)
    BY Parts, <2>0 DEF FirstInv, FilesInv
  <2>2. \A e \in Daemons : FirstDaemon(e)'
    BY Parts, <1>1, <1>f, <2>0, <2>1 DEF OnlyDaemon, FirstDaemon, FirstFiles, Alone, Holding
  <2>3. FirstFiles'
    BY Parts, <1>1, <1>f, <2>0, <2>1 DEF OnlyDaemon, FirstDaemon, FirstFiles, Alone, Holding
  <2>4. /\ token # None => token' = token
        /\ \A e \in Daemons : daemon[e].pc = "serving" => daemon'[e].pc = "serving"
    BY Parts, <1>1, <1>f, <2>0, <2>1 DEF OnlyDaemon, FirstDaemon, FirstFiles, Alone, Holding
  <2>5. \A c \in Clients : FirstClient(c)'
    BY <1>1, <1>f, <2>1, <2>4, ClientsStay DEF OnlyDaemon, Gone
  <2> QED
    BY <2>2, <2>3, <2>5
<1> QED
  BY <1>2, <1>3, <1>4, <1>5 DEF StartInv

\* The listener closes, and with it the socket.
LEMMA CloseListenerKeeps ==
    ASSUME StartInv, NEW d \in Daemons, CloseListener(d)
    PROVE  StartInv'
<1>f. UNCHANGED <<lock, token, client, gen, dir, stops>>
  BY DEF CloseListener
<1>1. /\ daemon[d].pc = "closing" /\ socket' = None
      /\ OnlyDaemon(d, "closed") /\ daemon'[d].file = daemon[d].file
  <2>1. daemon \in [Daemons -> DaemonRecords] /\ daemon[d] \in DaemonRecords
    BY Parts DEF StartTypeOK
  <2>2. daemon' = [daemon EXCEPT ![d].pc = "closed", ![d].sessions = 0]
    BY DEF CloseListener
  <2>3. daemon'[d] = [daemon[d] EXCEPT !.pc = "closed", !.sessions = 0]
    BY <2>1, <2>2
  <2>4. daemon'[d] \in DaemonRecords /\ daemon'[d].pc = "closed" /\ daemon'[d].file = daemon[d].file
    BY <2>1, <2>3 DEF DaemonRecords, DaemonPcs, Holding
  <2> QED
    BY <2>1, <2>2, <2>4 DEF CloseListener, OnlyDaemon
<1>2. StartTypeOK'
  BY Parts, <1>1, <1>f DEF StartTypeOK, OnlyDaemon
<1>3. FilesInv'
  BY Parts, <1>1, <1>f DEF FilesInv, Alone, OnlyDaemon, Holding
<1>4. SpawnsInv' /\ NoneLingers'
  BY <1>1, <1>f, ClientsStay DEF OnlyDaemon, Gone
<1>5. FirstInv'
  <2> SUFFICES ASSUME gen' = 0, stops' = 0
               PROVE  (\A e \in Daemons : FirstDaemon(e)') /\ FirstFiles' /\ \A c \in Clients : FirstClient(c)'
    BY DEF FirstInv
  <2>0. gen = 0 /\ stops = 0
    BY Parts, <1>1, <1>f
  <2>1. /\ \A e \in Daemons : FirstDaemon(e) /\ Alone(e)
        /\ FirstFiles /\ \A c \in Clients : FirstClient(c)
    BY Parts, <2>0 DEF FirstInv, FilesInv
  <2>2. \A e \in Daemons : FirstDaemon(e)'
    BY Parts, <1>1, <1>f, <2>0, <2>1 DEF OnlyDaemon, FirstDaemon, FirstFiles, Alone, Holding
  <2>3. FirstFiles'
    BY Parts, <1>1, <1>f, <2>0, <2>1 DEF OnlyDaemon, FirstDaemon, FirstFiles, Alone, Holding
  <2>4. /\ token # None => token' = token
        /\ \A e \in Daemons : daemon[e].pc = "serving" => daemon'[e].pc = "serving"
    BY Parts, <1>1, <1>f, <2>0, <2>1 DEF OnlyDaemon, FirstDaemon, FirstFiles, Alone, Holding
  <2>5. \A c \in Clients : FirstClient(c)'
    BY <1>1, <1>f, <2>1, <2>4, ClientsStay DEF OnlyDaemon, Gone
  <2> QED
    BY <2>2, <2>3, <2>5
<1> QED
  BY <1>2, <1>3, <1>4, <1>5 DEF StartInv

\* Serve removes its files, and the lock last.
LEMMA ReleaseKeeps ==
    ASSUME StartInv, NEW d \in Daemons, Release(d)
    PROVE  StartInv'
<1>f. UNCHANGED <<client, gen, dir, stops>>
  BY DEF Release
<1>1. \/ /\ daemon[d].pc = "closed" /\ OnlyDaemon(d, "untokened") /\ daemon'[d].file = daemon[d].file
         /\ token' = None /\ lock' = lock /\ socket' = socket
      \/ /\ daemon[d].pc = "untokened" /\ OnlyDaemon(d, "unlinked") /\ daemon'[d].file = daemon[d].file
         /\ socket' = None /\ lock' = lock /\ token' = token
      \/ /\ daemon[d].pc = "unlinked" /\ OnlyDaemon(d, "exited")
         /\ lock' = [lock EXCEPT ![daemon[d].file] = None] /\ token' = token /\ socket' = socket
  BY Parts, SetDMoves DEF Release, DaemonPcs, Holding, Gone
<1>2. StartTypeOK'
  BY Parts, <1>1, <1>f DEF StartTypeOK, OnlyDaemon
<1>3. FilesInv'
  BY Parts, <1>1, <1>f DEF FilesInv, Alone, OnlyDaemon, Holding
<1>4. SpawnsInv' /\ NoneLingers'
  BY <1>1, <1>f, ClientsStay DEF OnlyDaemon, Gone
<1>5. FirstInv'
  <2> SUFFICES ASSUME gen' = 0, stops' = 0
               PROVE  (\A e \in Daemons : FirstDaemon(e)') /\ FirstFiles' /\ \A c \in Clients : FirstClient(c)'
    BY DEF FirstInv
  <2>0. gen = 0 /\ stops = 0
    BY Parts, <1>1, <1>f
  <2>1. /\ \A e \in Daemons : FirstDaemon(e) /\ Alone(e)
        /\ FirstFiles /\ \A c \in Clients : FirstClient(c)
    BY Parts, <2>0 DEF FirstInv, FilesInv
  <2>2. \A e \in Daemons : FirstDaemon(e)'
    BY Parts, <1>1, <1>f, <2>0, <2>1 DEF OnlyDaemon, FirstDaemon, FirstFiles, Alone, Holding
  <2>3. FirstFiles'
    BY Parts, <1>1, <1>f, <2>0, <2>1 DEF OnlyDaemon, FirstDaemon, FirstFiles, Alone, Holding
  <2>4. /\ token # None => token' = token
        /\ \A e \in Daemons : daemon[e].pc = "serving" => daemon'[e].pc = "serving"
    BY Parts, <1>1, <1>f, <2>0, <2>1 DEF OnlyDaemon, FirstDaemon, FirstFiles, Alone, Holding
  <2>5. \A c \in Clients : FirstClient(c)'
    BY <1>1, <1>f, <2>1, <2>4, ClientsStay DEF OnlyDaemon, Gone
  <2> QED
    BY <2>2, <2>3, <2>5
<1> QED
  BY <1>2, <1>3, <1>4, <1>5 DEF StartInv

\* A daemon is killed.
LEMMA CrashKeeps ==
    ASSUME StartInv, NEW d \in Daemons, Crash(d)
    PROVE  StartInv'
<1>f. UNCHANGED <<token, socket, client, gen, dir>>
  BY DEF Crash, Alive
<1>1. /\ daemon[d].pc \in DaemonPcs \ {"unborn", "born", "exited", "crashed"}
      /\ OnlyDaemon(d, "crashed") /\ stops' = stops + 1
      /\ lock' \in [0 .. MaxWipes -> Clients \cup Daemons \cup {None}]
      /\ \A g \in 0 .. MaxWipes : lock'[g] = IF lock[g] = d THEN None ELSE lock[g]
  BY Parts, SetDMoves DEF Crash, Alive, DaemonPcs, Holding, Gone
<1>2. StartTypeOK'
  BY Parts, <1>1, <1>f DEF StartTypeOK, OnlyDaemon
<1>3. FilesInv'
  BY Parts, <1>1, <1>f DEF FilesInv, Alone, OnlyDaemon, Holding
<1>4. SpawnsInv' /\ NoneLingers'
  BY <1>1, <1>f, ClientsStay DEF OnlyDaemon, Gone
<1>5. FirstInv'
  <2> SUFFICES ASSUME gen' = 0, stops' = 0
               PROVE  (\A e \in Daemons : FirstDaemon(e)') /\ FirstFiles' /\ \A c \in Clients : FirstClient(c)'
    BY DEF FirstInv
  <2>0. gen = 0 /\ stops = 0
    BY Parts, <1>1, <1>f
  <2>1. /\ \A e \in Daemons : FirstDaemon(e) /\ Alone(e)
        /\ FirstFiles /\ \A c \in Clients : FirstClient(c)
    BY Parts, <2>0 DEF FirstInv, FilesInv
  <2>2. \A e \in Daemons : FirstDaemon(e)'
    BY Parts, <1>1, <1>f, <2>0, <2>1 DEF OnlyDaemon, FirstDaemon, FirstFiles, Alone, Holding
  <2>3. FirstFiles'
    BY Parts, <1>1, <1>f, <2>0, <2>1 DEF OnlyDaemon, FirstDaemon, FirstFiles, Alone, Holding
  <2>4. /\ token # None => token' = token
        /\ \A e \in Daemons : daemon[e].pc = "serving" => daemon'[e].pc = "serving"
    BY Parts, <1>1, <1>f, <2>0, <2>1 DEF OnlyDaemon, FirstDaemon, FirstFiles, Alone, Holding
  <2>5. \A c \in Clients : FirstClient(c)'
    BY <1>1, <1>f, <2>1, <2>4, ClientsStay DEF OnlyDaemon, Gone
  <2> QED
    BY <2>2, <2>3, <2>5
<1> QED
  BY <1>2, <1>3, <1>4, <1>5 DEF StartInv

\* A client starts a session.
LEMMA SessionStartsKeeps ==
    ASSUME StartInv, NEW d \in Daemons, SessionStarts(d)
    PROVE  StartInv'
<1>f. UNCHANGED <<lock, token, socket, client, gen, dir, stops>>
  BY DEF SessionStarts, Serving
<1>1. /\ daemon[d].pc = "serving" /\ OnlyDaemon(d, "serving") /\ daemon'[d].file = daemon[d].file
  <2>1. daemon \in [Daemons -> DaemonRecords] /\ daemon[d] \in DaemonRecords
    BY Parts DEF StartTypeOK
  <2>2. daemon' = [daemon EXCEPT ![d] = [daemon[d] EXCEPT !.sessions = 1]] /\ daemon[d].pc = "serving"
    BY DEF SessionStarts, Serving
  <2>3. /\ [daemon[d] EXCEPT !.sessions = 1] \in DaemonRecords
        /\ [daemon[d] EXCEPT !.sessions = 1].pc = daemon[d].pc
        /\ [daemon[d] EXCEPT !.sessions = 1].file = daemon[d].file
    BY <2>1 DEF DaemonRecords
  <2> QED
    BY <2>1, <2>2, <2>3 DEF OnlyDaemon
<1>2. StartTypeOK'
  BY Parts, <1>1, <1>f DEF StartTypeOK, OnlyDaemon
<1>3. FilesInv'
  BY Parts, <1>1, <1>f DEF FilesInv, Alone, OnlyDaemon, Holding
<1>4. SpawnsInv' /\ NoneLingers'
  BY <1>1, <1>f, ClientsStay DEF OnlyDaemon, Gone
<1>5. FirstInv'
  <2> SUFFICES ASSUME gen' = 0, stops' = 0
               PROVE  (\A e \in Daemons : FirstDaemon(e)') /\ FirstFiles' /\ \A c \in Clients : FirstClient(c)'
    BY DEF FirstInv
  <2>0. gen = 0 /\ stops = 0
    BY Parts, <1>1, <1>f
  <2>1. /\ \A e \in Daemons : FirstDaemon(e) /\ Alone(e)
        /\ FirstFiles /\ \A c \in Clients : FirstClient(c)
    BY Parts, <2>0 DEF FirstInv, FilesInv
  <2>2. \A e \in Daemons : FirstDaemon(e)'
    BY Parts, <1>1, <1>f, <2>0, <2>1 DEF OnlyDaemon, FirstDaemon, FirstFiles, Alone, Holding
  <2>3. FirstFiles'
    BY Parts, <1>1, <1>f, <2>0, <2>1 DEF OnlyDaemon, FirstDaemon, FirstFiles, Alone, Holding
  <2>4. /\ token # None => token' = token
        /\ \A e \in Daemons : daemon[e].pc = "serving" => daemon'[e].pc = "serving"
    BY Parts, <1>1, <1>f, <2>0, <2>1 DEF OnlyDaemon, FirstDaemon, FirstFiles, Alone, Holding
  <2>5. \A c \in Clients : FirstClient(c)'
    BY <1>1, <1>f, <2>1, <2>4, ClientsStay DEF OnlyDaemon, Gone
  <2> QED
    BY <2>2, <2>3, <2>5
<1> QED
  BY <1>2, <1>3, <1>4, <1>5 DEF StartInv

\* Where a client stands that has found no daemon.
LEMMA NotRunningMoves ==
    ASSUME StartTypeOK, NEW c \in Clients, NotRunning(c)
    PROVE  \E where \in {"wait", "not_running", "spawn"} :
              OnlyClient(c, where) /\ (where = "wait" <=> client[c].polling)
<1>1. client[c].polling \in BOOLEAN
  BY DEF StartTypeOK, ClientRecords
<1>2. PICK where \in {"wait", "not_running", "spawn"} :
         SetC(c, where) /\ (where = "wait" <=> client[c].polling)
  BY <1>1 DEF NotRunning
<1> QED
  BY <1>2, SetCMoves DEF ClientPcs, Returned

\* A step of one client alone: it has only its own part to see to.
LEMMA OneClient ==
    ASSUME StartInv, NEW c \in Clients,
           UNCHANGED <<lock, token, socket, daemon, gen, dir, stops>>,
           client' \in [Clients -> ClientRecords],
           \A b \in Clients : b # c => client'[b] = client[b],
           Spawns(c)',
           client'[c].pc \in {"connected", "mismatch"} /\ ~client'[c].late
             /\ client'[c].spawned \notin {None, client'[c].conn}
             => daemon[client'[c].spawned].pc \in Gone,
           gen = 0 /\ stops = 0 => FirstClient(c)'
    PROVE  StartInv'
<1>1. StartTypeOK' /\ FilesInv'
  BY Parts DEF StartTypeOK, FilesInv, Alone
<1>2. SpawnsInv'
  <2>1. ASSUME NEW b \in Clients, b # c PROVE Spawns(b)'
    BY Parts, <2>1 DEF SpawnsInv, Spawns
  <2> QED
    BY <2>1 DEF SpawnsInv
<1>3. NoneLingers'
  BY Parts DEF NoneLingers
<1>4. FirstInv'
  <2> SUFFICES ASSUME gen = 0, stops = 0
               PROVE  (\A e \in Daemons : FirstDaemon(e)') /\ FirstFiles' /\ \A b \in Clients : FirstClient(b)'
    BY DEF FirstInv
  <2>1. (\A e \in Daemons : FirstDaemon(e)) /\ FirstFiles /\ \A b \in Clients : FirstClient(b)
    BY Parts DEF FirstInv
  <2>2. (\A e \in Daemons : FirstDaemon(e)') /\ FirstFiles'
    BY <2>1 DEF FirstDaemon, FirstFiles
  <2>3. ASSUME NEW b \in Clients, b # c PROVE FirstClient(b)'
    BY <2>1, <2>3 DEF FirstClient
  <2> QED
    BY <2>2, <2>3
<1> QED
  BY <1>1, <1>2, <1>3, <1>4 DEF StartInv

\* Where one client moves and no field but its pc changes.
LEMMA OneClientMoves ==
    ASSUME StartInv, NEW c \in Clients, NEW where \in ClientPcs, OnlyClient(c, where),
           UNCHANGED <<lock, token, socket, daemon, gen, dir, stops>>,
           where \in {"wait", "loser"} => client[c].polling,
           where \in {"stop", "checked", "stopping", "probed", "spawn"} => ~client[c].polling,
           where \in {"hello", "stop", "checked", "loser"} => client[c].conn \in Daemons,
           where \in {"connected", "mismatch"} =>
             client[c].spawned \in {None, client[c].conn} \/ daemon[client[c].spawned].pc \in Gone,
           where \notin {"dial", "hello", "stopping", "probed"},
           gen = 0 /\ stops = 0 =>
             /\ where \notin {"failed", "unauthorized", "timeout"}
             /\ where \in {"stop", "checked", "loser"} => daemon[client[c].conn].pc = "serving"
    PROVE  StartInv'
<1>1. Spawns(c)'
  BY Parts DEF OnlyClient, SpawnsInv, Spawns
<1>2. gen = 0 /\ stops = 0 => FirstClient(c)'
  BY Parts DEF OnlyClient, FirstClient
<1> QED
  BY <1>1, <1>2, OneClient DEF OnlyClient

\* Dial reads the token.
LEMMA ReadTokenKeeps ==
    ASSUME StartInv, NEW c \in Clients, ReadToken(c)
    PROVE  StartInv'
<1>f. UNCHANGED <<lock, token, socket, daemon, gen, dir, stops>>
  BY DEF ReadToken
<1>1. CASE NotRunning(c)
  BY Parts, <1>1, <1>f, NotRunningMoves, OneClientMoves DEF ClientPcs, Returned
<1>2. CASE token # None /\ client' = [client EXCEPT ![c].pc = "dial", ![c].token = token]
  <2>1. client \in [Clients -> ClientRecords] /\ client[c] \in ClientRecords /\ token \in Daemons
    BY Parts, <1>2 DEF StartTypeOK
  <2>2. client'[c] = [client[c] EXCEPT !.pc = "dial", !.token = token]
    BY <1>2, <2>1
  <2>3. /\ client'[c] \in ClientRecords /\ client'[c].pc = "dial" /\ client'[c].token = token
        /\ client'[c].polling = client[c].polling /\ client'[c].spawned = client[c].spawned
        /\ client'[c].exited = client[c].exited
    BY <2>1, <2>2 DEF ClientRecords, ClientPcs
  <2>4. client' \in [Clients -> ClientRecords] /\ \A b \in Clients : b # c => client'[b] = client[b]
    BY <1>2, <2>1, <2>3
  <2>5. Spawns(c)'
    BY Parts, <1>f, <2>3 DEF SpawnsInv, Spawns
  <2>6. FirstClient(c)'
    BY <1>2, <1>f, <2>3 DEF FirstClient
  <2> QED
    BY <1>f, <2>3, <2>4, <2>5, <2>6, OneClient
<1> QED
  BY <1>1, <1>2 DEF ReadToken

\* Dial opens the socket.
LEMMA DialSocketKeeps ==
    ASSUME StartInv, NEW c \in Clients, DialSocket(c)
    PROVE  StartInv'
<1>f. UNCHANGED <<lock, token, socket, daemon, gen, dir, stops>>
  BY DEF DialSocket
<1>1. CASE NotRunning(c)
  BY Parts, <1>1, <1>f, NotRunningMoves, OneClientMoves DEF ClientPcs, Returned
<1>2. CASE /\ socket # None /\ daemon[socket].pc \in {"serving", "closing"}
           /\ client' = [client EXCEPT ![c].pc = "hello", ![c].conn = socket]
  <2>1. client \in [Clients -> ClientRecords] /\ client[c] \in ClientRecords /\ socket \in Daemons
    BY Parts, <1>2 DEF StartTypeOK
  <2>2. client'[c] = [client[c] EXCEPT !.pc = "hello", !.conn = socket]
    BY <1>2, <2>1
  <2>3. /\ client'[c] \in ClientRecords /\ client'[c].pc = "hello" /\ client'[c].conn = socket
        /\ client'[c].polling = client[c].polling /\ client'[c].spawned = client[c].spawned
        /\ client'[c].exited = client[c].exited /\ client'[c].token = client[c].token
    BY <2>1, <2>2 DEF ClientRecords, ClientPcs
  <2>4. client' \in [Clients -> ClientRecords] /\ \A b \in Clients : b # c => client'[b] = client[b]
    BY <1>2, <2>1, <2>3
  <2>5. Spawns(c)'
    BY Parts, <1>f, <2>1, <2>3 DEF SpawnsInv, Spawns
  <2>6. gen = 0 /\ stops = 0 => FirstClient(c)'
    BY Parts, <1>2, <1>f, <2>1, <2>3 DEF FirstInv, FirstClient, FirstFiles, DialSocket
  <2> QED
    BY <1>f, <2>3, <2>4, <2>5, <2>6, OneClient
<1> QED
  BY <1>1, <1>2 DEF DialSocket

\* Nobody stopped: the daemon a client found serves, with the token it read.
LEMMA FoundServes ==
    ASSUME StartInv, NEW c \in Clients, client[c].pc \in {"hello", "stop", "checked", "loser"}
    PROVE  /\ client[c].conn \in Daemons
           /\ gen = 0 /\ stops = 0 =>
                /\ Serving(client[c].conn)
                /\ client[c].pc = "hello" => client[c].token = client[c].conn
<1>1. client[c].conn \in Daemons
  BY Parts DEF SpawnsInv, Spawns
<1>2. ASSUME gen = 0, stops = 0 PROVE daemon[client[c].conn].pc = "serving"
  BY Parts, <1>2 DEF FirstInv, FirstClient
<1>3. ASSUME gen = 0, stops = 0, client[c].pc = "hello" PROVE client[c].token = client[c].conn
  BY Parts, <1>1, <1>2, <1>3 DEF FirstInv, FirstClient, FilesInv, Alone
<1> QED
  BY <1>1, <1>2, <1>3 DEF Serving

\* hello is answered.
LEMMA HelloKeeps ==
    ASSUME StartInv, NEW c \in Clients, Hello(c)
    PROVE  StartInv'
<1>f. UNCHANGED <<lock, token, socket, daemon, gen, dir, stops>>
  BY DEF Hello
<1>1. /\ client[c].pc = "hello" /\ client[c].conn \in Daemons
      /\ client[c].polling \in BOOLEAN /\ client[c].exited \in BOOLEAN
      /\ Spawns(c)
  BY Parts, FoundServes DEF Hello, StartTypeOK, ClientRecords, SpawnsInv
<1>2. PICK where \in {"failed", "unauthorized", "loser", "connected", "mismatch", "stop"} :
         /\ SetC(c, where)
         /\ where = "failed" => ~Serving(client[c].conn)
         /\ where = "unauthorized" => client[c].token # client[c].conn
         /\ where = "loser" => client[c].polling /\ Serving(client[c].conn)
         /\ where = "stop" => ~client[c].polling /\ Serving(client[c].conn)
         /\ where \in {"connected", "mismatch"} /\ client[c].polling =>
              client[c].spawned = client[c].conn \/ client[c].exited
  BY <1>1, Zenon DEF Hello, HelloPolled, HelloFirst
<1>3. OnlyClient(c, where)
  BY Parts, <1>2, SetCMoves DEF ClientPcs, Returned
<1>4. where \in {"connected", "mismatch"} =>
        client[c].spawned \in {None, client[c].conn} \/ daemon[client[c].spawned].pc \in Gone
  BY <1>1, <1>2 DEF Spawns
<1>5. where \in ClientPcs /\ where \notin {"dial", "hello", "stopping", "probed"}
  BY <1>2 DEF ClientPcs, Returned
<1>6. gen = 0 /\ stops = 0 =>
        /\ where \notin {"failed", "unauthorized", "timeout"}
        /\ where \in {"stop", "checked", "loser"} => daemon[client[c].conn].pc = "serving"
  BY <1>1, <1>2, FoundServes DEF Serving
<1> QED
  BY <1>f, <1>1, <1>2, <1>3, <1>4, <1>5, <1>6, OneClientMoves

\* daemon.stop is checked.
LEMMA StopCheckedKeeps ==
    ASSUME StartInv, NEW c \in Clients, StopChecked(c)
    PROVE  StartInv'
<1>f. UNCHANGED <<lock, token, socket, daemon, gen, dir, stops>>
  BY DEF StopChecked
<1>1. client[c].pc = "stop" /\ client[c].conn \in Daemons /\ Spawns(c)
  BY Parts, FoundServes DEF StopChecked, SpawnsInv
<1>2. PICK where \in {"failed", "refused", "checked"} :
         SetC(c, where) /\ (where = "failed" <=> ~Serving(client[c].conn))
  BY DEF StopChecked
<1>3. OnlyClient(c, where) /\ where \in ClientPcs
  BY Parts, <1>2, SetCMoves DEF ClientPcs, Returned
<1>4. gen = 0 /\ stops = 0 => where # "failed" /\ daemon[client[c].conn].pc = "serving"
  BY <1>1, <1>2, FoundServes DEF Serving
<1>5. ~client[c].polling
  BY <1>1 DEF Spawns
<1> QED
  BY <1>f, <1>1, <1>2, <1>3, <1>4, <1>5, OneClientMoves

\* The daemon a client started exited.
LEMMA SpawnedExitsKeeps ==
    ASSUME StartInv, NEW c \in Clients, SpawnedExits(c)
    PROVE  StartInv'
<1>1. /\ UNCHANGED <<lock, token, socket, daemon, gen, dir, stops>>
      /\ client[c].pc = "wait" /\ daemon[client[c].spawned].pc \in Gone
      /\ client' = [client EXCEPT ![c].exited = TRUE, ![c].pc = "read"]
  BY DEF SpawnedExits
<1>2. client \in [Clients -> ClientRecords] /\ client[c] \in ClientRecords
  BY Parts DEF StartTypeOK
<1>3. client'[c] = [client[c] EXCEPT !.exited = TRUE, !.pc = "read"]
  BY <1>1, <1>2
<1>4. /\ client'[c] \in ClientRecords /\ client'[c].pc = "read" /\ client'[c].exited
      /\ client'[c].polling = client[c].polling /\ client'[c].spawned = client[c].spawned
  BY <1>2, <1>3 DEF ClientRecords, ClientPcs
<1>5. client' \in [Clients -> ClientRecords] /\ \A b \in Clients : b # c => client'[b] = client[b]
  BY <1>1, <1>2, <1>4
<1>6. Spawns(c)'
  BY Parts, <1>1, <1>4 DEF SpawnsInv, Spawns
<1>7. FirstClient(c)'
  BY <1>4 DEF FirstClient
<1> QED
  BY <1>1, <1>4, <1>5, <1>6, <1>7, OneClient

\* Nobody stopped: a client that polls always has a daemon to wait for.
LEMMA SomebodyComes ==
    ASSUME StartInv, NEW c \in Clients, client[c].pc = "wait", gen = 0, stops = 0
    PROVE  Coming
<1>1. PICK s \in Daemons : daemon[s].pc # "unborn"
  BY Parts DEF SpawnsInv, Spawns
<1>2. (\A e \in Daemons : FirstDaemon(e) /\ Alone(e)) /\ FirstFiles
  BY Parts DEF FirstInv, FilesInv
<1>3. ASSUME NEW e \in Daemons, daemon[e].pc \in {"born", "locked", "bare", "named", "serving"}
      PROVE  Coming
  BY Parts, <1>2, <1>3 DEF Coming, Alone, Starting, Serving
<1>4. CASE daemon[s].pc = "exited"
  <2>1. lock[0] \in Daemons /\ daemon[lock[0]].pc \in Holding
    BY Parts, <1>2, <1>4 DEF FirstDaemon, FirstFiles
  <2>2. daemon[lock[0]].pc \in {"born", "locked", "bare", "named", "serving"}
    BY <1>2, <2>1 DEF FirstDaemon, Holding
  <2> QED
    BY <1>3, <2>1, <2>2
<1>5. CASE daemon[s].pc # "exited"
  BY <1>1, <1>2, <1>3, <1>5 DEF FirstDaemon
<1> QED
  BY <1>4, <1>5

\* A client gives up: not as long as nobody stopped.
LEMMA TimeoutKeeps ==
    ASSUME StartInv, NEW c \in Clients, Timeout(c)
    PROVE  StartInv'
<1>1. /\ UNCHANGED <<lock, token, socket, daemon, gen, dir, stops>>
      /\ client[c].pc = "stopping" \/ (client[c].pc = "wait" /\ ~Coming)
  BY DEF Timeout
<1>2. OnlyClient(c, "timeout") /\ "timeout" \in ClientPcs
  BY Parts, SetCMoves DEF Timeout, ClientPcs, Returned
<1>3. ~(gen = 0 /\ stops = 0)
  BY Parts, <1>1, SomebodyComes DEF FirstInv, FirstClient
<1> QED
  BY <1>1, <1>2, <1>3, OneClientMoves

\* The ticker.
LEMMA PollKeeps ==
    ASSUME StartInv, NEW c \in Clients, Poll(c)
    PROVE  StartInv'
<1>1. OnlyClient(c, "read") /\ "read" \in ClientPcs
  BY Parts, SetCMoves DEF Poll, ClientPcs
<1> QED
  BY <1>1, OneClientMoves DEF Poll

\* The daemon that lost the race is waited for.
LEMMA AwaitLoserKeeps ==
    ASSUME StartInv, NEW c \in Clients, AwaitLoser(c)
    PROVE  StartInv'
<1>1. /\ UNCHANGED <<lock, token, socket, daemon, gen, dir, stops>>
      /\ client[c].pc = "loser" /\ daemon[client[c].spawned].pc \in Gone \cup {"serving"}
  BY DEF AwaitLoser
<1>2. PICK where \in {"connected", "mismatch"} :
         client' = [client EXCEPT ![c].pc = where, ![c].late = daemon[client[c].spawned].pc = "serving"]
  BY DEF AwaitLoser
<1>3. client \in [Clients -> ClientRecords] /\ client[c] \in ClientRecords
  BY Parts DEF StartTypeOK
<1>4. client'[c] = [client[c] EXCEPT !.pc = where, !.late = daemon[client[c].spawned].pc = "serving"]
  BY <1>2, <1>3
<1>5. /\ client'[c] \in ClientRecords /\ client'[c].pc = where
      /\ client'[c].late <=> daemon[client[c].spawned].pc = "serving"
      /\ client'[c].polling = client[c].polling /\ client'[c].spawned = client[c].spawned
      /\ client'[c].exited = client[c].exited
  BY <1>3, <1>4 DEF ClientRecords, ClientPcs, Returned
<1>6. client' \in [Clients -> ClientRecords] /\ \A b \in Clients : b # c => client'[b] = client[b]
  BY <1>2, <1>3, <1>5
<1>7. Spawns(c)'
  BY Parts, <1>1, <1>2, <1>5 DEF SpawnsInv, Spawns
<1>8. FirstClient(c)'
  BY <1>2, <1>5 DEF FirstClient
<1>9. ~client'[c].late => daemon[client'[c].spawned].pc \in Gone
  BY <1>1, <1>5
<1> QED
  BY <1>1, <1>6, <1>7, <1>8, <1>9, OneClient

\* A daemon of another build stops for a client, or was gone before.
LEMMA StopStaleKeeps ==
    ASSUME StartInv, NEW c \in Clients, StopStale(c)
    PROVE  StartInv'
<1>1. /\ client[c].pc = "checked" /\ client[c].conn \in Daemons /\ ~client[c].polling
      /\ gen = 0 /\ stops = 0 => Serving(client[c].conn)
  BY Parts, FoundServes DEF StopStale, SpawnsInv, Spawns
<1>2. CASE ~Serving(client[c].conn)
  <2>1. OnlyClient(c, "failed") /\ "failed" \in ClientPcs
    BY Parts, <1>2, SetCMoves DEF StopStale, ClientPcs, Returned
  <2> QED
    BY <1>1, <1>2, <2>1, OneClientMoves DEF StopStale
<1>3. CASE Serving(client[c].conn)
  <2>1. PICK d \in Daemons : d = client[c].conn
    BY <1>1
  <2>f. /\ UNCHANGED <<lock, token, socket, gen, dir>> /\ stops' = stops + 1
        /\ daemon' = [daemon EXCEPT ![d].pc = "closing", ![d].sessions = 0]
        /\ SetC(c, "stopping") /\ daemon[d].pc = "serving"
    BY <1>3, <2>1 DEF StopStale, Serving
  <2>2. daemon \in [Daemons -> DaemonRecords] /\ daemon[d] \in DaemonRecords
    BY Parts DEF StartTypeOK
  <2>3. daemon'[d] = [daemon[d] EXCEPT !.pc = "closing", !.sessions = 0]
    BY <2>f, <2>2
  <2>4. daemon'[d] \in DaemonRecords /\ daemon'[d].pc = "closing" /\ daemon'[d].file = daemon[d].file
    BY <2>2, <2>3 DEF DaemonRecords, DaemonPcs, Holding
  <2>5. OnlyDaemon(d, "closing")
    BY <2>f, <2>2, <2>4 DEF OnlyDaemon
  <2>6. OnlyClient(c, "stopping")
    BY Parts, <2>f, SetCMoves DEF ClientPcs
  <2>7. StartTypeOK'
    BY Parts, <2>f, <2>5, <2>6 DEF StartTypeOK, OnlyDaemon, OnlyClient
  <2>8. FilesInv'
    BY Parts, <2>f, <2>4, <2>5 DEF FilesInv, Alone, OnlyDaemon, Holding
  <2>9. /\ \A e \in Daemons : /\ daemon[e].pc \in Gone => daemon'[e].pc \in Gone
                              /\ daemon[e].pc # "unborn" => daemon'[e].pc # "unborn"
    BY <2>f, <2>5 DEF OnlyDaemon, Gone
  <2>10. SpawnsInv'
    BY Parts, <1>1, <2>6, <2>9 DEF SpawnsInv, Spawns, OnlyClient
  <2>11. NoneLingers'
    BY Parts, <1>1, <2>6, <2>9 DEF NoneLingers, OnlyClient, StartTypeOK, ClientRecords
  <2>12. FirstInv'
    BY Parts, <2>f DEF FirstInv
  <2> QED
    BY <2>7, <2>8, <2>10, <2>11, <2>12 DEF StartInv
<1> QED
  BY <1>2, <1>3

\* WaitStopped locks, and unlocks.
LEMMA ProbeKeeps ==
    ASSUME StartInv, NEW c \in Clients, Probe(c) \/ ProbeEnds(c)
    PROVE  StartInv'
<1>f. UNCHANGED <<token, socket, daemon, gen, dir, stops>>
  BY DEF Probe, ProbeEnds
<1>1. client[c].pc \in {"stopping", "probed"} /\ ~client[c].polling /\ client[c].spawned = None
  BY Parts DEF Probe, ProbeEnds, SpawnsInv, Spawns
<1>2. PICK where \in {"probed", "failed", "not_running", "spawn"} : OnlyClient(c, where)
  BY Parts, SetCMoves DEF Probe, ProbeEnds, ClientPcs, Returned
<1>3. /\ lock' \in [0 .. MaxWipes -> Clients \cup Daemons \cup {None}]
      /\ \A d \in Daemons, g \in 0 .. MaxWipes : lock[g] = d => lock'[g] = d
  BY Parts DEF Probe, ProbeEnds
<1>4. ~(gen = 0 /\ stops = 0)
  BY Parts, <1>1 DEF FirstInv, FirstClient
<1>5. StartTypeOK'
  BY Parts, <1>f, <1>2, <1>3 DEF StartTypeOK, OnlyClient
<1>6. FilesInv'
  BY Parts, <1>f, <1>3 DEF FilesInv, Alone
<1>7. SpawnsInv'
  BY Parts, <1>f, <1>1, <1>2 DEF SpawnsInv, Spawns, OnlyClient
<1>8. NoneLingers'
  BY Parts, <1>f, <1>2 DEF NoneLingers, OnlyClient
<1>9. FirstInv'
  BY <1>f, <1>4 DEF FirstInv
<1> QED
  BY <1>5, <1>6, <1>7, <1>8, <1>9 DEF StartInv

\* A client starts a daemon.
LEMMA SpawnKeeps ==
    ASSUME StartInv, NEW c \in Clients, Spawn(c)
    PROVE  StartInv'
<1>f. UNCHANGED <<lock, token, socket, gen, stops>> /\ dir' = TRUE /\ client[c].pc = "spawn"
  BY DEF Spawn
<1>1. PICK d \in Daemons :
         /\ daemon[d].pc = "unborn"
         /\ daemon' = [daemon EXCEPT ![d] = [NewDaemon EXCEPT !.pc = "born", !.build = Info[c]]]
         /\ client' = [client EXCEPT ![c].pc = "read", ![c].polling = TRUE,
                                     ![c].spawned = d, ![c].conn = None]
  BY DEF Spawn
<1>2. OnlyDaemon(d, "born")
  <2>1. /\ [NewDaemon EXCEPT !.pc = "born", !.build = Info[c]] \in DaemonRecords
        /\ [NewDaemon EXCEPT !.pc = "born", !.build = Info[c]].pc = "born"
    BY Parts DEF NewDaemon, DaemonRecords, DaemonPcs
  <2> QED
    BY Parts, <1>1, <2>1 DEF OnlyDaemon, StartTypeOK
<1>3. client \in [Clients -> ClientRecords] /\ client[c] \in ClientRecords
  BY Parts DEF StartTypeOK
<1>4. client'[c] = [client[c] EXCEPT !.pc = "read", !.polling = TRUE, !.spawned = d, !.conn = None]
  BY <1>1, <1>3
<1>5. /\ client'[c] \in ClientRecords /\ client'[c].pc = "read" /\ client'[c].polling
      /\ client'[c].spawned = d /\ client'[c].exited = client[c].exited
  BY <1>3, <1>4 DEF ClientRecords, ClientPcs
<1>6. client' \in [Clients -> ClientRecords] /\ \A b \in Clients : b # c => client'[b] = client[b]
  BY <1>1, <1>3, <1>5
<1>7. StartTypeOK'
  BY Parts, <1>f, <1>2, <1>6 DEF StartTypeOK, OnlyDaemon
<1>8. FilesInv'
  BY Parts, <1>f, <1>1, <1>2 DEF FilesInv, Alone, OnlyDaemon, Holding
<1>9. \A e \in Daemons : /\ daemon[e].pc # "unborn" => e # d /\ daemon'[e] = daemon[e]
                         /\ daemon'[e].pc # "unborn" => e = d \/ daemon'[e] = daemon[e]
  BY <1>1, <1>2 DEF OnlyDaemon
<1>10. Spawns(c) /\ ~client[c].polling /\ ~client[c].exited
  BY Parts, <1>f DEF SpawnsInv, Spawns
<1>11. SpawnsInv'
  <2>1. Spawns(c)'
    BY <1>2, <1>5, <1>10 DEF Spawns, OnlyDaemon
  <2>2. ASSUME NEW b \in Clients, b # c PROVE Spawns(b)'
    BY Parts, <1>6, <1>9, <2>2 DEF SpawnsInv, Spawns
  <2> QED
    BY <2>1, <2>2 DEF SpawnsInv
<1>12. NoneLingers'
  BY Parts, <1>3, <1>5, <1>6, <1>9 DEF NoneLingers, SpawnsInv, Spawns, ClientRecords, Gone
<1>13. FirstInv'
  <2> SUFFICES ASSUME gen = 0, stops = 0
               PROVE  (\A e \in Daemons : FirstDaemon(e)') /\ FirstFiles' /\ \A b \in Clients : FirstClient(b)'
    BY <1>f DEF FirstInv
  <2>1. (\A e \in Daemons : FirstDaemon(e)) /\ FirstFiles /\ \A b \in Clients : FirstClient(b)
    BY Parts DEF FirstInv
  <2>2. \A e \in Daemons : FirstDaemon(e)'
    BY <1>f, <1>2, <2>1 DEF FirstDaemon, OnlyDaemon, Holding
  <2>3. FirstFiles'
    BY Parts, <1>f, <1>9, <2>1 DEF FirstFiles, Holding
  <2>4. FirstClient(c)'
    BY <1>5 DEF FirstClient
  <2>5. ASSUME NEW b \in Clients, b # c PROVE FirstClient(b)'
    BY Parts, <1>f, <1>6, <1>9, <2>1, <2>5 DEF FirstClient, SpawnsInv, Spawns
  <2> QED
    BY <2>2, <2>3, <2>4, <2>5
<1> QED
  BY <1>7, <1>8, <1>11, <1>12, <1>13 DEF StartInv

\* The runtime directory is removed: nothing is claimed of what comes then but
\* that no loser lingers.
LEMMA WipeKeeps ==
    ASSUME StartInv, Wipe
    PROVE  StartInv'
<1>1. /\ UNCHANGED <<lock, daemon, client, stops>> /\ gen' \in 0 .. MaxWipes /\ gen' # 0
      /\ dir' = FALSE /\ token' = None /\ socket' = None
  BY Parts DEF Wipe
<1>2. StartTypeOK'
  BY Parts, <1>1 DEF StartTypeOK
<1>3. SpawnsInv' /\ NoneLingers'
  BY Parts, <1>1 DEF SpawnsInv, Spawns, NoneLingers
<1> QED
  BY <1>1, <1>2, <1>3 DEF StartInv, FilesInv, FirstInv

----------------------------------------------------------------------------
(***************************************************************************)
(* The theorems.                                                           *)
(***************************************************************************)

\* The inductive invariant.
THEOREM StartKept == Spec => []StartInv
<1>1. Init => StartInv
  <2> SUFFICES ASSUME Init PROVE StartInv
    OBVIOUS
  <2>1. /\ lock = [g \in 0 .. MaxWipes |-> None] /\ token = None /\ socket = None /\ gen = 0
        /\ dir = FALSE /\ stops = 0
        /\ \A d \in Daemons : daemon[d] = NewDaemon
        /\ \A c \in Clients : client[c] = NewClient
    BY DEF Init
  <2>2. NewDaemon \in DaemonRecords /\ NewClient \in ClientRecords
    BY DaemonStartAssumption
       DEF NewDaemon, DaemonRecords, DaemonPcs, NewClient, ClientRecords, ClientPcs
  <2>3. StartTypeOK
    <3>1. daemon \in [Daemons -> DaemonRecords] /\ client \in [Clients -> ClientRecords]
      BY <2>2 DEF Init
    <3>2. 0 \in 0 .. MaxWipes /\ lock \in [0 .. MaxWipes -> Clients \cup Daemons \cup {None}]
      BY <2>1, DaemonStartAssumption
    <3> QED
      BY <2>1, <3>1, <3>2 DEF StartTypeOK
  <2>4. FilesInv
    BY <2>1 DEF FilesInv, Alone, NewDaemon, Holding
  <2>5. SpawnsInv /\ NoneLingers
    BY <2>1 DEF SpawnsInv, Spawns, NoneLingers, NewClient
  <2>6. FirstInv
    BY <2>1, DaemonStartAssumption
       DEF FirstInv, FirstDaemon, FirstFiles, FirstClient, NewDaemon, NewClient, Holding
  <2> QED
    BY <2>3, <2>4, <2>5, <2>6 DEF StartInv
<1>2. StartInv /\ [Next]_vars => StartInv'
  <2> SUFFICES ASSUME StartInv, [Next]_vars PROVE StartInv'
    OBVIOUS
  <2>1. CASE UNCHANGED vars
    <3>1. UNCHANGED <<lock, token, socket, daemon, client, gen, dir, stops>>
      BY <2>1 DEF vars
    <3>2. StartTypeOK' /\ FilesInv'
      BY Parts, <3>1 DEF StartTypeOK, FilesInv, Alone
    <3>3. SpawnsInv' /\ NoneLingers'
      BY Parts, <3>1 DEF SpawnsInv, Spawns, NoneLingers
    <3>4. FirstInv'
      BY Parts, <3>1 DEF FirstInv, FirstDaemon, FirstFiles, FirstClient
    <3> QED
      BY <3>2, <3>3, <3>4 DEF StartInv
  <2>2. ASSUME NEW d \in Daemons, DaemonStep(d) \/ Shutdown(d) \/ Crash(d) \/ SessionStarts(d)
        PROVE  StartInv'
    BY <2>2, LockKeeps, RemoveStaleKeeps, WriteTokenKeeps, ListenKeeps, ShutdownKeeps,
       CloseListenerKeeps, ReleaseKeeps, CrashKeeps, SessionStartsKeeps DEF DaemonStep
  <2>3. ASSUME NEW c \in Clients, ClientStep(c) \/ Poll(c)
        PROVE  StartInv'
    BY <2>3, ReadTokenKeeps, DialSocketKeeps, HelloKeeps, StopCheckedKeeps, StopStaleKeeps,
       ProbeKeeps, SpawnKeeps, SpawnedExitsKeeps, TimeoutKeeps, AwaitLoserKeeps, PollKeeps
       DEF ClientStep
  <2> QED
    BY <2>1, <2>2, <2>3, WipeKeeps DEF Next
<1> QED
  BY <1>1, <1>2, PTL DEF Spec

\* While the runtime directory stays, a daemon that serves is the only one, and
\* the token and the socket clients find are its own, whatever starts, stops
\* and crashes there are (server.go: Serve, "the winner may remove any socket or
\* token file it finds, since they can only be stale").
THEOREM ServersAlone == Spec => []FilesAreServers
<1>1. StartInv => FilesAreServers
  BY Parts DEF FilesInv, Alone, FilesAreServers, ServesAlone, Serving, Holding
<1> QED
  BY <1>1, StartKept, PTL

\* Clients that start a daemon at once meet at one: until a daemon stops or the
\* directory goes no Connect fails, is refused its token or times out, and no
\* daemon that lost the race is left behind (start.go: start, awaitLoser).
THEOREM StartsMeetAtOne == Spec => []StartsMeet
<1>1. StartInv => StartsMeet
  BY Parts DEF FirstInv, FirstClient, StartsMeet, NoLostStart
<1> QED
  BY <1>1, StartKept, PTL
=============================================================================
