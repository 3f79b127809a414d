--------------------------- MODULE SessionsProofs ---------------------------
(***************************************************************************)
(* The daemon's sessions: the manager that starts, keeps and forgets them  *)
(* (SessionRegistry), and the requests that wait for some of them          *)
(* (GroupWait).                                                            *)
(***************************************************************************)
EXTENDS SessionRegistry, GroupWait, TLAPS, WellFoundedInduction

----------------------------------------------------------------------------
(***************************************************************************)
(* The daemon's sessions (internal/session/manager.go, claims.go): no two  *)
(* sessions debug one process, and, as long as no id is drawn twice, no    *)
(* stopped session's metadata comes back and every session is accounted    *)
(* for, for any starts, requests, ids, processes and restarts.             *)
(*                                                                         *)
(* The argument: a session that holds its debuggee has its claim, since a  *)
(* claim is only given back, or taken over, once its session exited, and   *)
(* claims never conflict.  A session's id names it alone, so whoever takes *)
(* it out of the map is the one that removes its file after that, and its  *)
(* file is not written again.                                              *)
(***************************************************************************)

StartPcs == {"idle", "claim", "claimed", "adapter", "add", "save", "configure",
             "fail", "failRemove", "forget", "release", "done"}
WatchPcs == {"idle", "waiting", "save", "done"}
CallPcs  == {"idle", "end", "release", "remove", "forget", "stopAll", "each", "done"}

\* Where a start is before its adapter runs, and once its session was mapped.
Early == {"idle", "claim", "claimed", "adapter"}
Added == {"save", "configure", "fail", "failRemove", "forget", "release", "done"}

Kinds == {"none", "lost", "stop", "detach", "stopAll"}

RegistryTypeOK ==
    /\ sessions \in [Ids -> Sessions \cup {None}]
    /\ lost \subseteq Ids
    /\ claims \in [Keys -> Sessions \cup {None}]
    /\ id \in [Sessions -> Ids \cup {None}]
    /\ target \in [Sessions -> Keys \cup {"host"}]
    /\ exited \in [Sessions -> BOOLEAN] /\ attached \in [Sessions -> BOOLEAN]
    /\ disk \in [Ids -> Sessions \cup {None}]
    /\ pc \in [Threads -> StartPcs \cup WatchPcs \cup CallPcs]
    /\ found \in [Sessions -> SUBSET (Keys \X Sessions)]
    /\ call \in [Callers -> [kind : Kinds, session : Sessions \cup {None}, id : Ids \cup {None}]]
    /\ left \in [Callers -> SUBSET Sessions]
    /\ daemon \in {"up", "canceled", "down", "crashed"}

\* Where a thread is, by its kind; a session is watched once its start is over.
Places ==
    /\ \A s \in Sessions : pc[Start(s)] \in StartPcs /\ pc[Watch(s)] \in WatchPcs
    /\ \A c \in Callers : pc[Call(c)] \in CallPcs
    /\ \A s \in Sessions : pc[Start(s)] = "idle" <=> id[s] = None
    /\ \A s \in Sessions : pc[Start(s)] \in {"claim", "claimed"} => target[s] \in Keys
    /\ \A s \in Sessions : pc[Watch(s)] # "idle" => pc[Start(s)] = "done"

\* What the map, the requests and StopAll name was added under its id.
Names ==
    /\ \A i \in Ids : sessions[i] # None => id[sessions[i]] = i /\ pc[Start(sessions[i])] \in Added
    /\ \A c \in Callers : pc[Call(c)] \in {"end", "release", "remove"} =>
          call[c].session \in Sessions /\ pc[Start(call[c].session)] \in Added
    /\ \A c \in Callers : pc[Call(c)] \in {"release", "remove"} => exited[call[c].session]
    /\ \A c \in Callers : \A s \in left[c] : pc[Start(s)] \in Added

\* A session is attached from its adapter's start until it exits.
Lives ==
    /\ \A s \in Sessions : exited[s] => ~attached[s] /\ pc[Start(s)] \notin Early
    /\ \A s \in Sessions : attached[s] =>
          \/ pc[Start(s)] \in {"add", "save", "configure", "fail"}
          \/ pc[Start(s)] = "done" /\ pc[Watch(s)] = "waiting"

\* Claims never conflict, and are on what their sessions debug; a session has
\* its own while its adapter holds the debuggee, and before.
Claims ==
    /\ \A k \in Keys : claims[k] # None =>
          target[claims[k]] = k /\ pc[Start(claims[k])] # "idle"
    /\ \A k, l \in Keys : claims[k] # None /\ claims[l] # None /\ Conflicts(k, l) => k = l
    /\ \A s \in Sessions :
          (attached[s] \/ pc[Start(s)] = "adapter") /\ target[s] \in Keys => claims[target[s]] = s

ClaimsInv == RegistryTypeOK /\ Places /\ Names /\ Lives /\ Claims

\* An id names one session, on disk and to requests; what is lost has exited.
Identity ==
    /\ \A s, r \in Sessions : id[s] # None /\ id[s] = id[r] => s = r
    /\ \A i \in Ids : disk[i] # None => id[disk[i]] = i
    /\ \A c \in Callers : pc[Call(c)] \in {"end", "release", "remove"} =>
          id[call[c].session] = call[c].id
    /\ \A c \in Callers : pc[Call(c)] = "forget" =>
          \E r \in Sessions : id[r] = call[c].id /\ exited[r]
    /\ \A i \in lost : \E r \in Sessions : id[r] = i /\ exited[r]

\* StopAll, a request's and the server's own, ends what it listed.
Stops ==
    /\ \A c \in Callers : pc[Call(c)] \in {"stopAll", "each"} => call[c].kind = "stopAll"
    /\ \A c \in Callers : left[c] # {} =>
          call[c].kind = "stopAll" /\ pc[Call(c)] \in {"each", "end", "release", "forget"}
    /\ daemon # "canceled" => pc[Serve] = "idle"
    /\ daemon = "canceled" =>
          call[None].kind = "stopAll" /\ pc[Serve] \in {"stopAll", "each", "end", "release", "forget"}
    /\ daemon = "canceled" /\ pc[Serve] # "stopAll" =>
          \A i \in Ids : sessions[i] # None =>
             pc[Start(sessions[i])] \in {"save", "configure", "fail", "failRemove"}

\* Between two daemons nothing runs.
Ended ==
    ~Alive =>
        /\ \A s \in Sessions : /\ pc[Start(s)] \in {"idle", "done"} /\ pc[Watch(s)] \in {"idle", "done"}
                               /\ id[s] # None => exited[s]
        /\ \A c \in Callers : pc[Call(c)] \in {"idle", "done"}
        /\ \A i \in Ids : sessions[i] = None

\* Whoever unmapped a session is on its way to its file.
Going ==
    \A i \in Ids : disk[i] # None =>
        \/ sessions[i] = disk[i] \/ i \in lost \/ ~Alive
        \/ \E s \in Sessions : id[s] = i /\ pc[Start(s)] = "forget"
        \/ \E c \in Callers :
              \/ call[c].id = i /\ pc[Call(c)] = "forget"
              \/ call[c].id = i /\ call[c].kind = "stopAll" /\ pc[Call(c)] \in {"end", "release"}
              \/ \E s \in left[c] : id[s] = i

\* A session is in the map and, once saved, on disk, until it is being ended.
Kept ==
    /\ \A s \in Sessions :
          ~exited[s] /\ (pc[Start(s)] \in {"save", "configure"} \/ pc[Watch(s)] = "waiting") =>
             \/ Mapped(s)
             \/ \E c \in Callers : s \in left[c] \/ (call[c].session = s /\ pc[Call(c)] = "end")
    /\ \A s \in Sessions :
          ~exited[s] /\ (pc[Start(s)] = "configure" \/ pc[Watch(s)] = "waiting") /\ Mapped(s) =>
             disk[id[s]] = s

Accounts == Identity /\ Stops /\ Ended /\ Going /\ Kept
----------------------------------------------------------------------------
(***************************************************************************)
(* The threads.                                                            *)
(***************************************************************************)

\* Threads are told apart by their kind and by whose they are.
LEMMA ThreadsApart ==
    /\ \A s \in Sessions : Start(s) \in Threads /\ Watch(s) \in Threads
    /\ \A c \in Callers : Call(c) \in Threads
    /\ \A s, r : Start(s) = Start(r) => s = r
    /\ \A s, r : Watch(s) = Watch(r) => s = r
    /\ \A c, d : Call(c) = Call(d) => c = d
    /\ \A s, r : Start(s) # Watch(r) /\ Start(s) # Call(r) /\ Watch(s) # Call(r)
  BY DEF Threads, Start, Watch, Call

\* Only the start of s moves.
OnlyStart(s) ==
    /\ pc' \in [Threads -> StartPcs \cup WatchPcs \cup CallPcs]
    /\ \A r \in Sessions : r # s => pc'[Start(r)] = pc[Start(r)]
    /\ \A r \in Sessions : pc'[Watch(r)] = pc[Watch(r)]
    /\ \A c \in Callers : pc'[Call(c)] = pc[Call(c)]

\* Only the watcher of s moves.
OnlyWatch(s) ==
    /\ pc' \in [Threads -> StartPcs \cup WatchPcs \cup CallPcs]
    /\ \A r \in Sessions : r # s => pc'[Watch(r)] = pc[Watch(r)]
    /\ \A r \in Sessions : pc'[Start(r)] = pc[Start(r)]
    /\ \A c \in Callers : pc'[Call(c)] = pc[Call(c)]

\* Only the request of c moves.
OnlyCall(c) ==
    /\ pc' \in [Threads -> StartPcs \cup WatchPcs \cup CallPcs]
    /\ \A d \in Callers : d # c => pc'[Call(d)] = pc[Call(d)]
    /\ \A r \in Sessions : pc'[Start(r)] = pc[Start(r)] /\ pc'[Watch(r)] = pc[Watch(r)]

\* A start goes somewhere else.
LEMMA GotoStart ==
    ASSUME RegistryTypeOK, NEW s \in Sessions, NEW where \in StartPcs, Goto(Start(s), where)
    PROVE  OnlyStart(s) /\ pc'[Start(s)] = where
  BY ThreadsApart DEF RegistryTypeOK, Goto, OnlyStart

\* A watcher goes somewhere else.
LEMMA GotoWatch ==
    ASSUME RegistryTypeOK, NEW s \in Sessions, NEW where \in WatchPcs, Goto(Watch(s), where)
    PROVE  OnlyWatch(s) /\ pc'[Watch(s)] = where
  BY ThreadsApart DEF RegistryTypeOK, Goto, OnlyWatch

\* A request goes somewhere else.
LEMMA GotoCall ==
    ASSUME RegistryTypeOK, NEW c \in Callers, NEW where \in CallPcs, Goto(Call(c), where)
    PROVE  OnlyCall(c) /\ pc'[Call(c)] = where
  BY ThreadsApart DEF RegistryTypeOK, Goto, OnlyCall

\* A step that frees no id of a session still named, and loses none of those
\* that are on their way to a file, keeps them all.
LEMMA GoingFrame ==
    ASSUME Going, Alive, UNCHANGED <<id, lost>>,
           \A i \in Ids : disk'[i] # None => disk'[i] = disk[i],
           \A i \in Ids : sessions[i] # None => sessions'[i] = sessions[i],
           \A s \in Sessions : pc[Start(s)] = "forget" => pc'[Start(s)] = "forget",
           \A c \in Callers :
               /\ left[c] \subseteq left'[c]
               /\ pc[Call(c)] = "forget" => pc'[Call(c)] = "forget" /\ call'[c].id = call[c].id
               /\ pc[Call(c)] \in {"end", "release"} /\ call[c].kind = "stopAll" =>
                     /\ call'[c].id = call[c].id /\ call'[c].kind = "stopAll"
                     /\ pc'[Call(c)] \in {"end", "release", "forget"}
    PROVE  Going'
  BY DEF Going

\* The parts of the invariant, and what the constants are assumed to be.
LEMMA Parts ==
    ASSUME ClaimsInv
    PROVE  /\ RegistryTypeOK /\ Places /\ Names /\ Lives /\ Claims
           /\ None \notin Sessions \cup Ids \cup Calls
           /\ Targets \subseteq Keys \cup {"host"} /\ "host" \notin Keys
           /\ sessions \in [Ids -> Sessions \cup {None}] /\ claims \in [Keys -> Sessions \cup {None}]
           /\ left \in [Callers -> SUBSET Sessions] /\ disk \in [Ids -> Sessions \cup {None}]
           /\ id \in [Sessions -> Ids \cup {None}] /\ None \in Callers
  BY RegistryAssumption DEF ClaimsInv, RegistryTypeOK, Keys, Callers

\* A start draws an id: unless ids are drawn twice, one that names nothing yet.
LEMMA CreateKeeps ==
    ASSUME ClaimsInv, NEW s \in Sessions, NEW i \in Ids, NEW k \in Targets, Create(s, i, k)
    PROVE  ClaimsInv' /\ (Reuse = FALSE /\ Accounts => Accounts')
<1>1. /\ pc[Start(s)] = "idle" /\ OnlyStart(s) /\ pc'[Start(s)] \in {"adapter", "claim"}
  BY Parts, GotoStart DEF Create, NewID, Claiming, StartPcs, Callers
<1>f. UNCHANGED <<sessions, lost, claims, exited, attached, disk, found, call, left, daemon, restarts>>
  BY DEF Create, NewID, Claiming, managerVars, sessionVars, threadVars, daemonVars
<1>a. /\ id' = [id EXCEPT ![s] = i] /\ target' = [target EXCEPT ![s] = k]
      /\ (k = "host" => pc'[Start(s)] = "adapter") /\ (k # "host" => pc'[Start(s)] = "claim")
      /\ \A r \in Sessions : Reuse \/ id[r] # i
  BY Parts, <1>1, <1>f, GotoStart DEF Create, NewID, Claiming, StartPcs
<1>b. /\ \A r \in Sessions : r # s => id'[r] = id[r] /\ target'[r] = target[r]
      /\ id'[s] = i /\ target'[s] = k /\ i # None
  BY Parts, <1>a DEF RegistryTypeOK
<1>2. RegistryTypeOK'
  BY Parts, <1>1, <1>f DEF Create, NewID, Claiming, OnlyStart, RegistryTypeOK
<1>3. Places'
  BY Parts, <1>1, <1>a, <1>b DEF OnlyStart, Places, StartPcs
<1>4. Names'
  BY Parts, <1>1, <1>f DEF Create, NewID, Claiming, OnlyStart, Names, Added, Callers
<1>5. Lives'
  BY Parts, <1>1, <1>f DEF OnlyStart, Lives, Early
<1>6. Claims'
  BY Parts, <1>1, <1>a, <1>b, <1>f DEF OnlyStart, Claims, Lives, Early
<1>7. ASSUME Reuse = FALSE, Accounts PROVE Accounts'
  <2>t. Identity /\ Stops /\ Ended /\ Going /\ Kept
    BY <1>7 DEF Accounts
  <2>e. Alive
    BY Parts, <1>1, <2>t DEF Create, NewID, Claiming, Ended, Callers
  <2>0. Alive' /\ Ended'
    BY <1>f, <2>e DEF Alive, Ended
  <2>1. Identity'
    <3>0. /\ \A r \in Sessions : id[r] # i
          /\ id[s] = None /\ ~exited[s]
      BY Parts, <1>1, <1>a, <1>7 DEF Places, Lives, Early
    <3>1. \A q, r \in Sessions : id'[q] # None /\ id'[q] = id'[r] => q = r
      BY <1>b, <2>t, <3>0 DEF Identity
    <3>2. \A j \in Ids : disk'[j] # None => id'[disk'[j]] = j
      BY Parts, <1>b, <1>f, <2>t, <3>0 DEF Identity
    <3>3. \A c \in Callers : pc'[Call(c)] \in {"end", "release", "remove"} =>
             id'[call'[c].session] = call'[c].id
      BY Parts, <1>1, <1>b, <1>f, <2>t DEF OnlyStart, Identity, Names, Added
    <3>4. \A r \in Sessions : exited[r] => id'[r] = id[r]
      BY <1>b, <3>0
    <3> QED
      BY <1>1, <1>f, <2>t, <3>1, <3>2, <3>3, <3>4 DEF OnlyStart, Identity
  <2>2. Stops'
    BY Parts, <1>1, <1>f, <2>t, <2>e, <2>0 DEF Create, NewID, Claiming, OnlyStart, Stops, Names, Serve,
       RegistryTypeOK, Added, Early, Callers
  <2>3. Going'
    BY Parts, <1>1, <1>f, <2>t, <2>e, <2>0 DEF Create, NewID, Claiming, OnlyStart, Going, Identity, Names,
       RegistryTypeOK, Added, Early, Callers
  <2>4. Kept'
    <3>1. /\ \A r \in Sessions : r # s => id'[r] = id[r] /\ pc'[Start(r)] = pc[Start(r)]
          /\ pc'[Start(s)] \notin {"save", "configure"} /\ pc'[Watch(s)] = "idle"
      BY Parts, <1>1, <1>b DEF OnlyStart, Places
    <3> QED
      BY <1>1, <1>f, <2>t, <3>1 DEF OnlyStart, Kept, Mapped
  <2> QED
    BY <2>0, <2>1, <2>2, <2>3, <2>4 DEF Accounts
<1> QED
  BY <1>2, <1>3, <1>4, <1>5, <1>6, <1>7 DEF ClaimsInv

\* claim: the key is taken when no claim conflicts with it; else the
\* holders found are looked at next.
LEMMA ClaimKeeps ==
    ASSUME ClaimsInv, NEW s \in Sessions, Claim(s)
    PROVE  ClaimsInv' /\ (Accounts => Accounts')
<1>1. /\ pc[Start(s)] = "claim" /\ OnlyStart(s) /\ pc'[Start(s)] \in {"adapter", "claimed"}
  BY Parts, GotoStart DEF Claim, Conflicts, StartPcs, Callers
<1>f. UNCHANGED <<sessions, lost, id, target, exited, attached, disk, call, left, daemon, restarts>>
  BY DEF Claim, Conflicts, managerVars, sessionVars, threadVars, daemonVars
<1>a. /\ UNCHANGED <<sessions, id, target, exited, attached, call, left>> /\ pc[Start(s)] = "claim" /\ target[s] \in Keys
      /\ \/ /\ pc'[Start(s)] = "adapter" /\ claims' = [claims EXCEPT ![target[s]] = s]
            /\ \A k \in Keys : claims[k] # None => ~Conflicts(target[s], k)
         \/ pc'[Start(s)] = "claimed" /\ claims' = claims
  BY Parts, <1>1, <1>f, GotoStart DEF Claim, StartPcs, Places, sessionVars
<1>2. RegistryTypeOK'
  BY Parts, <1>1, <1>f DEF Claim, Conflicts, OnlyStart, RegistryTypeOK, Kinds, Callers, Alive
<1>3. Places'
  BY Parts, <1>1, <1>f DEF OnlyStart, Places, StartPcs
<1>4. Names'
  BY Parts, <1>1, <1>a DEF OnlyStart, Names, Added
<1>5. Lives'
  BY Parts, <1>1, <1>f DEF OnlyStart, Lives, Early
<1>6. Claims'
  <2>1. CASE pc'[Start(s)] = "claimed" /\ claims' = claims
    <3>1. \A k \in Keys : claims'[k] # None => target'[claims'[k]] = k /\ pc'[Start(claims'[k])] # "idle"
      BY Parts, <1>1, <1>a, <2>1 DEF OnlyStart, Claims
    <3>2. \A r \in Sessions : pc'[Start(r)] = "adapter" => pc[Start(r)] = "adapter"
      BY <1>1, <2>1 DEF OnlyStart
    <3> QED
      BY Parts, <1>a, <2>1, <3>1, <3>2 DEF Claims
  <2>2. CASE /\ pc'[Start(s)] = "adapter" /\ claims' = [claims EXCEPT ![target[s]] = s]
             /\ \A k \in Keys : claims[k] # None => ~Conflicts(target[s], k)
    <3>1. \A k \in Keys : claims'[k] = IF k = target[s] THEN s ELSE claims[k]
      BY Parts, <2>2 DEF RegistryTypeOK
    <3>2. \A k, l \in Keys : Conflicts(k, l) => Conflicts(l, k)
      BY DEF Conflicts
    <3>3. \A k \in Keys : claims'[k] # None => target'[claims'[k]] = k /\ pc'[Start(claims'[k])] # "idle"
      BY Parts, <1>1, <1>a, <2>2, <3>1 DEF OnlyStart, Claims
    <3>4. \A k, l \in Keys : claims'[k] # None /\ claims'[l] # None /\ Conflicts(k, l) => k = l
      BY Parts, <2>2, <3>1, <3>2 DEF Claims
    <3>5. claims[target[s]] = None
      BY <1>a, <2>2 DEF Conflicts
    <3>6. \A r \in Sessions :
            (attached'[r] \/ pc'[Start(r)] = "adapter") /\ target'[r] \in Keys => claims'[target'[r]] = r
      BY Parts, <1>1, <1>a, <2>2, <3>1, <3>5 DEF OnlyStart, Claims
    <3> QED
      BY <3>3, <3>4, <3>6 DEF Claims
  <2> QED
    BY <1>a, <2>1, <2>2
<1>7. ASSUME Accounts PROVE Accounts'
  <2>t. Identity /\ Stops /\ Ended /\ Going /\ Kept
    BY <1>7 DEF Accounts
  <2>e. Alive
    BY Parts, <1>1, <2>t DEF Claim, Conflicts, Ended, Callers
  <2>0. Alive' /\ Ended'
    BY <1>f, <2>e DEF Alive, Ended
  <2>1. Identity'
    BY Parts, <1>1, <1>f, <2>t, <2>e, <2>0 DEF OnlyStart, Identity, Names, Places
  <2>2. Stops'
    BY Parts, <1>1, <1>f, <2>t, <2>e, <2>0 DEF OnlyStart, Stops, Names, Serve
  <2>3. Going'
    BY Parts, <1>1, <1>f, <2>t, <2>e, <2>0 DEF OnlyStart, Going, Identity, Names
  <2>4. Kept'
    BY Parts, <1>1, <1>f, <2>t, <2>e, <2>0 DEF OnlyStart, Kept, Identity, Names, Places, Lives,
       Mapped, Going
  <2> QED
    BY <2>0, <2>1, <2>2, <2>3, <2>4 DEF Accounts
<1> QED
  BY <1>2, <1>3, <1>4, <1>5, <1>6, <1>7 DEF ClaimsInv

\* A claim is taken over only from a session that exited.
LEMMA ClaimFoundKeeps ==
    ASSUME ClaimsInv, NEW s \in Sessions, ClaimFound(s)
    PROVE  ClaimsInv' /\ (Accounts => Accounts')
<1>1. /\ pc[Start(s)] = "claimed" /\ OnlyStart(s) /\ pc'[Start(s)] \in {"claim", "done"}
  BY Parts, GotoStart DEF ClaimFound, StartPcs, Callers
<1>f. UNCHANGED <<sessions, lost, id, target, exited, attached, disk, call, left, daemon, restarts>>
  BY DEF ClaimFound, managerVars, sessionVars, threadVars, daemonVars
<1>a. /\ UNCHANGED <<sessions, id, target, exited, attached, call, left>> /\ pc[Start(s)] = "claimed"
      /\ \/ pc'[Start(s)] = "done" /\ claims' = claims
         \/ /\ pc'[Start(s)] = "claim"
            /\ \A f \in found[s] : exited[f[2]]
            /\ claims' = [k \in Keys |-> IF <<k, claims[k]>> \in found[s] THEN None ELSE claims[k]]
  BY Parts, <1>1, <1>f, GotoStart DEF ClaimFound, StartPcs, sessionVars
<1>b. \A k \in Keys : claims'[k] = claims[k] \/ (claims'[k] = None /\ (claims[k] \in Sessions => exited[claims[k]]))
  <2>1. CASE claims' = claims
    BY <2>1
  <2>2. CASE /\ \A f \in found[s] : exited[f[2]]
             /\ claims' = [k \in Keys |-> IF <<k, claims[k]>> \in found[s] THEN None ELSE claims[k]]
    <3> SUFFICES ASSUME NEW k \in Keys, <<k, claims[k]>> \in found[s] PROVE exited[claims[k]]
      BY <2>2
    <3>1. exited[<<k, claims[k]>>[2]]
      BY <2>2
    <3> QED
      BY <3>1
  <2> QED
    BY <1>a, <2>1, <2>2
<1>c. claims' \in [Keys -> Sessions \cup {None}]
  BY Parts, <1>a DEF RegistryTypeOK
<1>2. RegistryTypeOK'
  BY Parts, <1>1, <1>c DEF ClaimFound, OnlyStart, sessionVars, daemonVars, RegistryTypeOK
<1>3. Places'
  BY Parts, <1>1, <1>f DEF OnlyStart, Places, StartPcs
<1>4. Names'
  BY Parts, <1>1, <1>a DEF OnlyStart, Names, Added
<1>5. Lives'
  BY Parts, <1>1, <1>a DEF OnlyStart, Lives, Places, Early
<1>6. Claims'
  <2>1. \A k \in Keys : claims'[k] # None => claims'[k] = claims[k] /\ claims[k] \in Sessions
    BY Parts, <1>b DEF RegistryTypeOK
  <2>2. ASSUME NEW r \in Sessions, attached'[r] \/ pc'[Start(r)] = "adapter", target'[r] \in Keys
        PROVE  claims'[target'[r]] = r
    <3>1. attached[r] \/ pc[Start(r)] = "adapter"
      BY <1>1, <1>a, <2>2 DEF OnlyStart
    <3>2. claims[target[r]] = r /\ ~exited[r]
      BY Parts, <1>a, <2>2, <3>1 DEF Claims, Lives, Early
    <3> QED
      BY <1>a, <1>b, <2>2, <3>2
  <2>3. \A k \in Keys : claims'[k] # None => target'[claims'[k]] = k /\ pc'[Start(claims'[k])] # "idle"
    BY Parts, <1>1, <1>a, <2>1 DEF OnlyStart, Claims
  <2>4. \A k, l \in Keys : claims'[k] # None /\ claims'[l] # None /\ Conflicts(k, l) => k = l
    BY Parts, <2>1 DEF Claims
  <2> QED
    BY <2>2, <2>3, <2>4 DEF Claims
<1>7. ASSUME Accounts PROVE Accounts'
  <2>t. Identity /\ Stops /\ Ended /\ Going /\ Kept
    BY <1>7 DEF Accounts
  <2>e. Alive
    BY Parts, <1>1, <2>t DEF ClaimFound, Ended, Callers
  <2>0. Alive' /\ Ended'
    BY <1>f, <2>e DEF Alive, Ended
  <2>1. Identity'
    BY Parts, <1>1, <1>f, <2>t, <2>e, <2>0 DEF OnlyStart, Identity, Names, Places
  <2>2. Stops'
    BY Parts, <1>1, <1>f, <2>t, <2>e, <2>0 DEF OnlyStart, Stops, Names, Serve
  <2>3. Going'
    BY Parts, <1>1, <1>f, <2>t, <2>e, <2>0 DEF OnlyStart, Going, Identity, Names
  <2>4. Kept'
    BY Parts, <1>1, <1>f, <2>t, <2>e, <2>0 DEF OnlyStart, Kept, Identity, Names, Places, Lives,
       Mapped, Going
  <2> QED
    BY <2>0, <2>1, <2>2, <2>3, <2>4 DEF Accounts
<1> QED
  BY <1>2, <1>3, <1>4, <1>5, <1>6, <1>7 DEF ClaimsInv

\* The adapter holds the debuggee, under the claim taken before.
LEMMA StartAdapterKeeps ==
    ASSUME ClaimsInv, NEW s \in Sessions, StartAdapter(s)
    PROVE  ClaimsInv' /\ (Accounts => Accounts')
<1>1. /\ pc[Start(s)] = "adapter" /\ OnlyStart(s) /\ pc'[Start(s)] \in {"add", "release"}
  BY Parts, GotoStart DEF StartAdapter, StartPcs, Callers
<1>f. UNCHANGED <<sessions, lost, claims, id, target, exited, disk, found, call, left, daemon, restarts>>
  BY DEF StartAdapter, managerVars, sessionVars, threadVars, daemonVars
<1>a. /\ UNCHANGED <<sessions, claims, id, target, exited, call, left>> /\ pc[Start(s)] = "adapter"
      /\ \/ pc'[Start(s)] = "add" /\ attached' = [attached EXCEPT ![s] = TRUE]
         \/ pc'[Start(s)] = "release" /\ attached' = attached
  BY Parts, <1>1, <1>f, GotoStart DEF StartAdapter, StartPcs, managerVars, threadVars
<1>b. \A r \in Sessions : attached'[r] = attached[r] \/ (r = s /\ attached'[s] /\ pc'[Start(s)] = "add")
  BY Parts, <1>a DEF RegistryTypeOK
<1>c. ~attached[s] /\ ~exited[s]
  BY Parts, <1>a DEF Lives, Early
<1>2. RegistryTypeOK'
  BY Parts, <1>1, <1>f DEF StartAdapter, OnlyStart, RegistryTypeOK
<1>3. Places'
  BY Parts, <1>1, <1>a DEF OnlyStart, Places, StartPcs
<1>4. Names'
  BY Parts, <1>1, <1>f DEF OnlyStart, Names, Added, Callers
<1>5. Lives'
  BY Parts, <1>1, <1>a, <1>b, <1>c DEF OnlyStart, Lives, Places, Early
<1>6. Claims'
  BY Parts, <1>1, <1>a, <1>b DEF OnlyStart, Claims, RegistryTypeOK
<1>7. ASSUME Accounts PROVE Accounts'
  <2>t. Identity /\ Stops /\ Ended /\ Going /\ Kept
    BY <1>7 DEF Accounts
  <2>e. Alive
    BY Parts, <1>1, <2>t DEF StartAdapter, Ended, Callers
  <2>0. Alive' /\ Ended'
    BY <1>f, <2>e DEF Alive, Ended
  <2>1. Identity'
    BY Parts, <1>1, <1>f, <2>t, <2>e, <2>0 DEF OnlyStart, Identity, Names, Places
  <2>2. Stops'
    BY Parts, <1>1, <1>f, <2>t, <2>e, <2>0 DEF StartAdapter, OnlyStart, Stops, Names, Serve,
       RegistryTypeOK, Added, Early, Callers
  <2>3. Going'
    BY Parts, <1>1, <1>f, <2>t, <2>e, <2>0 DEF OnlyStart, Going, Identity, Names
  <2>4. Kept'
    BY Parts, <1>1, <1>f, <2>t, <2>e, <2>0 DEF OnlyStart, Kept, Identity, Names, Places, Lives,
       Mapped, Going
  <2> QED
    BY <2>0, <2>1, <2>2, <2>3, <2>4 DEF Accounts
<1> QED
  BY <1>2, <1>3, <1>4, <1>5, <1>6, <1>7 DEF ClaimsInv

\* The session is mapped under its id.
LEMMA AddKeeps ==
    ASSUME ClaimsInv, NEW s \in Sessions, Add(s)
    PROVE  ClaimsInv' /\ (Accounts => Accounts')
<1>1. /\ pc[Start(s)] = "add" /\ OnlyStart(s) /\ pc'[Start(s)] \in {"fail", "save"}
  BY Parts, GotoStart DEF Add, StartPcs, Callers
<1>f. UNCHANGED <<lost, claims, id, target, exited, attached, disk, found, call, left, daemon, restarts>>
  BY DEF Add, managerVars, sessionVars, threadVars, daemonVars
<1>a. /\ UNCHANGED <<lost, claims, id, target, exited, attached, call, left>> /\ pc[Start(s)] = "add"
      /\ \/ pc'[Start(s)] = "fail" /\ sessions' = sessions
         \/ pc'[Start(s)] = "save" /\ sessions' = [sessions EXCEPT ![id[s]] = s]
  BY Parts, <1>1, <1>f, GotoStart DEF Add, StartPcs, sessionVars, threadVars
<1>b. id[s] \in Ids /\ \A i \in Ids : sessions'[i] = sessions[i] \/ (i = id[s] /\ sessions'[i] = s)
  BY Parts, <1>a DEF Places, RegistryTypeOK
<1>2. RegistryTypeOK'
  BY Parts, <1>1, <1>f DEF Add, OnlyStart, RegistryTypeOK
<1>3. Places'
  BY Parts, <1>1, <1>a DEF OnlyStart, Places, StartPcs
<1>4. Names'
  BY Parts, <1>1, <1>a, <1>b DEF OnlyStart, Names, Added
<1>5. Lives'
  BY Parts, <1>1, <1>f DEF OnlyStart, Lives, Early
<1>6. Claims'
  BY Parts, <1>1, <1>f DEF OnlyStart, Claims
<1>7. ASSUME Accounts PROVE Accounts'
  <2>t. Identity /\ Stops /\ Ended /\ Going /\ Kept
    BY <1>7 DEF Accounts
  <2>e. Alive
    BY Parts, <1>1, <2>t DEF Add, Ended, Callers
  <2>0. Alive' /\ Ended'
    BY <1>f, <2>e DEF Alive, Ended
  <2>1. Identity'
    BY Parts, <1>1, <1>f, <2>t, <2>e, <2>0 DEF OnlyStart, Identity, Names, Places
  <2>2. Stops'
    BY Parts, <1>1, <1>f, <2>t, <2>e, <2>0 DEF Add, OnlyStart, Stops, Names, Serve, RegistryTypeOK,
       Added, Early, Callers
  <2>3. Going'
    BY Parts, <1>1, <1>f, <2>t, <2>e, <2>0 DEF Add, OnlyStart, Going, Identity, Names,
       RegistryTypeOK, Added, Early, Callers
  <2>4. Kept'
    BY Parts, <1>1, <1>f, <2>t, <2>e, <2>0 DEF Add, OnlyStart, Kept, Identity, Names, Places, Lives,
       Mapped, Going, RegistryTypeOK, Added, Early, Callers
  <2> QED
    BY <2>0, <2>1, <2>2, <2>3, <2>4 DEF Accounts
<1> QED
  BY <1>2, <1>3, <1>4, <1>5, <1>6, <1>7 DEF ClaimsInv

\* Its metadata is written, if it is still mapped.
LEMMA SaveKeeps ==
    ASSUME ClaimsInv, NEW s \in Sessions, Save(s)
    PROVE  ClaimsInv' /\ (Accounts => Accounts')
<1>1. /\ pc[Start(s)] = "save" /\ OnlyStart(s) /\ pc'[Start(s)] = "configure"
  BY Parts, GotoStart DEF Save, StartPcs
<1>f. UNCHANGED <<sessions, lost, claims, id, target, exited, attached, found, call, left, daemon, restarts>>
  BY DEF Save, SaveIfLive, StoreSave, Mapped, managerVars, sessionVars, threadVars, daemonVars
<1>2. RegistryTypeOK'
  BY Parts, <1>1, <1>f DEF Save, SaveIfLive, StoreSave, Mapped, OnlyStart, RegistryTypeOK, Kinds,
     Callers, Alive
<1>3. Places'
  BY Parts, <1>1, <1>f DEF OnlyStart, Places, StartPcs
<1>4. Names'
  BY Parts, <1>1, <1>f DEF OnlyStart, Names, Added, Callers
<1>5. Lives'
  BY Parts, <1>1, <1>f DEF OnlyStart, Lives, Early
<1>6. Claims'
  BY Parts, <1>1, <1>f DEF OnlyStart, Claims
<1>7. ASSUME Accounts PROVE Accounts'
  <2>t. Identity /\ Stops /\ Ended /\ Going /\ Kept
    BY <1>7 DEF Accounts
  <2>e. Alive
    BY <1>1, <2>t DEF Ended
  <2>0. Alive' /\ Ended'
    BY <1>f, <2>e DEF Alive, Ended
  <2>1. Identity'
    BY Parts, <1>1, <1>f, <2>t, <2>e, <2>0 DEF Save, SaveIfLive, StoreSave, Mapped, OnlyStart,
       Identity, Names, Places, RegistryTypeOK, Added, Early, Callers
  <2>2. Stops'
    BY Parts, <1>1, <1>f, <2>t, <2>e, <2>0 DEF OnlyStart, Stops, Names, Serve
  <2>3. Going'
    BY Parts, <1>1, <1>f, <2>t, <2>e, <2>0 DEF Save, SaveIfLive, StoreSave, Mapped, OnlyStart,
       Going, Identity, Names, RegistryTypeOK, Added, Early, Callers
  <2>4. Kept'
    BY Parts, <1>1, <1>f, <2>t, <2>e, <2>0 DEF Save, SaveIfLive, StoreSave, Mapped, OnlyStart, Kept,
       Identity, Names, Places, Lives, Going, RegistryTypeOK, Added, Early, Callers
  <2> QED
    BY <2>0, <2>1, <2>2, <2>3, <2>4 DEF Accounts
<1> QED
  BY <1>2, <1>3, <1>4, <1>5, <1>6, <1>7 DEF ClaimsInv

\* A start that failed ends its session ...
LEMMA FailKeeps ==
    ASSUME ClaimsInv, NEW s \in Sessions, Fail(s)
    PROVE  ClaimsInv' /\ (Accounts => Accounts')
<1>1. /\ pc[Start(s)] = "fail" /\ OnlyStart(s) /\ pc'[Start(s)] = "failRemove"
  BY Parts, GotoStart DEF Fail, EndSession, StartPcs, Callers
<1>f. UNCHANGED <<sessions, lost, claims, id, target, disk, found, call, left, daemon, restarts>>
  BY DEF Fail, EndSession, managerVars, sessionVars, threadVars, daemonVars
<1>2. RegistryTypeOK'
  BY Parts, <1>1, <1>f DEF Fail, EndSession, OnlyStart, RegistryTypeOK, Kinds, Callers, Alive
<1>3. Places'
  BY Parts, <1>1, <1>f DEF OnlyStart, Places, StartPcs
<1>4. Names'
  BY Parts, <1>1, <1>f DEF Fail, EndSession, OnlyStart, Names, Added, RegistryTypeOK, Callers
<1>5. Lives'
  BY Parts, <1>1, <1>f DEF Fail, EndSession, OnlyStart, Lives, Places, Names, Early, Added,
     RegistryTypeOK
<1>6. Claims'
  BY Parts, <1>1, <1>f DEF Fail, EndSession, OnlyStart, Claims, Lives, Places, Names, RegistryTypeOK
<1>7. ASSUME Accounts PROVE Accounts'
  <2>t. Identity /\ Stops /\ Ended /\ Going /\ Kept
    BY <1>7 DEF Accounts
  <2>e. Alive
    BY Parts, <1>1, <2>t DEF Fail, EndSession, Ended, Callers
  <2>0. Alive' /\ Ended'
    BY <1>f, <2>e DEF Alive, Ended
  <2>1. Identity'
    BY Parts, <1>1, <1>f, <2>t, <2>e, <2>0 DEF Fail, EndSession, OnlyStart, Identity, Names, Places,
       RegistryTypeOK, Added, Early, Callers
  <2>2. Stops'
    BY Parts, <1>1, <1>f, <2>t, <2>e, <2>0 DEF OnlyStart, Stops, Serve
  <2>3. Going'
    BY Parts, <1>1, <1>f, <2>t, <2>e, <2>0 DEF OnlyStart, Going, Identity, Names
  <2>4. Kept'
    BY Parts, <1>1, <1>f, <2>t, <2>e, <2>0 DEF Fail, EndSession, OnlyStart, Kept, Mapped
  <2> QED
    BY <2>0, <2>1, <2>2, <2>3, <2>4 DEF Accounts
<1> QED
  BY <1>2, <1>3, <1>4, <1>5, <1>6, <1>7 DEF ClaimsInv

\* ... unmaps it, which leaves it the one to remove the file ...
LEMMA FailRemoveKeeps ==
    ASSUME ClaimsInv, NEW s \in Sessions, FailRemove(s)
    PROVE  ClaimsInv' /\ (Accounts => Accounts')
<1>1. /\ pc[Start(s)] = "failRemove" /\ OnlyStart(s) /\ pc'[Start(s)] = "forget"
  BY Parts, GotoStart DEF FailRemove, Unmap, StartPcs, Callers
<1>f. UNCHANGED <<lost, claims, id, target, exited, attached, disk, found, call, left, daemon, restarts>>
  BY DEF FailRemove, Unmap, managerVars, sessionVars, threadVars, daemonVars
<1>2. RegistryTypeOK'
  BY Parts, <1>1, <1>f DEF FailRemove, Unmap, OnlyStart, RegistryTypeOK, Kinds, Callers, Alive
<1>3. Places'
  BY Parts, <1>1, <1>f DEF OnlyStart, Places, StartPcs
<1>4. Names'
  BY Parts, <1>1, <1>f DEF FailRemove, Unmap, OnlyStart, Names, Added, RegistryTypeOK, Callers
<1>5. Lives'
  BY Parts, <1>1, <1>f DEF OnlyStart, Lives, Early
<1>6. Claims'
  BY Parts, <1>1, <1>f DEF OnlyStart, Claims
<1>7. ASSUME Accounts PROVE Accounts'
  <2>t. Identity /\ Stops /\ Ended /\ Going /\ Kept
    BY <1>7 DEF Accounts
  <2>e. Alive
    BY Parts, <1>1, <2>t DEF FailRemove, Unmap, Ended, Callers
  <2>0. Alive' /\ Ended'
    BY <1>f, <2>e DEF Alive, Ended
  <2>1. Identity'
    BY Parts, <1>1, <1>f, <2>t, <2>e, <2>0 DEF OnlyStart, Identity, Names, Places
  <2>2. Stops'
    BY Parts, <1>1, <1>f, <2>t, <2>e, <2>0 DEF FailRemove, Unmap, OnlyStart, Stops, Names, Serve,
       RegistryTypeOK, Added, Early, Callers
  <2>3. Going'
    BY Parts, <1>1, <1>f, <2>t, <2>e, <2>0 DEF FailRemove, Unmap, OnlyStart, Going, Identity, Names,
       RegistryTypeOK, Added, Early, Callers
  <2>4. Kept'
    BY Parts, <1>1, <1>f, <2>t, <2>e, <2>0 DEF FailRemove, Unmap, OnlyStart, Kept, Identity, Names,
       Places, Lives, Mapped, Going, RegistryTypeOK, Added, Early, Callers
  <2> QED
    BY <2>0, <2>1, <2>2, <2>3, <2>4 DEF Accounts
<1> QED
  BY <1>2, <1>3, <1>4, <1>5, <1>6, <1>7 DEF ClaimsInv

\* ... removes the file ...
LEMMA FailForgetKeeps ==
    ASSUME ClaimsInv, NEW s \in Sessions, FailForget(s)
    PROVE  ClaimsInv' /\ (Accounts => Accounts')
<1>1. /\ pc[Start(s)] = "forget" /\ OnlyStart(s) /\ pc'[Start(s)] = "release"
  BY Parts, GotoStart DEF FailForget, RemoveFile, StartPcs, Callers
<1>f. UNCHANGED <<sessions, lost, claims, id, target, exited, attached, found, call, left, daemon, restarts>>
  BY DEF FailForget, RemoveFile, managerVars, sessionVars, threadVars, daemonVars
<1>2. RegistryTypeOK'
  BY Parts, <1>1, <1>f DEF FailForget, RemoveFile, OnlyStart, RegistryTypeOK, Kinds, Callers, Alive
<1>3. Places'
  BY Parts, <1>1, <1>f DEF OnlyStart, Places, StartPcs
<1>4. Names'
  BY Parts, <1>1, <1>f DEF OnlyStart, Names, Added, Callers
<1>5. Lives'
  BY Parts, <1>1, <1>f DEF OnlyStart, Lives, Early
<1>6. Claims'
  BY Parts, <1>1, <1>f DEF OnlyStart, Claims
<1>7. ASSUME Accounts PROVE Accounts'
  <2>t. Identity /\ Stops /\ Ended /\ Going /\ Kept
    BY <1>7 DEF Accounts
  <2>e. Alive
    BY Parts, <1>1, <2>t DEF FailForget, RemoveFile, Ended, Callers
  <2>0. Alive' /\ Ended'
    BY <1>f, <2>e DEF Alive, Ended
  <2>1. Identity'
    BY Parts, <1>1, <1>f, <2>t, <2>e, <2>0 DEF FailForget, RemoveFile, OnlyStart, Identity, Names,
       Places, RegistryTypeOK, Added, Early, Callers
  <2>2. Stops'
    BY Parts, <1>1, <1>f, <2>t, <2>e, <2>0 DEF OnlyStart, Stops, Names, Serve
  <2>3. Going'
    BY Parts, <1>1, <1>f, <2>t, <2>e, <2>0 DEF FailForget, RemoveFile, OnlyStart, Going, Identity,
       Names, RegistryTypeOK, Added, Early, Callers
  <2>4. Kept'
    BY Parts, <1>1, <1>f, <2>t, <2>e, <2>0 DEF FailForget, RemoveFile, OnlyStart, Kept, Identity,
       Names, Places, Lives, Mapped, Going, RegistryTypeOK, Added, Early, Callers
  <2> QED
    BY <2>0, <2>1, <2>2, <2>3, <2>4 DEF Accounts
<1> QED
  BY <1>2, <1>3, <1>4, <1>5, <1>6, <1>7 DEF ClaimsInv

\* ... and gives its claim back, after the session exited.
LEMMA StartReleaseKeeps ==
    ASSUME ClaimsInv, NEW s \in Sessions, StartRelease(s)
    PROVE  ClaimsInv' /\ (Accounts => Accounts')
<1>1. /\ pc[Start(s)] = "release" /\ OnlyStart(s) /\ pc'[Start(s)] = "done"
  BY Parts, GotoStart DEF StartRelease, Release, StartPcs, Callers
<1>f. UNCHANGED <<sessions, lost, id, target, exited, attached, disk, found, call, left, daemon, restarts>>
  BY DEF StartRelease, Release, managerVars, sessionVars, threadVars, daemonVars
<1>2. RegistryTypeOK'
  BY Parts, <1>1, <1>f DEF StartRelease, Release, OnlyStart, RegistryTypeOK, Kinds, Callers, Alive
<1>3. Places'
  BY Parts, <1>1, <1>f DEF OnlyStart, Places, StartPcs
<1>4. Names'
  BY Parts, <1>1, <1>f DEF OnlyStart, Names, Added, Callers
<1>5. Lives'
  BY Parts, <1>1, <1>f DEF OnlyStart, Lives, Early
<1>6. Claims'
  BY Parts, <1>1, <1>f DEF StartRelease, Release, OnlyStart, Claims, Lives, Places, Names,
     RegistryTypeOK
<1>7. ASSUME Accounts PROVE Accounts'
  <2>t. Identity /\ Stops /\ Ended /\ Going /\ Kept
    BY <1>7 DEF Accounts
  <2>e. Alive
    BY Parts, <1>1, <2>t DEF StartRelease, Release, Ended, Callers
  <2>0. Alive' /\ Ended'
    BY <1>f, <2>e DEF Alive, Ended
  <2>1. Identity'
    BY Parts, <1>1, <1>f, <2>t, <2>e, <2>0 DEF OnlyStart, Identity, Names, Places
  <2>2. Stops'
    BY Parts, <1>1, <1>f, <2>t, <2>e, <2>0 DEF OnlyStart, Stops, Names, Serve
  <2>3. Going'
    BY Parts, <1>1, <1>f, <2>t, <2>e, <2>0 DEF OnlyStart, Going, Identity, Names
  <2>4. Kept'
    BY Parts, <1>1, <1>f, <2>t, <2>e, <2>0 DEF OnlyStart, Kept, Identity, Names, Places, Lives,
       Mapped, Going
  <2> QED
    BY <2>0, <2>1, <2>2, <2>3, <2>4 DEF Accounts
<1> QED
  BY <1>2, <1>3, <1>4, <1>5, <1>6, <1>7 DEF ClaimsInv

\* watch: an exited session's claim is given back.
LEMMA WatchReleaseKeeps ==
    ASSUME ClaimsInv, NEW s \in Sessions, WatchRelease(s)
    PROVE  ClaimsInv' /\ (Accounts => Accounts')
<1>1. /\ pc[Watch(s)] = "waiting" /\ OnlyWatch(s) /\ pc'[Watch(s)] = "save"
  BY Parts, GotoWatch DEF WatchRelease, Release, WatchPcs, Callers
<1>f. UNCHANGED <<sessions, lost, id, target, exited, attached, disk, found, call, left, daemon, restarts>>
  BY DEF WatchRelease, Release, managerVars, sessionVars, threadVars, daemonVars
<1>2. RegistryTypeOK'
  BY Parts, <1>1, <1>f DEF WatchRelease, Release, OnlyWatch, RegistryTypeOK, Kinds, Callers, Alive
<1>3. Places'
  BY Parts, <1>1, <1>f DEF OnlyWatch, Places, WatchPcs
<1>4. Names'
  BY Parts, <1>1, <1>f DEF OnlyWatch, Names, Added, Callers
<1>5. Lives'
  <2>1. exited[s]
    BY DEF WatchRelease
  <2> QED
    BY Parts, <1>1, <1>f, <2>1 DEF OnlyWatch, Lives
<1>6. Claims'
  BY Parts, <1>1, <1>f DEF WatchRelease, Release, OnlyWatch, Claims, Lives, Places, Names,
     RegistryTypeOK
<1>7. ASSUME Accounts PROVE Accounts'
  <2>t. Identity /\ Stops /\ Ended /\ Going /\ Kept
    BY <1>7 DEF Accounts
  <2>e. Alive
    BY Parts, <1>1, <2>t DEF WatchRelease, Release, Ended, Callers
  <2>0. Alive' /\ Ended'
    BY <1>f, <2>e DEF Alive, Ended
  <2>1. Identity'
    BY Parts, <1>1, <1>f, <2>t, <2>e, <2>0 DEF OnlyWatch, Identity, Names, Places
  <2>2. Stops'
    BY Parts, <1>1, <1>f, <2>t, <2>e, <2>0 DEF OnlyWatch, Stops, Names, Serve
  <2>3. Going'
    BY Parts, <1>1, <1>f, <2>t, <2>e, GoingFrame DEF OnlyWatch
  <2>4. Kept'
    BY Parts, <1>1, <1>f, <2>t, <2>e, <2>0 DEF OnlyWatch, Kept, Identity, Names, Places, Lives,
       Mapped, Going
  <2> QED
    BY <2>0, <2>1, <2>2, <2>3, <2>4 DEF Accounts
<1> QED
  BY <1>2, <1>3, <1>4, <1>5, <1>6, <1>7 DEF ClaimsInv

\* watch: the last save, which a stopped session no longer gets.
LEMMA WatchSaveKeeps ==
    ASSUME ClaimsInv, NEW s \in Sessions, WatchSave(s)
    PROVE  ClaimsInv' /\ (Accounts => Accounts')
<1>1. /\ pc[Watch(s)] = "save" /\ OnlyWatch(s) /\ pc'[Watch(s)] = "done"
  BY Parts, GotoWatch DEF WatchSave, WatchPcs
<1>f. UNCHANGED <<sessions, lost, claims, id, target, exited, attached, found, call, left, daemon, restarts>>
  BY DEF WatchSave, SaveIfLive, StoreSave, Mapped, managerVars, sessionVars, threadVars, daemonVars
<1>2. RegistryTypeOK'
  BY Parts, <1>1, <1>f DEF WatchSave, SaveIfLive, StoreSave, Mapped, OnlyWatch, RegistryTypeOK,
     Kinds, Callers, Alive
<1>3. Places'
  BY Parts, <1>1, <1>f DEF OnlyWatch, Places, WatchPcs
<1>4. Names'
  BY Parts, <1>1, <1>f DEF OnlyWatch, Names, Added, Callers
<1>5. Lives'
  BY Parts, <1>1, <1>f DEF OnlyWatch, Lives
<1>6. Claims'
  BY Parts, <1>1, <1>f DEF OnlyWatch, Claims
<1>7. ASSUME Accounts PROVE Accounts'
  <2>t. Identity /\ Stops /\ Ended /\ Going /\ Kept
    BY <1>7 DEF Accounts
  <2>e. Alive
    BY <1>1, <2>t DEF Ended
  <2>0. Alive' /\ Ended'
    BY <1>f, <2>e DEF Alive, Ended
  <2>1. Identity'
    BY Parts, <1>1, <1>f, <2>t, <2>e, <2>0 DEF WatchSave, SaveIfLive, StoreSave, Mapped, OnlyWatch,
       Identity, Names, Places, RegistryTypeOK, Added, Early, Callers
  <2>2. Stops'
    BY Parts, <1>1, <1>f, <2>t, <2>e, <2>0 DEF OnlyWatch, Stops, Names, Serve
  <2>3. Going'
    BY Parts, <1>1, <1>f, <2>t, <2>e, <2>0 DEF WatchSave, SaveIfLive, StoreSave, Mapped, OnlyWatch,
       Going, Identity, Names, RegistryTypeOK, Added, Early, Callers
  <2>4. Kept'
    BY Parts, <1>1, <1>f, <2>t, <2>e, <2>0 DEF WatchSave, SaveIfLive, StoreSave, Mapped, OnlyWatch,
       Kept, Identity, Names, Places, Lives, Going, RegistryTypeOK, Added, Early, Callers
  <2> QED
    BY <2>0, <2>1, <2>2, <2>3, <2>4 DEF Accounts
<1> QED
  BY <1>2, <1>3, <1>4, <1>5, <1>6, <1>7 DEF ClaimsInv

\* Stop of a lost session.
LEMMA StopLostKeeps ==
    ASSUME ClaimsInv, NEW c \in Calls, NEW i \in Ids, StopLost(c, i)
    PROVE  ClaimsInv' /\ (Accounts => Accounts')
<1>1. /\ pc[Call(c)] = "idle" /\ OnlyCall(c) /\ pc'[Call(c)] = "forget"
  BY Parts, GotoCall DEF StopLost, Begin, CallPcs, Callers
<1>f. UNCHANGED <<sessions, claims, id, target, exited, attached, disk, found, left, daemon, restarts>>
  BY DEF StopLost, Begin, managerVars, sessionVars, threadVars, daemonVars
<1>a. /\ \A d \in Callers : d # c => call'[d] = call[d]
      /\ call'[c] = [kind |-> "lost", session |-> None, id |-> i] /\ lost' = lost \ {i} /\ i \in lost
  BY Parts DEF StopLost, Begin, Callers, RegistryTypeOK
<1>2. RegistryTypeOK'
  BY Parts, <1>1, <1>f DEF StopLost, Begin, OnlyCall, RegistryTypeOK, Kinds, Callers, Alive
<1>3. Places'
  BY Parts, <1>1, <1>f DEF OnlyCall, Places, CallPcs
<1>4. Names'
  BY Parts, <1>1, <1>f DEF StopLost, Begin, OnlyCall, Names, Added, RegistryTypeOK, Callers
<1>5. Lives'
  BY Parts, <1>1, <1>f DEF OnlyCall, Lives
<1>6. Claims'
  BY Parts, <1>1, <1>f DEF OnlyCall, Claims
<1>7. ASSUME Accounts PROVE Accounts'
  <2>t. Identity /\ Stops /\ Ended /\ Going /\ Kept
    BY <1>7 DEF Accounts
  <2>e. Alive
    BY Parts, <1>1, <2>t DEF StopLost, Begin, Ended, Callers
  <2>0. Alive' /\ Ended'
    BY <1>f, <2>e DEF Alive, Ended
  <2>1. Identity'
    BY Parts, <1>1, <1>f, <2>t, <2>e, <2>0 DEF StopLost, Begin, OnlyCall, Identity, Names, Places,
       RegistryTypeOK, Added, Early, Callers
  <2>2. Stops'
    BY Parts, <1>1, <1>f, <2>t, <2>e, <2>0 DEF StopLost, Begin, OnlyCall, Stops, Names, Serve,
       RegistryTypeOK, Added, Early, Callers
  <2>3. Going'
    <3>1. c \in Callers /\ call'[c].id = i /\ pc'[Call(c)] = "forget"
      BY <1>1, <1>a DEF Callers
    <3>2. \A d \in Callers : d # c => call'[d] = call[d] /\ pc'[Call(d)] = pc[Call(d)]
      BY <1>1, <1>a DEF OnlyCall
    <3>3. pc[Call(c)] = "idle" /\ \A s \in Sessions : pc'[Start(s)] = pc[Start(s)]
      BY <1>1 DEF OnlyCall
    <3> QED
      BY <1>a, <1>f, <2>t, <2>e, <3>1, <3>2, <3>3 DEF Going
  <2>4. Kept'
    BY Parts, <1>1, <1>a, <1>f, <2>t DEF OnlyCall, Kept, Mapped
  <2> QED
    BY <2>0, <2>1, <2>2, <2>3, <2>4 DEF Accounts
<1> QED
  BY <1>2, <1>3, <1>4, <1>5, <1>6, <1>7 DEF ClaimsInv

\* Stop and Detach: the session the id names now.
LEMMA RequestKeeps ==
    ASSUME ClaimsInv, NEW c \in Calls, NEW what \in {"stop", "detach"}, NEW i \in Ids, Request(c, what, i)
    PROVE  ClaimsInv' /\ (Accounts => Accounts')
<1>1. /\ pc[Call(c)] = "idle" /\ OnlyCall(c) /\ pc'[Call(c)] = "end"
  BY Parts, GotoCall DEF Request, Begin, CallPcs, Callers
<1>f. UNCHANGED <<sessions, lost, claims, id, target, exited, attached, disk, found, left, daemon, restarts>>
  BY DEF Request, Begin, managerVars, sessionVars, threadVars, daemonVars
<1>a. \A d \in Callers : d # c => call'[d] = call[d]
  BY Parts DEF Request, Begin, Callers, RegistryTypeOK
<1>2. RegistryTypeOK'
  BY Parts, <1>1, <1>f DEF Request, Begin, OnlyCall, RegistryTypeOK, Kinds, Callers, Alive
<1>3. Places'
  BY Parts, <1>1, <1>f DEF OnlyCall, Places, CallPcs
<1>4. Names'
  BY Parts, <1>1, <1>f DEF Request, Begin, OnlyCall, Names, Added, RegistryTypeOK, Callers
<1>5. Lives'
  BY Parts, <1>1, <1>f DEF OnlyCall, Lives
<1>6. Claims'
  BY Parts, <1>1, <1>f DEF OnlyCall, Claims
<1>7. ASSUME Accounts PROVE Accounts'
  <2>t. Identity /\ Stops /\ Ended /\ Going /\ Kept
    BY <1>7 DEF Accounts
  <2>e. Alive
    BY Parts, <1>1, <2>t DEF Request, Begin, Ended, Callers
  <2>0. Alive' /\ Ended'
    BY <1>f, <2>e DEF Alive, Ended
  <2>1. Identity'
    BY Parts, <1>1, <1>f, <2>t, <2>e, <2>0 DEF Request, Begin, OnlyCall, Identity, Names, Places,
       RegistryTypeOK, Added, Early, Callers
  <2>2. Stops'
    BY Parts, <1>1, <1>f, <2>t, <2>e, <2>0 DEF Request, Begin, OnlyCall, Stops, Names, Serve,
       RegistryTypeOK, Added, Early, Callers
  <2>3. Going'
    BY Parts, <1>1, <1>a, <1>f, <2>t, <2>e, GoingFrame DEF OnlyCall
  <2>4. Kept'
    BY Parts, <1>1, <1>f, <2>t, <2>e, <2>0 DEF Request, Begin, OnlyCall, Kept, Mapped, Added
  <2> QED
    BY <2>0, <2>1, <2>2, <2>3, <2>4 DEF Accounts
<1> QED
  BY <1>2, <1>3, <1>4, <1>5, <1>6, <1>7 DEF ClaimsInv

\* The session is ended ...
LEMMA CallEndsKeeps ==
    ASSUME ClaimsInv, NEW c \in Callers, CallEnds(c)
    PROVE  ClaimsInv' /\ (Accounts => Accounts')
<1>1. /\ pc[Call(c)] = "end" /\ OnlyCall(c) /\ pc'[Call(c)] = "release"
  BY Parts, GotoCall DEF CallEnds, EndSession, CallPcs, Callers
<1>f. UNCHANGED <<sessions, lost, claims, id, target, disk, found, call, left, daemon, restarts>>
  BY DEF CallEnds, EndSession, managerVars, sessionVars, threadVars, daemonVars
<1>2. RegistryTypeOK'
  BY Parts, <1>1, <1>f DEF CallEnds, EndSession, OnlyCall, RegistryTypeOK, Kinds, Callers, Alive
<1>3. Places'
  BY Parts, <1>1, <1>f DEF OnlyCall, Places, CallPcs
<1>4. Names'
  BY Parts, <1>1, <1>f DEF CallEnds, EndSession, OnlyCall, Names, Added, RegistryTypeOK, Callers
<1>5. Lives'
  BY Parts, <1>1, <1>f DEF CallEnds, EndSession, OnlyCall, Lives, Places, Names, Early, Added,
     RegistryTypeOK
<1>6. Claims'
  BY Parts, <1>1, <1>f DEF CallEnds, EndSession, OnlyCall, Claims, Lives, Places, Names,
     RegistryTypeOK
<1>7. ASSUME Accounts PROVE Accounts'
  <2>t. Identity /\ Stops /\ Ended /\ Going /\ Kept
    BY <1>7 DEF Accounts
  <2>e. Alive
    BY Parts, <1>1, <2>t DEF CallEnds, EndSession, Ended, Callers
  <2>0. Alive' /\ Ended'
    BY <1>f, <2>e DEF Alive, Ended
  <2>1. Identity'
    BY Parts, <1>1, <1>f, <2>t, <2>e, <2>0 DEF CallEnds, EndSession, OnlyCall, Identity, Names,
       Places, RegistryTypeOK, Added, Early, Callers
  <2>2. Stops'
    BY Parts, <1>1, <1>f, <2>t, <2>e, <2>0 DEF OnlyCall, Stops, Serve
  <2>3. Going'
    BY Parts, <1>1, <1>f, <2>t, <2>e, <2>0 DEF OnlyCall, Going, Identity, Names
  <2>4. Kept'
    BY Parts, <1>1, <1>f, <2>t, <2>e, <2>0 DEF CallEnds, EndSession, OnlyCall, Kept, Lives, Mapped,
       RegistryTypeOK
  <2> QED
    BY <2>0, <2>1, <2>2, <2>3, <2>4 DEF Accounts
<1> QED
  BY <1>2, <1>3, <1>4, <1>5, <1>6, <1>7 DEF ClaimsInv

\* ... its claim is given back ...
LEMMA CallReleasesKeeps ==
    ASSUME ClaimsInv, NEW c \in Callers, CallReleases(c)
    PROVE  ClaimsInv' /\ (Accounts => Accounts')
<1>1. /\ pc[Call(c)] = "release" /\ OnlyCall(c) /\ pc'[Call(c)] \in {"forget", "remove"}
  BY Parts, GotoCall DEF CallReleases, Release, CallPcs, Callers
<1>f. UNCHANGED <<sessions, lost, id, target, exited, attached, disk, found, call, left, daemon, restarts>>
  BY DEF CallReleases, Release, managerVars, sessionVars, threadVars, daemonVars
<1>a. /\ pc[Call(c)] = "release" /\ UNCHANGED <<target, exited, attached>>
      /\ claims' = [k \in Keys |-> IF claims[k] = call[c].session /\ target[call[c].session] = k THEN None ELSE claims[k]]
      /\ pc'[Call(c)] = IF call[c].kind = "stopAll" THEN "forget" ELSE "remove"
  BY Parts, GotoCall DEF CallReleases, Release, sessionVars, CallPcs
<1>b. \A k \in Keys : claims'[k] = claims[k] \/ (claims'[k] = None /\ exited[claims[k]])
  BY Parts, <1>a DEF Names
<1>2. RegistryTypeOK'
  BY Parts, <1>1, <1>f DEF CallReleases, Release, OnlyCall, RegistryTypeOK, Kinds, Callers, Alive
<1>3. Places'
  BY Parts, <1>1, <1>f DEF OnlyCall, Places, CallPcs
<1>4. Names'
  BY Parts, <1>1, <1>f DEF OnlyCall, Names, Added, Callers
<1>5. Lives'
  BY Parts, <1>1, <1>f DEF OnlyCall, Lives
<1>6. Claims'
  <2>1. \A k \in Keys : claims'[k] # None => claims'[k] = claims[k] /\ claims[k] \in Sessions
    BY Parts, <1>b DEF RegistryTypeOK
  <2>2. ASSUME NEW r \in Sessions, attached'[r] \/ pc'[Start(r)] = "adapter", target'[r] \in Keys
        PROVE  claims'[target'[r]] = r
    <3>1. claims[target[r]] = r /\ ~exited[r]
      BY Parts, <1>1, <1>a, <2>2 DEF OnlyCall, Claims, Lives, Early
    <3> QED
      BY <1>a, <1>b, <2>2, <3>1
  <2>3. \A k \in Keys : claims'[k] # None => target'[claims'[k]] = k /\ pc'[Start(claims'[k])] # "idle"
    BY Parts, <1>1, <1>a, <2>1 DEF OnlyCall, Claims
  <2>4. \A k, l \in Keys : claims'[k] # None /\ claims'[l] # None /\ Conflicts(k, l) => k = l
    BY Parts, <2>1 DEF Claims
  <2> QED
    BY <2>2, <2>3, <2>4 DEF Claims
<1>7. ASSUME Accounts PROVE Accounts'
  <2>t. Identity /\ Stops /\ Ended /\ Going /\ Kept
    BY <1>7 DEF Accounts
  <2>e. Alive
    BY Parts, <1>1, <2>t DEF CallReleases, Release, Ended, Callers
  <2>0. Alive' /\ Ended'
    BY <1>f, <2>e DEF Alive, Ended
  <2>1. Identity'
    BY Parts, <1>1, <1>f, <2>t, <2>e, <2>0 DEF OnlyCall, Identity, Names, Places
  <2>2. Stops'
    BY Parts, <1>1, <1>a, <1>f, <2>t DEF OnlyCall, Stops, Serve
  <2>3. Going'
    BY Parts, <1>1, <1>a, <1>f, <2>t, <2>e, GoingFrame DEF OnlyCall
  <2>4. Kept'
    BY Parts, <1>1, <1>f, <2>t, <2>e, <2>0 DEF OnlyCall, Kept, Identity, Names, Places, Lives,
       Mapped, Going
  <2> QED
    BY <2>0, <2>1, <2>2, <2>3, <2>4 DEF Accounts
<1> QED
  BY <1>2, <1>3, <1>4, <1>5, <1>6, <1>7 DEF ClaimsInv

\* ... it is unmapped, if its id still names it ...
LEMMA CallRemovesKeeps ==
    ASSUME ClaimsInv, NEW c \in Callers, CallRemoves(c)
    PROVE  ClaimsInv' /\ (Accounts => Accounts')
<1>1. /\ pc[Call(c)] = "remove" /\ OnlyCall(c) /\ pc'[Call(c)] \in {"forget", "done"}
  BY Parts, GotoCall DEF CallRemoves, Return, CallPcs
<1>f. UNCHANGED <<lost, claims, id, target, exited, attached, disk, found, left, daemon, restarts>>
  BY DEF CallRemoves, Unmap, Return, Mapped, NoCall, managerVars, sessionVars, threadVars,
     daemonVars
<1>a. /\ \A d \in Callers : d # c => call'[d] = call[d]
      /\ \/ /\ pc'[Call(c)] = "forget" /\ call' = call
            /\ \A i \in Ids : sessions'[i] = IF i = call[c].id THEN None ELSE sessions[i]
         \/ pc'[Call(c)] = "done" /\ call'[c] = NoCall /\ sessions' = sessions
  BY Parts, GotoCall DEF CallRemoves, Return, Unmap, RegistryTypeOK, CallPcs
<1>2. RegistryTypeOK'
  BY Parts, <1>1, <1>f DEF CallRemoves, Unmap, Return, Mapped, NoCall, OnlyCall, RegistryTypeOK,
     Kinds, Callers, Alive
<1>3. Places'
  BY Parts, <1>1, <1>f DEF OnlyCall, Places, CallPcs
<1>4. Names'
  BY Parts, <1>1, <1>f DEF CallRemoves, Unmap, Return, Mapped, NoCall, OnlyCall, Names, Added,
     RegistryTypeOK, Callers
<1>5. Lives'
  BY Parts, <1>1, <1>f DEF OnlyCall, Lives
<1>6. Claims'
  BY Parts, <1>1, <1>f DEF OnlyCall, Claims
<1>7. ASSUME Accounts PROVE Accounts'
  <2>t. Identity /\ Stops /\ Ended /\ Going /\ Kept
    BY <1>7 DEF Accounts
  <2>e. Alive
    BY Parts, <1>1, <2>t DEF CallRemoves, Unmap, Return, Mapped, NoCall, Ended, Callers
  <2>0. Alive' /\ Ended'
    BY <1>f, <2>e DEF Alive, Ended
  <2>1. Identity'
    BY Parts, <1>1, <1>a, <1>f, <2>t DEF OnlyCall, Identity, Names
  <2>2. Stops'
    BY Parts, <1>1, <1>f, <2>t, <2>e, <2>0 DEF CallRemoves, Unmap, Return, OnlyCall, Stops, Names,
       Serve, RegistryTypeOK, Callers
  <2>3. Going'
    <3>1. CASE /\ pc'[Call(c)] = "forget" /\ call' = call
               /\ \A i \in Ids : sessions'[i] = IF i = call[c].id THEN None ELSE sessions[i]
      BY <1>1, <1>f, <2>t, <2>e, <3>1 DEF OnlyCall, Going
    <3>2. CASE pc'[Call(c)] = "done" /\ sessions' = sessions
      <4>1. \A d \in Callers : pc[Call(d)] \in {"end", "release", "forget"} =>
               pc'[Call(d)] = pc[Call(d)] /\ call'[d] = call[d]
        BY <1>1, <1>a DEF OnlyCall
      <4> QED
        BY <1>1, <1>f, <2>t, <2>e, <3>2, <4>1 DEF OnlyCall, Going
    <3> QED
      BY <1>a, <3>1, <3>2
  <2>4. Kept'
    <3>1. call[c].session \in Sessions /\ exited[call[c].session] /\ id[call[c].session] = call[c].id
      BY Parts, <1>1, <2>t DEF Names, Identity
    <3>2. \A s \in Sessions : Mapped(s)' => Mapped(s)
      BY Parts, <1>a, <1>f DEF Mapped
    <3>3. \A s \in Sessions : Mapped(s) /\ ~exited[s] => Mapped(s)'
      BY Parts, <1>a, <1>f, <2>t, <3>1 DEF Mapped, Identity
    <3>4. \A d \in Callers : pc[Call(d)] = "end" => d # c /\ pc'[Call(d)] = "end" /\ call'[d] = call[d]
      BY <1>1, <1>a DEF OnlyCall
    <3> QED
      BY <1>1, <1>f, <2>t, <3>2, <3>3, <3>4 DEF OnlyCall, Kept
  <2> QED
    BY <2>0, <2>1, <2>2, <2>3, <2>4 DEF Accounts
<1> QED
  BY <1>2, <1>3, <1>4, <1>5, <1>6, <1>7 DEF ClaimsInv

\* ... and its file is removed.
LEMMA CallForgetsKeeps ==
    ASSUME ClaimsInv, NEW c \in Callers, CallForgets(c)
    PROVE  ClaimsInv' /\ (Accounts => Accounts')
<1>1. /\ pc[Call(c)] = "forget" /\ OnlyCall(c) /\ pc'[Call(c)] \in {"each", "done"}
  BY Parts, GotoCall DEF CallForgets, Return, CallPcs
<1>f. UNCHANGED <<sessions, lost, claims, id, target, exited, attached, found, left, daemon, restarts>>
  BY DEF CallForgets, RemoveFile, Return, NoCall, managerVars, sessionVars, threadVars, daemonVars
<1>a. /\ \A d \in Callers : d # c => call'[d] = call[d]
      /\ \A i \in Ids : disk'[i] = IF i = call[c].id THEN None ELSE disk[i]
      /\ \/ pc'[Call(c)] = "each" /\ call[c].kind = "stopAll" /\ call' = call
         \/ pc'[Call(c)] = "done" /\ call[c].kind # "stopAll" /\ call'[c] = NoCall
  BY Parts, GotoCall DEF CallForgets, Return, RemoveFile, RegistryTypeOK, CallPcs
<1>2. RegistryTypeOK'
  <2>1. call' \in [Callers -> [kind : Kinds, session : Sessions \cup {None}, id : Ids \cup {None}]]
    BY Parts DEF CallForgets, Return, NoCall, Kinds, RegistryTypeOK
  <2>2. disk' \in [Ids -> Sessions \cup {None}]
    BY Parts DEF CallForgets, RemoveFile, RegistryTypeOK
  <2> QED
    BY Parts, <1>1, <2>1, <2>2 DEF CallForgets, OnlyCall, managerVars, sessionVars, daemonVars,
       RegistryTypeOK
<1>3. Places'
  BY Parts, <1>1, <1>f DEF OnlyCall, Places, CallPcs
<1>4. Names'
  BY Parts, <1>1, <1>f DEF CallForgets, RemoveFile, Return, NoCall, OnlyCall, Names, Added,
     RegistryTypeOK, Callers
<1>5. Lives'
  BY Parts, <1>1, <1>f DEF OnlyCall, Lives
<1>6. Claims'
  BY Parts, <1>1, <1>f DEF OnlyCall, Claims
<1>7. ASSUME Accounts PROVE Accounts'
  <2>t. Identity /\ Stops /\ Ended /\ Going /\ Kept
    BY <1>7 DEF Accounts
  <2>e. Alive
    BY <1>1, <2>t DEF Ended
  <2>0. Alive' /\ Ended'
    BY <1>f, <2>e DEF Alive, Ended
  <2>1. Identity'
    BY Parts, <1>1, <1>f, <2>t, <2>e, <2>0 DEF CallForgets, RemoveFile, Return, NoCall, OnlyCall,
       Identity, Names, Places, RegistryTypeOK, Added, Early, Callers
  <2>2. Stops'
    BY Parts, <1>1, <1>a, <1>f, <2>t DEF OnlyCall, Stops, Serve
  <2>3. Going'
    <3>1. \A d \in Callers : d # c => pc'[Call(d)] = pc[Call(d)] /\ call'[d] = call[d]
      BY <1>1, <1>a DEF OnlyCall
    <3> SUFFICES ASSUME NEW i \in Ids, disk'[i] # None
                 PROVE  \/ sessions[i] = disk[i] \/ i \in lost
                        \/ \E s \in Sessions : id[s] = i /\ pc[Start(s)] = "forget"
                        \/ \E d \in Callers : \/ d # c /\ call[d].id = i /\ pc[Call(d)] = "forget"
                                              \/ /\ d # c /\ call[d].id = i /\ call[d].kind = "stopAll"
                                                 /\ pc[Call(d)] \in {"end", "release"}
                                              \/ \E s \in left[d] : id[s] = i
      BY <1>1, <1>a, <1>f, <3>1 DEF OnlyCall, Going
    <3> QED
      BY <1>1, <1>a, <2>t, <2>e DEF Going
  <2>4. Kept'
    <3>1. \A d \in Callers : pc[Call(d)] = "end" => pc'[Call(d)] = "end" /\ call'[d] = call[d]
      BY <1>1, <1>a DEF OnlyCall
    <3>2. \A s \in Sessions : Mapped(s)' <=> Mapped(s)
      BY <1>f DEF Mapped
    <3>3. \A s \in Sessions : ~exited[s] => id[s] # call[c].id
      BY Parts, <1>1, <2>t DEF Identity, Lives, Places, Early
    <3>4. \A s \in Sessions : ~exited[s] /\ Mapped(s) => disk'[id[s]] = disk[id[s]]
      BY <1>a, <3>3 DEF Mapped
    <3> QED
      BY <1>1, <1>f, <2>t, <3>1, <3>2, <3>4 DEF OnlyCall, Kept
  <2> QED
    BY <2>0, <2>1, <2>2, <2>3, <2>4 DEF Accounts
<1> QED
  BY <1>2, <1>3, <1>4, <1>5, <1>6, <1>7 DEF ClaimsInv

\* StopAll: what it unmaps it is going to end and forget.
LEMMA StopAllKeeps ==
    ASSUME ClaimsInv, NEW c \in Callers, StopAll(c)
    PROVE  ClaimsInv' /\ (Accounts => Accounts')
<1>1. /\ pc[Call(c)] = "stopAll" /\ OnlyCall(c) /\ pc'[Call(c)] = "each"
  BY Parts, GotoCall DEF StopAll, Mapped, CallPcs, Callers
<1>f. UNCHANGED <<lost, claims, id, target, exited, attached, disk, found, call, daemon, restarts>>
  BY DEF StopAll, Mapped, managerVars, sessionVars, threadVars, daemonVars
<1>a. /\ \A i \in Ids : sessions'[i] = None
      /\ \A d \in Callers : d # c => left'[d] = left[d]
      /\ \A s \in Sessions : Mapped(s) => s \in left'[c]
  BY Parts DEF StopAll
<1>2. RegistryTypeOK'
  BY Parts, <1>1, <1>f DEF StopAll, Mapped, OnlyCall, RegistryTypeOK, Kinds, Callers, Alive
<1>3. Places'
  BY Parts, <1>1, <1>f DEF OnlyCall, Places, CallPcs
<1>4. Names'
  BY Parts, <1>1, <1>f DEF StopAll, Mapped, OnlyCall, Names, Added, RegistryTypeOK, Callers
<1>5. Lives'
  BY Parts, <1>1, <1>f DEF OnlyCall, Lives
<1>6. Claims'
  BY Parts, <1>1, <1>f DEF OnlyCall, Claims
<1>7. ASSUME Accounts PROVE Accounts'
  <2>t. Identity /\ Stops /\ Ended /\ Going /\ Kept
    BY <1>7 DEF Accounts
  <2>e. Alive
    BY Parts, <1>1, <2>t DEF StopAll, Mapped, Ended, Callers
  <2>0. Alive' /\ Ended'
    BY <1>f, <2>e DEF Alive, Ended
  <2>1. Identity'
    BY Parts, <1>1, <1>f, <2>t, <2>e, <2>0 DEF OnlyCall, Identity, Names, Places
  <2>2. Stops'
    BY Parts, <1>1, <1>f, <2>t, <2>e, <2>0 DEF StopAll, Mapped, OnlyCall, Stops, Names, Serve,
       RegistryTypeOK, Added, Early, Callers
  <2>3. Going'
    <3>1. left[c] = {}
      BY <1>1, <2>t DEF Stops
    <3>2. \A i \in Ids : sessions[i] # None => Mapped(sessions[i]) /\ sessions[i] \in Sessions /\ id[sessions[i]] = i
      BY Parts DEF Names, Mapped
    <3>3. \A d \in Callers : left[d] \subseteq left'[d]
      BY <1>a, <3>1
    <3>4. \A i \in Ids : sessions[i] # None => \E s \in left'[c] : id[s] = i
      BY <1>a, <3>2
    <3> QED
      BY Parts, <1>1, <1>f, <2>t, <2>0, <2>e, <3>3, <3>4 DEF OnlyCall, Going
  <2>4. Kept'
    <3>1. left[c] = {}
      BY <1>1, <2>t DEF Stops
    <3>2. \A s \in Sessions : ~Mapped(s)'
      BY Parts, <1>a, <1>f DEF Mapped
    <3>3. \A d \in Callers : /\ left[d] \subseteq left'[d]
                             /\ pc[Call(d)] = "end" => pc'[Call(d)] = "end"
      BY <1>1, <1>a, <3>1 DEF OnlyCall
    <3> QED
      BY Parts, <1>1, <1>a, <1>f, <2>t, <3>2, <3>3 DEF OnlyCall, Kept
  <2> QED
    BY <2>0, <2>1, <2>2, <2>3, <2>4 DEF Accounts
<1> QED
  BY <1>2, <1>3, <1>4, <1>5, <1>6, <1>7 DEF ClaimsInv

\* StopAll: the next session of its list.
LEMMA StopAllNextKeeps ==
    ASSUME ClaimsInv, NEW c \in Callers, NEW r \in Sessions, StopAllNext(c, r)
    PROVE  ClaimsInv' /\ (Accounts => Accounts')
<1>1. /\ pc[Call(c)] = "each" /\ OnlyCall(c) /\ pc'[Call(c)] = "end"
  BY Parts, GotoCall DEF StopAllNext, CallPcs, Callers
<1>f. UNCHANGED <<sessions, lost, claims, id, target, exited, attached, disk, found, daemon, restarts>>
  BY DEF StopAllNext, managerVars, sessionVars, threadVars, daemonVars
<1>2. RegistryTypeOK'
  BY Parts, <1>1, <1>f DEF StopAllNext, OnlyCall, RegistryTypeOK, Kinds
<1>3. Places'
  BY Parts, <1>1, <1>f DEF OnlyCall, Places, CallPcs
<1>4. Names'
  BY Parts, <1>1, <1>f DEF StopAllNext, OnlyCall, Names, RegistryTypeOK
<1>5. Lives'
  BY Parts, <1>1, <1>f DEF OnlyCall, Lives
<1>6. Claims'
  BY Parts, <1>1, <1>f DEF OnlyCall, Claims
<1>7. ASSUME Accounts PROVE Accounts'
  <2>t. Identity /\ Stops /\ Ended /\ Going /\ Kept
    BY <1>7 DEF Accounts
  <2>e. Alive
    BY Parts, <1>1, <2>t DEF StopAllNext, Ended, Callers
  <2>0. Alive' /\ Ended'
    BY <1>f, <2>e DEF Alive, Ended
  <2>1. Identity'
    BY Parts, <1>1, <1>f, <2>t, <2>e, <2>0 DEF StopAllNext, OnlyCall, Identity, Names, Places,
       RegistryTypeOK, Added, Early, Callers
  <2>2. Stops'
    BY Parts, <1>1, <1>f, <2>t, <2>e, <2>0 DEF StopAllNext, OnlyCall, Stops, Names, Serve,
       RegistryTypeOK, Added, Early, Callers
  <2>3. Going'
    BY Parts, <1>1, <1>f, <2>t, <2>e, <2>0 DEF StopAllNext, OnlyCall, Going, Identity, Names,
       RegistryTypeOK, Added, Early, Callers
  <2>4. Kept'
    BY Parts, <1>1, <1>f, <2>t, <2>e, <2>0 DEF StopAllNext, OnlyCall, Kept, Names, Places, Mapped,
       RegistryTypeOK, Added, Early, Callers
  <2> QED
    BY <2>0, <2>1, <2>2, <2>3, <2>4 DEF Accounts
<1> QED
  BY <1>2, <1>3, <1>4, <1>5, <1>6, <1>7 DEF ClaimsInv

\* daemon.stop begins its StopAll.
LEMMA DaemonStopKeeps ==
    ASSUME ClaimsInv, NEW c \in Calls, DaemonStop(c)
    PROVE  ClaimsInv' /\ (Accounts => Accounts')
<1>1. /\ pc[Call(c)] = "idle" /\ OnlyCall(c) /\ pc'[Call(c)] = "stopAll"
  BY Parts, GotoCall DEF DaemonStop, Begin, CallPcs, Callers
<1>f. UNCHANGED <<sessions, lost, claims, id, target, exited, attached, disk, found, left, daemon, restarts>>
  BY DEF DaemonStop, Begin, managerVars, sessionVars, threadVars, daemonVars
<1>a. /\ \A d \in Callers : d # c => call'[d] = call[d]
      /\ call'[c] = [kind |-> "stopAll", session |-> None, id |-> None]
  BY Parts DEF DaemonStop, Begin, Callers, RegistryTypeOK
<1>2. RegistryTypeOK'
  BY Parts, <1>1, <1>f DEF DaemonStop, Begin, OnlyCall, RegistryTypeOK, Kinds, Callers, Alive
<1>3. Places'
  BY Parts, <1>1, <1>f DEF OnlyCall, Places, CallPcs
<1>4. Names'
  BY Parts, <1>1, <1>f DEF DaemonStop, Begin, OnlyCall, Names, Added, RegistryTypeOK, Callers
<1>5. Lives'
  BY Parts, <1>1, <1>f DEF OnlyCall, Lives
<1>6. Claims'
  BY Parts, <1>1, <1>f DEF OnlyCall, Claims
<1>7. ASSUME Accounts PROVE Accounts'
  <2>t. Identity /\ Stops /\ Ended /\ Going /\ Kept
    BY <1>7 DEF Accounts
  <2>e. Alive
    BY Parts, <1>1, <2>t DEF DaemonStop, Begin, Ended, Callers
  <2>0. Alive' /\ Ended'
    BY <1>f, <2>e DEF Alive, Ended
  <2>1. Identity'
    BY Parts, <1>1, <1>f, <2>t, <2>e, <2>0 DEF DaemonStop, Begin, OnlyCall, Identity, Names, Places,
       RegistryTypeOK, Added, Early, Callers
  <2>2. Stops'
    BY Parts, <1>1, <1>f, <2>t, <2>e, <2>0 DEF DaemonStop, Begin, OnlyCall, Stops, Names, Serve,
       RegistryTypeOK, Added, Early, Callers
  <2>3. Going'
    BY Parts, <1>1, <1>f, <2>t, <2>e, <2>0 DEF DaemonStop, Begin, OnlyCall, Going, Identity, Names,
       RegistryTypeOK, Added, Early, Callers
  <2>4. Kept'
    BY Parts, <1>1, <1>a, <1>f, <2>t DEF OnlyCall, Kept, Mapped
  <2> QED
    BY <2>0, <2>1, <2>2, <2>3, <2>4 DEF Accounts
<1> QED
  BY <1>2, <1>3, <1>4, <1>5, <1>6, <1>7 DEF ClaimsInv

\* configure: a start is over, or fails and ends its session.
LEMMA ConfigureKeeps ==
    ASSUME ClaimsInv, NEW s \in Sessions, Configure(s)
    PROVE  ClaimsInv' /\ (Accounts => Accounts')
<1>f. UNCHANGED <<sessions, lost, claims, id, target, exited, attached, disk, found, call, left, daemon, restarts>>
  BY DEF Configure, managerVars, sessionVars, threadVars, daemonVars
<1>1. /\ pc[Start(s)] = "configure" /\ pc[Watch(s)] = "idle"
      /\ pc' \in [Threads -> StartPcs \cup WatchPcs \cup CallPcs]
      /\ \A r \in Sessions : r # s => pc'[Start(r)] = pc[Start(r)] /\ pc'[Watch(r)] = pc[Watch(r)]
      /\ \A c \in Callers : pc'[Call(c)] = pc[Call(c)]
      /\ \/ daemon = "up" /\ pc'[Start(s)] = "done" /\ pc'[Watch(s)] = "waiting"
         \/ pc'[Start(s)] = "fail" /\ pc'[Watch(s)] = "idle"
  <2>1. pc[Start(s)] = "configure" /\ pc[Watch(s)] = "idle"
    BY Parts DEF Configure, Places
  <2>2. CASE /\ daemon = "up"
             /\ pc' = [pc EXCEPT ![Start(s)] = "done", ![Watch(s)] = "waiting"]
    BY Parts, <2>1, <2>2, ThreadsApart DEF RegistryTypeOK, StartPcs, WatchPcs
  <2>3. CASE Goto(Start(s), "fail")
    BY Parts, <2>1, <2>3, GotoStart DEF OnlyStart, StartPcs
  <2> QED
    BY <2>2, <2>3 DEF Configure
<1>2. RegistryTypeOK'
  BY Parts, <1>1, <1>f DEF RegistryTypeOK
<1>3. Places'
  BY Parts, <1>1, <1>f DEF Places, StartPcs, WatchPcs
<1>4. Names'
  BY Parts, <1>1, <1>f DEF Names, Added
<1>5. Lives'
  BY Parts, <1>1, <1>f DEF Lives, Early
<1>6. Claims'
  BY Parts, <1>1, <1>f DEF Claims
<1>7. ASSUME Accounts PROVE Accounts'
  <2>t. Identity /\ Stops /\ Ended /\ Going /\ Kept
    BY <1>7 DEF Accounts
  <2>e. Alive
    BY <1>1, <2>t DEF Ended
  <2>0. Alive' /\ Ended'
    BY <1>f, <2>e DEF Alive, Ended
  <2>1. Identity'
    BY <1>1, <1>f, <2>t DEF Identity
  <2>2. Stops'
    BY Parts, <1>1, <1>f, <2>t DEF Stops, Serve, Callers
  <2>3. Going'
    BY <1>1, <1>f, <2>t, <2>e, GoingFrame
  <2>4. Kept'
    BY <1>1, <1>f, <2>t DEF Kept, Mapped
  <2> QED
    BY <2>0, <2>1, <2>2, <2>3, <2>4 DEF Accounts
<1> QED
  BY <1>2, <1>3, <1>4, <1>5, <1>6, <1>7 DEF ClaimsInv

\* The program or the adapter of a session ends.
LEMMA SessionEndsKeeps ==
    ASSUME ClaimsInv, NEW s \in Sessions, SessionEnds(s)
    PROVE  ClaimsInv' /\ (Accounts => Accounts')
<1>f. UNCHANGED <<sessions, lost, claims, id, target, disk, pc, found, call, left, daemon, restarts>>
  BY DEF SessionEnds, managerVars, threadVars, daemonVars
<1>1. /\ attached[s] /\ exited' = [exited EXCEPT ![s] = TRUE]
      /\ attached' = [attached EXCEPT ![s] = FALSE]
  BY DEF SessionEnds, EndSession
<1>a. /\ \A r \in Sessions : r # s => exited'[r] = exited[r] /\ attached'[r] = attached[r]
      /\ exited'[s] /\ ~attached'[s]
      /\ \A r \in Sessions : (exited[r] => exited'[r]) /\ (attached'[r] => attached[r])
  BY Parts, <1>1 DEF RegistryTypeOK
<1>2. RegistryTypeOK'
  BY Parts, <1>1, <1>f DEF RegistryTypeOK
<1>3. Places'
  BY Parts, <1>f DEF Places
<1>4. Names'
  BY Parts, <1>a, <1>f DEF Names
<1>5. Lives'
  BY Parts, <1>1, <1>a, <1>f DEF Lives, Early
<1>6. Claims'
  BY Parts, <1>a, <1>f DEF Claims
<1>7. ASSUME Accounts PROVE Accounts'
  <2>t. Identity /\ Stops /\ Ended /\ Going /\ Kept
    BY <1>7 DEF Accounts
  <2>e. Alive
    BY DEF SessionEnds
  <2>0. Alive' /\ Ended'
    BY <1>f, <2>e DEF Alive, Ended
  <2>1. Identity'
    BY Parts, <1>a, <1>f, <2>t DEF Identity
  <2>2. Stops'
    BY <1>f, <2>t DEF Stops
  <2>3. Going'
    BY <1>f, <2>t, <2>e, GoingFrame
  <2>4. Kept'
    BY <1>a, <1>f, <2>t DEF Kept, Mapped
  <2> QED
    BY <2>0, <2>1, <2>2, <2>3, <2>4 DEF Accounts
<1> QED
  BY <1>2, <1>3, <1>4, <1>5, <1>6, <1>7 DEF ClaimsInv

\* The server's context is canceled, by the request c or by no request, and
\* the server's own StopAll begins.
LEMMA CancelKeeps ==
    ASSUME ClaimsInv, NEW c \in Callers, c = None \/ (pc[Call(c)] = "each" /\ left[c] = {}), Cancel,
           pc' \in [Threads -> StartPcs \cup WatchPcs \cup CallPcs],
           \A r \in Sessions : pc'[Start(r)] = pc[Start(r)] /\ pc'[Watch(r)] = pc[Watch(r)],
           \A d \in Callers : pc'[Call(d)] = IF d = None THEN "stopAll"
                                            ELSE IF d = c THEN "done" ELSE pc[Call(d)]
    PROVE  ClaimsInv' /\ (Accounts => Accounts')
<1>f. UNCHANGED <<sessions, lost, claims, id, target, exited, attached, disk, found, left, restarts>>
  BY DEF Cancel, managerVars, sessionVars
<1>1. daemon = "up" /\ daemon' = "canceled"
  BY DEF Cancel
<1>a. /\ call' \in [Callers -> [kind : Kinds, session : Sessions \cup {None}, id : Ids \cup {None}]]
      /\ \A d \in Callers : d # None => call'[d] = call[d]
      /\ call'[None].kind = "stopAll"
  <2>1. call[None] \in [kind : Kinds, session : Sessions \cup {None}, id : Ids \cup {None}]
    BY Parts DEF RegistryTypeOK
  <2>2. PICK f \in [kind : Kinds, session : Sessions \cup {None}, id : Ids \cup {None}] :
           f.kind = "stopAll" /\ call' = [call EXCEPT ![None] = f]
    <3>1. call' = [call EXCEPT ![None] = [call[None] EXCEPT !.kind = "stopAll"]]
      BY DEF Cancel
    <3> QED
      BY <2>1, <3>1 DEF Kinds
  <2> QED
    BY Parts, <2>2 DEF RegistryTypeOK
<1>2. RegistryTypeOK'
  BY Parts, <1>1, <1>a, <1>f DEF RegistryTypeOK
<1>3. Places'
  BY Parts, <1>f DEF Places, CallPcs
<1>4. Names'
  BY Parts, <1>a, <1>f DEF Names
<1>5. Lives'
  BY Parts, <1>1, <1>f DEF Lives
<1>6. Claims'
  BY Parts, <1>1, <1>f DEF Claims
<1>7. ASSUME Accounts PROVE Accounts'
  <2>t. Identity /\ Stops /\ Ended /\ Going /\ Kept
    BY <1>7 DEF Accounts
  <2>e. Alive /\ Alive' /\ Ended'
    BY <1>1 DEF Alive, Ended
  <2>0. /\ pc[Call(None)] = "idle" /\ left[None] = {} /\ left[c] = {}
        /\ \A d \in Callers : pc[Call(d)] \in {"end", "release", "remove", "forget"} =>
              pc'[Call(d)] = pc[Call(d)] /\ call'[d] = call[d]
    BY Parts, <1>1, <1>a, <2>t DEF Stops, Serve
  <2>a. \A d \in Callers : pc'[Call(d)] \in {"end", "release", "remove", "forget"} =>
           pc'[Call(d)] = pc[Call(d)] /\ call'[d] = call[d]
    BY <1>1, <1>a DEF Serve
  <2>1. Identity'
    <3>1. \A d \in Callers : pc'[Call(d)] \in {"end", "release", "remove"} =>
             id'[call'[d].session] = call'[d].id
      BY <1>f, <2>t, <2>a DEF Identity
    <3>2. \A d \in Callers : pc'[Call(d)] = "forget" =>
             \E r \in Sessions : id'[r] = call'[d].id /\ exited'[r]
      BY <1>f, <2>t, <2>a DEF Identity
    <3>3. /\ \A s, r \in Sessions : id'[s] # None /\ id'[s] = id'[r] => s = r
          /\ \A i \in Ids : disk'[i] # None => id'[disk'[i]] = i
          /\ \A i \in lost' : \E r \in Sessions : id'[r] = i /\ exited'[r]
      BY <1>f, <2>t DEF Identity
    <3> QED
      BY <3>1, <3>2, <3>3, Zenon DEF Identity
  <2>2. Stops'
    <3>1. /\ \A d \in Callers : pc'[Call(d)] \in {"stopAll", "each"} => call'[d].kind = "stopAll"
          /\ \A d \in Callers : left'[d] # {} =>
                call'[d].kind = "stopAll" /\ pc'[Call(d)] \in {"each", "end", "release", "forget"}
      BY <1>a, <1>f, <2>t, <2>0 DEF Stops
    <3>2. daemon' = "canceled" /\ pc'[Serve] = "stopAll" /\ call'[None].kind = "stopAll"
      BY Parts, <1>1, <1>a DEF Serve
    <3> QED
      BY <3>1, <3>2 DEF Stops
  <2>3. Going'
    BY <1>1, <1>f, <2>t, <2>e, <2>0, GoingFrame
  <2>4. Kept'
    BY <1>1, <1>f, <2>t, <2>0 DEF Kept, Mapped
  <2> QED
    BY <2>e, <2>1, <2>2, <2>3, <2>4 DEF Accounts
<1> QED
  BY <1>2, <1>3, <1>4, <1>5, <1>6, <1>7 DEF ClaimsInv

\* A request's StopAll is over once the server's context was canceled.
LEMMA StoppedKeeps ==
    ASSUME ClaimsInv, NEW c \in Calls, pc[Call(c)] = "each", left[c] = {}, Return(c),
           UNCHANGED <<managerVars, sessionVars, disk, found, left, daemonVars>>
    PROVE  ClaimsInv' /\ (Accounts => Accounts')
<1>f. UNCHANGED <<sessions, lost, claims, id, target, exited, attached, disk, found, left, daemon, restarts>>
  BY DEF managerVars, sessionVars, daemonVars
<1>0. c \in Callers /\ c # None
  BY Parts DEF Callers
<1>1. OnlyCall(c) /\ pc'[Call(c)] = "done"
  BY Parts, <1>0, GotoCall DEF Return, CallPcs
<1>a. /\ call' \in [Callers -> [kind : Kinds, session : Sessions \cup {None}, id : Ids \cup {None}]]
      /\ \A d \in Callers : d # c => call'[d] = call[d]
  BY Parts DEF Return, NoCall, RegistryTypeOK, Kinds
<1>2. RegistryTypeOK'
  BY Parts, <1>1, <1>a, <1>f DEF RegistryTypeOK, OnlyCall
<1>3. Places'
  BY Parts, <1>1, <1>f DEF Places, CallPcs, OnlyCall
<1>4. Names'
  <2>1. \A d \in Callers : pc'[Call(d)] \in {"end", "release", "remove"} =>
           pc'[Call(d)] = pc[Call(d)] /\ call'[d] = call[d]
    BY <1>1, <1>a DEF OnlyCall
  <2> QED
    BY Parts, <1>1, <1>f, <2>1 DEF Names, OnlyCall
<1>5. Lives'
  BY Parts, <1>1, <1>f DEF Lives, OnlyCall
<1>6. Claims'
  BY Parts, <1>1, <1>f DEF Claims, OnlyCall
<1>7. ASSUME Accounts PROVE Accounts'
  <2>t. Identity /\ Stops /\ Ended /\ Going /\ Kept
    BY <1>7 DEF Accounts
  <2>e. Alive
    BY <1>0, <2>t DEF Ended
  <2>0. Alive' /\ Ended'
    BY <1>f, <2>e DEF Alive, Ended
  <2>a. \A d \in Callers :
           (pc[Call(d)] \in {"end", "release", "remove", "forget"} \/ d # c) =>
           pc'[Call(d)] = pc[Call(d)] /\ call'[d] = call[d]
    BY <1>1, <1>a DEF OnlyCall
  <2>1. Identity'
    BY <1>1, <1>f, <2>t, <2>a DEF Identity
  <2>2. Stops'
    <3>1. /\ \A d \in Callers : pc'[Call(d)] \in {"stopAll", "each"} => call'[d].kind = "stopAll"
          /\ \A d \in Callers : left'[d] # {} =>
                call'[d].kind = "stopAll" /\ pc'[Call(d)] \in {"each", "end", "release", "forget"}
      BY <1>1, <1>f, <2>t, <2>a DEF Stops
    <3>2. pc'[Serve] = pc[Serve] /\ call'[None] = call[None]
      BY Parts, <1>0, <2>a DEF Serve
    <3>3. \A s \in Sessions : pc'[Start(s)] = pc[Start(s)]
      BY <1>1 DEF OnlyCall
    <3> QED
      BY Parts, <1>f, <2>t, <3>1, <3>2, <3>3 DEF Stops
  <2>3. Going'
    BY <1>1, <1>f, <2>t, <2>e, <2>a, GoingFrame DEF OnlyCall
  <2>4. Kept'
    BY <1>1, <1>f, <2>t, <2>a DEF Kept, Mapped, OnlyCall
  <2> QED
    BY <2>0, <2>1, <2>2, <2>3, <2>4 DEF Accounts
<1> QED
  BY <1>2, <1>3, <1>4, <1>5, <1>6, <1>7 DEF ClaimsInv

\* The process ends, in order or in a crash: only ids and files are left.
LEMMA ProcessEndsKeeps ==
    ASSUME ClaimsInv, ProcessEnds, daemon' \in {"down", "crashed"}
    PROVE  ClaimsInv' /\ (Accounts => Accounts')
<1>1. /\ sessions' = [i \in Ids |-> None] /\ lost' = {} /\ claims' = [k \in Keys |-> None]
      /\ attached' = [s \in Sessions |-> FALSE] /\ exited' = [s \in Sessions |-> id[s] # None]
      /\ found' = [s \in Sessions |-> {}] /\ left' = [c \in Callers |-> {}]
      /\ call' = [c \in Callers |-> NoCall] /\ UNCHANGED <<id, target, disk>>
  BY DEF ProcessEnds
<1>2. /\ pc' \in [Threads -> {"idle", "done"}]
      /\ \A s \in Sessions : /\ pc'[Start(s)] = IF pc[Start(s)] # "idle" THEN "done" ELSE "idle"
                             /\ pc'[Watch(s)] = IF pc[Watch(s)] # "idle" THEN "done" ELSE "idle"
      /\ \A c \in Callers : pc'[Call(c)] \in {"idle", "done"}
      /\ pc'[Serve] = "idle"
  BY Parts, ThreadsApart DEF ProcessEnds, Serve
<1>a. \A s \in Sessions : ~attached'[s] /\ (exited'[s] <=> id[s] # None)
  BY <1>1
<1>3. RegistryTypeOK'
  BY Parts, <1>1, <1>2 DEF RegistryTypeOK, NoCall, Kinds, StartPcs
<1>4. Places'
  BY Parts, <1>1, <1>2 DEF Places, StartPcs, WatchPcs, CallPcs
<1>5. Names'
  BY <1>1, <1>2 DEF Names
<1>6. Lives'
  BY Parts, <1>a, <1>2 DEF Lives, Places, Early
<1>7. Claims'
  BY <1>1, <1>a, <1>2 DEF Claims
<1>8. ASSUME Accounts PROVE Accounts'
  <2>1. Identity'
    BY <1>1, <1>2, <1>8 DEF Accounts, Identity
  <2>2. Stops'
    BY <1>1, <1>2 DEF Stops
  <2>3. Ended' /\ Going'
    BY <1>1, <1>2, <1>a DEF Ended, Going, Alive
  <2>4. Kept'
    BY <1>2 DEF Kept
  <2> QED
    BY <2>1, <2>2, <2>3, <2>4 DEF Accounts
<1> QED
  BY <1>3, <1>4, <1>5, <1>6, <1>7, <1>8 DEF ClaimsInv

\* The next daemon lists what is on disk as lost.
LEMMA RestartKeeps ==
    ASSUME ClaimsInv, Restart
    PROVE  ClaimsInv' /\ (Accounts => Accounts')
<1>1. /\ UNCHANGED <<sessions, claims, id, target, exited, attached, disk, pc, found, call, left>>
      /\ ~Alive /\ daemon' = "up" /\ lost' = {i \in Ids : disk[i] # None}
  BY DEF Restart, sessionVars, threadVars, StoreLost
<1>2. RegistryTypeOK' /\ Places' /\ Names' /\ Lives' /\ Claims'
  BY Parts, <1>1 DEF RegistryTypeOK, Places, Names, Lives, Claims
<1>3. ASSUME Accounts PROVE Accounts'
  <2>t. Identity /\ Stops /\ Ended /\ Going /\ Kept
    BY <1>3 DEF Accounts
  <2>1. \A i \in Ids : disk[i] # None => id[disk[i]] = i /\ exited[disk[i]] /\ disk[i] \in Sessions
    BY Parts, <1>1, <2>t DEF Identity, Ended
  <2>2. Identity'
    BY <1>1, <2>t, <2>1 DEF Identity
  <2>3. Stops'
    BY <1>1, <2>t DEF Stops, Alive
  <2>4. Ended' /\ Going'
    BY <1>1 DEF Ended, Going, Alive
  <2>5. Kept'
    BY <1>1, <2>t DEF Kept, Ended
  <2> QED
    BY <2>2, <2>3, <2>4, <2>5 DEF Accounts
<1> QED
  BY <1>2, <1>3 DEF ClaimsInv

----------------------------------------------------------------------------
(***************************************************************************)
(* The theorems.                                                           *)
(***************************************************************************)

\* The initial state: nothing is started, mapped, claimed or on disk.
LEMMA InitKeeps ==
    ASSUME Init
    PROVE  ClaimsInv /\ Accounts
<1>1. /\ sessions = [i \in Ids |-> None] /\ lost = {} /\ claims = [k \in Keys |-> None]
      /\ id = [s \in Sessions |-> None] /\ target = [s \in Sessions |-> "host"]
      /\ exited = [s \in Sessions |-> FALSE] /\ attached = [s \in Sessions |-> FALSE]
      /\ disk = [i \in Ids |-> None] /\ found = [s \in Sessions |-> {}]
      /\ call = [c \in Callers |-> NoCall] /\ left = [c \in Callers |-> {}] /\ daemon = "up"
  BY DEF Init
<1>2. /\ pc \in [Threads -> {"idle"}]
      /\ \A s \in Sessions : pc[Start(s)] = "idle" /\ pc[Watch(s)] = "idle"
      /\ \A c \in Callers : pc[Call(c)] = "idle"
      /\ pc[Serve] = "idle"
  BY ThreadsApart DEF Init, Serve, Callers
<1>3. RegistryTypeOK
  BY <1>1, <1>2 DEF RegistryTypeOK, NoCall, Kinds, StartPcs
<1>4. Places /\ Names /\ Lives
  BY <1>1, <1>2 DEF Places, Names, Lives, StartPcs, WatchPcs, CallPcs
<1>5. Claims
  BY <1>1, <1>2 DEF Claims
<1>6. Identity /\ Stops /\ Ended /\ Going /\ Kept
  BY <1>1, <1>2 DEF Identity, Stops, Ended, Going, Kept
<1> QED
  BY <1>3, <1>4, <1>5, <1>6 DEF ClaimsInv, Accounts

\* Every step, of any thread or of the daemon, keeps the claims; and, when no
\* id is drawn twice, the accounts too.
LEMMA StepKeeps ==
    ASSUME ClaimsInv, [Next]_vars
    PROVE  ClaimsInv' /\ (Reuse = FALSE /\ Accounts => Accounts')
<1>1. CASE UNCHANGED vars
  <2>1. UNCHANGED <<sessions, lost, claims, id, target, exited, attached, disk, pc, found, call, left, daemon>>
    BY <1>1 DEF vars, managerVars, sessionVars, threadVars, daemonVars
  <2>2. ClaimsInv'
    BY <2>1 DEF ClaimsInv, RegistryTypeOK, Places, Names, Lives, Claims
  <2>3. Accounts => Accounts'
    BY <2>1 DEF Accounts, Identity, Stops, Ended, Going, Kept, Alive, Mapped
  <2> QED
    BY <2>2, <2>3
<1>2. ASSUME NEW s \in Sessions, StartStep(s)
      PROVE  ClaimsInv' /\ (Reuse = FALSE /\ Accounts => Accounts')
  BY <1>2, CreateKeeps, ClaimKeeps, ClaimFoundKeeps, StartAdapterKeeps, AddKeeps, SaveKeeps,
     ConfigureKeeps, FailKeeps, FailRemoveKeeps, FailForgetKeeps, StartReleaseKeeps,
     SessionEndsKeeps, WatchReleaseKeeps, WatchSaveKeeps DEF StartStep
<1>3. ASSUME NEW c \in Callers, CallStep(c)
      PROVE  ClaimsInv' /\ (Accounts => Accounts')
  BY <1>3, CallEndsKeeps, CallReleasesKeeps, CallRemovesKeeps, CallForgetsKeeps, StopAllKeeps,
     StopAllNextKeeps DEF CallStep
<1>4. ASSUME NEW c \in Calls, RequestStep(c)
      PROVE  ClaimsInv' /\ (Accounts => Accounts')
  <2>1. CASE DaemonStopped(c)
    <3>0. pc[Call(c)] = "each" /\ left[c] = {} /\ c \in Callers /\ c # None
      BY <2>1, Parts DEF DaemonStopped, Callers
    <3>1. CASE daemon = "up"
      <4>1. Cancel /\ pc' = [pc EXCEPT ![Call(c)] = "done", ![Serve] = "stopAll"]
        BY <2>1, <3>1 DEF DaemonStopped
      <4>2. /\ pc' \in [Threads -> StartPcs \cup WatchPcs \cup CallPcs]
            /\ \A r \in Sessions : pc'[Start(r)] = pc[Start(r)] /\ pc'[Watch(r)] = pc[Watch(r)]
            /\ \A d \in Callers : pc'[Call(d)] = IF d = None THEN "stopAll"
                                                 ELSE IF d = c THEN "done" ELSE pc[Call(d)]
        <5>1. /\ pc \in [Threads -> StartPcs \cup WatchPcs \cup CallPcs]
              /\ Call(c) \in Threads /\ Call(None) \in Threads /\ Call(c) # Call(None)
          BY Parts, <3>0, ThreadsApart DEF RegistryTypeOK
        <5>2. pc' = [pc EXCEPT ![Call(c)] = "done", ![Call(None)] = "stopAll"]
          BY <4>1 DEF Serve
        <5>3. pc' \in [Threads -> StartPcs \cup WatchPcs \cup CallPcs]
          BY <5>1, <5>2 DEF CallPcs
        <5>4. \A u \in Threads : pc'[u] = IF u = Call(None) THEN "stopAll"
                                         ELSE IF u = Call(c) THEN "done" ELSE pc[u]
          BY <5>1, <5>2
        <5> QED
          BY <3>0, <5>3, <5>4, ThreadsApart
      <4> QED
        BY <3>0, <4>1, <4>2, CancelKeeps
    <3>2. CASE daemon # "up"
      BY <2>1, <3>0, <3>2, StoppedKeeps DEF DaemonStopped
    <3> QED
      BY <3>1, <3>2
  <2>2. CASE DaemonStop(c)
    BY <2>2, DaemonStopKeeps
  <2>3. CASE \E i \in Ids : StopLost(c, i) \/ \E what \in {"stop", "detach"} : Request(c, what, i)
    BY <2>3, StopLostKeeps, RequestKeeps
  <2> QED
    BY <1>4, <2>1, <2>2, <2>3 DEF RequestStep
<1>5. CASE Interrupt
  <2>1. Cancel /\ OnlyCall(None) /\ pc'[Call(None)] = "stopAll"
    BY <1>5, Parts, GotoCall DEF Interrupt, Serve, CallPcs
  <2> QED
    BY Parts, <2>1, CancelKeeps DEF OnlyCall
<1>6. CASE Exit \/ Crash
  BY <1>6, ProcessEndsKeeps DEF Exit, Crash
<1>7. CASE Restart
  BY <1>7, RestartKeeps
<1> QED
  BY <1>1, <1>2, <1>3, <1>4, <1>5, <1>6, <1>7 DEF Next

\* A claim is held for as long as its session holds the debuggee, and claims
\* never conflict (claims.go: take, release).
THEOREM ClaimsKept == Spec => []ClaimsInv
<1>1. Init => ClaimsInv
  BY InitKeeps
<1>2. ClaimsInv /\ [Next]_vars => ClaimsInv'
  BY StepKeeps
<1> QED
  BY <1>1, <1>2, PTL DEF Spec

\* No two sessions debug one process of a container, nor one a process and the
\* other the container's app, however starts, ends, stops and takeovers of
\* claims interleave, and also when ids are drawn again (claims.go: take).
THEOREM ProcessesApart == Spec => []OneDebugger
<1>1. ClaimsInv => OneDebugger
  <2> SUFFICES ASSUME ClaimsInv, NEW s \in Sessions, NEW r \in Sessions, s # r,
                      attached[s], attached[r], {target[s], target[r]} \subseteq Keys
               PROVE  ~(target[s] = target[r] \/ "launch" \in {target[s], target[r]})
    BY DEF OneDebugger
  <2>1. target[s] \in Keys /\ target[r] \in Keys /\ claims[target[s]] = s /\ claims[target[r]] = r
    BY Parts DEF Claims
  <2>2. ~Conflicts(target[s], target[r])
    BY Parts, <2>1 DEF Claims
  <2> QED
    BY <2>2 DEF Conflicts
<1> QED
  BY <1>1, ClaimsKept, PTL

\* With ids that are never drawn twice, whoever takes a session out of the map
\* is the one that removes its file, and files are not written again
\* (manager.go: removeSession, saveIfLive, StopAll).
THEOREM AccountsKept == (Reuse = FALSE) => (Spec => [](ClaimsInv /\ Accounts))
<1> SUFFICES ASSUME Reuse = FALSE PROVE Spec => [](ClaimsInv /\ Accounts)
  OBVIOUS
<1>1. Init => ClaimsInv /\ Accounts
  BY InitKeeps
<1>2. ClaimsInv /\ Accounts /\ [Next]_vars => (ClaimsInv /\ Accounts)'
  BY StepKeeps
<1> QED
  BY <1>1, <1>2, PTL DEF Spec

\* Metadata of a session that left the map is on its way out, whichever of its
\* watcher, a stop, a failed start and StopAll comes last (manager.go:
\* saveIfLive), as long as no id is drawn twice.
THEOREM MetadataStaysGone == (Reuse = FALSE) => (Spec => []NoRevivedMetadata)
<1> SUFFICES ASSUME Reuse = FALSE PROVE Spec => []NoRevivedMetadata
  OBVIOUS
<1>1. Accounts => NoRevivedMetadata
  BY DEF Accounts, Going, NoRevivedMetadata
<1> QED
  BY <1>1, AccountsKept, PTL

\* A running session is in the map or being ended, its metadata is on disk
\* while it is in the map, and an orderly exit leaves no adapter and no file
\* but those of sessions lost before (manager.go: run, StopAll; server.go:
\* Serve), as long as no id is drawn twice.
THEOREM AllAccounted == (Reuse = FALSE) => (Spec => []SessionsAccounted)
<1> SUFFICES ASSUME Reuse = FALSE PROVE Spec => []SessionsAccounted
  OBVIOUS
<1>1. ASSUME ClaimsInv, Accounts PROVE SessionsAccounted
  <2>t. Identity /\ Stops /\ Ended /\ Going /\ Kept
    BY <1>1 DEF Accounts
  <2>1. RunningIsMapped /\ CrashShows
    BY <2>t DEF RunningIsMapped, CrashShows, Running, Kept
  <2>2. ASSUME Drained
        PROVE  (\A s \in Sessions : ~attached[s]) /\ (\A i \in Ids : disk[i] # None => i \in lost)
    <3>1. /\ daemon = "canceled" /\ Alive /\ pc[Call(None)] = "each" /\ left[None] = {}
          /\ \A s \in Sessions : pc[Start(s)] \in {"idle", "done"}
          /\ \A c \in Callers : c # None => pc[Call(c)] \in {"idle", "done"}
      <4>1. \A s \in Sessions : Start(s) \in Threads \ {Serve} /\ Start(s).kind # "watch"
        BY ThreadsApart DEF Serve, Start
      <4>2. \A c \in Callers : c # None => Call(c) \in Threads \ {Serve} /\ Call(c).kind # "watch"
        BY ThreadsApart DEF Serve, Call
      <4> QED
        BY <2>2, <4>1, <4>2 DEF Drained, Serve, Alive
    <3>2. \A i \in Ids : sessions[i] = None
      BY Parts, <1>1, <2>t, <3>1 DEF Stops, Serve
    <3>3. \A c \in Callers : left[c] = {} /\ pc[Call(c)] \notin {"end", "release", "forget"}
      BY <2>t, <3>1 DEF Stops
    <3>4. \A i \in Ids : disk[i] # None => i \in lost
      BY Parts, <1>1, <2>t, <3>1, <3>2, <3>3 DEF Going
    <3>5. ASSUME NEW s \in Sessions, attached[s] PROVE FALSE
      <4>1. ~exited[s] /\ pc[Watch(s)] = "waiting"
        BY Parts, <1>1, <3>1, <3>5 DEF Lives
      <4>2. ~Mapped(s)
        BY Parts, <1>1, <3>2 DEF Mapped
      <4> QED
        BY <2>t, <3>3, <4>1, <4>2 DEF Kept
    <3> QED
      BY <3>4, <3>5
  <2> QED
    BY <2>1, <2>2 DEF SessionsAccounted, CleanExit
<1> QED
  BY <1>1, AccountsKept, PTL

----------------------------------------------------------------------------
(***************************************************************************)
(* A request that waits for programs to stop tells the truth, for any      *)
(* members and however their changes fall between its reads                *)
(* (internal/session/group.go).                                            *)
(*                                                                         *)
(* The argument: a read is what was so when it was made, and a program     *)
(* stops more often and ends for good, so whoever is seen to have stopped  *)
(* since its mark did.  A member that has not stopped since the pass began *)
(* was seen as it is, so that none that stopped earlier is overlooked.     *)
(* After the deadline nothing more counts as news, and the pass that       *)
(* follows it sees all of it.                                              *)
(***************************************************************************)

\* The values the variables have.
States == {"running", "stopped", "exited"}
Reads == [state : States \cup {"unread"}, stops : Nat, stoppedAt : Nat]
Phases == {"idle", "mark", "pass", "wait", "report", "done"}
Hows == {"none", "stopped", "ended", "timeout"}
Results == [member : Group \cup {NoMember}, how : Hows, stoppedAt : Nat, ended : BOOLEAN]

\* The types of all that is read: a pass begins no later than now.
WaitTypeOK ==
    /\ state \in [Group -> States] /\ stops \in [Group -> Nat] /\ stoppedAt \in [Group -> Nat]
    /\ changes \in Nat /\ since \in Nat /\ since <= changes
    /\ phase \in Phases /\ members \subseteq Group /\ expired \in BOOLEAN /\ newOnly \in BOOLEAN
    /\ marks \in [Group -> Reads] /\ seen \in [Group -> Reads]

\* What a request that has not begun knows.
Idling ==
    phase = "idle" => members = {} /\ marks = NoneRead /\ seen = NoneRead /\ news = {}

\* A read is what was so then: programs stop more often, and end for good.
Since(r, m) ==
    r # Unread => stops[m] >= r.stops /\ (r.state = "exited" => state[m] = "exited")

\* Has the member stopped or ended since it was found?
IsNews(m) == stops[m] > marks[m].stops \/ state[m] = "exited"

\* The members a request is about: their marks, and who is news.
Marking ==
    /\ \A m \in members : Since(marks[m], m)
    /\ phase \in {"pass", "wait", "report", "done"} => \A m \in members : marks[m] # Unread
    /\ \A m \in news : m \in members /\ marks[m] # Unread /\ Live(m) /\ IsNews(m)
    /\ ~expired /\ phase # "done" =>
          \A m \in members : marks[m] # Unread /\ Live(m) /\ IsNews(m) => m \in news

\* A pass: a member that has not stopped since it began was seen as it is; after
\* the deadline it sees all the news there will be.
Passing ==
    /\ \A m \in members : Since(seen[m], m)
    /\ \A m \in members : seen[m] # Unread /\ stoppedAt[m] <= since =>
          seen[m].stops = stops[m] /\ seen[m].stoppedAt = stoppedAt[m]
    /\ expired /\ phase = "pass" =>
          \A m \in news : seen[m] # Unread => seen[m].stops > marks[m].stops \/ seen[m].state = "exited"
    /\ expired => phase \in {"pass", "report", "done"}

\* No answer before it is found.
Answering ==
    /\ phase \notin {"report", "done"} => answer.member = NoMember /\ ~answer.ended
    /\ phase # "done" => answer.how # "timeout"
    /\ answer \in Results

\* Nothing is seen while the members are marked.
Unseen == phase \in {"idle", "mark"} => seen = NoneRead

\* The inductive invariant.
WaitInv == WaitTypeOK /\ Idling /\ Marking /\ Passing /\ Answering /\ Unseen /\ WaitHonest

----------------------------------------------------------------------------
\* A set of numbers has a least one.
LEMMA LeastIn ==
    ASSUME NEW S, S \subseteq Nat, S # {}
    PROVE  \E i \in S : \A j \in S : i <= j
<1>1. PICK i \in S : \A j \in S : <<j, i>> \notin OpToRel(<, Nat)
  BY NatLessThanWellFounded, WFMin
<1>2. ASSUME NEW j \in S
      PROVE  i <= j
  <2>1. i \in Nat /\ j \in Nat
    OBVIOUS
  <2>2. j < i => <<j, i>> \in {ss \in Nat \X Nat : ss[1] < ss[2]}
    BY <2>1
  <2>3. ~(j < i)
    BY <1>1, <2>2 DEF OpToRel
  <2> QED
    BY <2>1, <2>3
<1> QED
  BY <1>2

\* stoppedFirst finds one of the set, and none of it stopped earlier.
LEMMA FirstIn ==
    ASSUME NEW S, S \subseteq Nat, S # {}, NEW reads, \A m \in S : reads[m].stoppedAt \in Nat
    PROVE  /\ StoppedFirst(S, reads) \in S
           /\ \A k \in S : reads[StoppedFirst(S, reads)].stoppedAt <= reads[k].stoppedAt
<1> DEFINE Times == {reads[m].stoppedAt : m \in S}
<1>1. PICK t \in Times : \A u \in Times : t <= u
  <2>1. Times \subseteq Nat /\ Times # {}
    OBVIOUS
  <2> QED
    BY <2>1, LeastIn
<1> DEFINE Earliest == {m \in S : reads[m].stoppedAt = t}
<1>2. PICK e \in Earliest : \A j \in Earliest : e <= j
  <2>1. Earliest \subseteq Nat /\ Earliest # {}
    OBVIOUS
  <2> QED
    BY <2>1, LeastIn
<1>3. e \in S /\ e \in Nat /\ reads[e].stoppedAt = t /\ t \in Nat
  BY <1>2
<1>4. ASSUME NEW k \in S \ {e}
      PROVE  \/ reads[e].stoppedAt < reads[k].stoppedAt
             \/ reads[e].stoppedAt = reads[k].stoppedAt /\ e < k
  <2>1. reads[k].stoppedAt \in Nat /\ k \in Nat /\ t <= reads[k].stoppedAt /\ k # e
    BY <1>1
  <2>2. reads[k].stoppedAt = t => e <= k
    BY <1>2
  <2> QED
    BY <1>3, <2>1, <2>2
<1> DEFINE f == StoppedFirst(S, reads)
<1>5. /\ f \in S
      /\ \A k \in S \ {f} : \/ reads[f].stoppedAt < reads[k].stoppedAt
                            \/ reads[f].stoppedAt = reads[k].stoppedAt /\ f < k
  BY <1>3, <1>4 DEF StoppedFirst
<1> HIDE DEF f
<1>6. ASSUME NEW k \in S
      PROVE  reads[f].stoppedAt <= reads[k].stoppedAt
  <2>1. reads[f].stoppedAt \in Nat /\ reads[k].stoppedAt \in Nat
    BY <1>5
  <2>2. CASE k = f
    BY <2>1, <2>2
  <2>3. CASE k # f
    BY <1>5, <2>1, <2>3
  <2> QED
    BY <2>2, <2>3
<1> QED
  BY <1>5, <1>6 DEF f

\* Where a request can be.
LEMMA PhaseNames ==
    /\ "idle" \in Phases /\ "mark" \in Phases /\ "pass" \in Phases
    /\ "wait" \in Phases /\ "report" \in Phases /\ "done" \in Phases
BY DEF Phases

\* How it can end.
LEMMA HowNames == "none" \in Hows /\ "stopped" \in Hows /\ "ended" \in Hows /\ "timeout" \in Hows
BY DEF Hows

\* An answer, put together.
LEMMA ResultIs ==
    ASSUME NEW m \in Group \cup {NoMember}, NEW how \in Hows, NEW when \in Nat, NEW all \in BOOLEAN
    PROVE  [member |-> m, how |-> how, stoppedAt |-> when, ended |-> all] \in Results
BY DEF Results

\* What a member's change changes.
Changed(m) ==
    /\ UNCHANGED <<phase, kind, members, newOnly, marks, seen, expired, answer, since>>
    /\ changes' = changes + 1 /\ state[m] # "exited"
    /\ state' \in [Group -> States] /\ stops' \in [Group -> Nat] /\ stoppedAt' \in [Group -> Nat]
    /\ \A k \in Group : k # m => state'[k] = state[k] /\ stops'[k] = stops[k] /\ stoppedAt'[k] = stoppedAt[k]
    /\ \/ stops'[m] = stops[m] + 1 /\ stoppedAt'[m] = changes + 1 /\ Told(m)
       \/ stops'[m] = stops[m] /\ stoppedAt'[m] = stoppedAt[m] /\ state'[m] = "exited" /\ Told(m)
       \/ stops'[m] = stops[m] /\ stoppedAt'[m] = stoppedAt[m] /\ state'[m] # "exited" /\ news' = news

\* That is what they do.
LEMMA MembersChange ==
    ASSUME WaitTypeOK, NEW m \in Group, MemberStops(m) \/ Resumes(m) \/ Ends(m)
    PROVE  Changed(m)
<1>1. /\ state \in [Group -> States] /\ stops \in [Group -> Nat] /\ stoppedAt \in [Group -> Nat]
      /\ changes \in Nat
  BY DEF WaitTypeOK
<1>2. /\ UNCHANGED <<phase, kind, members, newOnly, marks, seen, expired, answer, since>>
      /\ changes' = changes + 1 /\ state[m] # "exited"
  BY DEF MemberStops, Resumes, Ends, Change
<1>s. "running" \in States /\ "stopped" \in States /\ "exited" \in States
  BY DEF States
<1>3. CASE MemberStops(m)
  <2>1. /\ state' = [state EXCEPT ![m] = "stopped"] /\ stops' = [stops EXCEPT ![m] = stops[m] + 1]
        /\ stoppedAt' = [stoppedAt EXCEPT ![m] = changes + 1] /\ Told(m)
    BY <1>2, <1>3 DEF MemberStops
  <2>2. stops[m] + 1 \in Nat /\ changes + 1 \in Nat
    BY <1>1
  <2>3. /\ state' \in [Group -> States] /\ stops' \in [Group -> Nat] /\ stoppedAt' \in [Group -> Nat]
        /\ \A k \in Group : k # m => state'[k] = state[k] /\ stops'[k] = stops[k] /\ stoppedAt'[k] = stoppedAt[k]
        /\ stops'[m] = stops[m] + 1 /\ stoppedAt'[m] = changes + 1
    BY <1>1, <1>s, <2>1, <2>2
  <2> QED
    BY <1>2, <2>1, <2>3 DEF Changed
<1>4. CASE Resumes(m)
  <2>1. state' = [state EXCEPT ![m] = "running"] /\ stops' = stops /\ stoppedAt' = stoppedAt /\ news' = news
    BY <1>4 DEF Resumes
  <2>2. state' \in [Group -> States] /\ state'[m] = "running"
        /\ \A k \in Group : k # m => state'[k] = state[k]
    BY <1>1, <1>s, <2>1
  <2> QED
    BY <1>1, <1>2, <2>1, <2>2 DEF Changed
<1>5. CASE Ends(m)
  <2>1. state' = [state EXCEPT ![m] = "exited"] /\ stops' = stops /\ stoppedAt' = stoppedAt /\ Told(m)
    BY <1>5 DEF Ends
  <2>2. state' \in [Group -> States] /\ state'[m] = "exited"
        /\ \A k \in Group : k # m => state'[k] = state[k]
    BY <1>1, <1>s, <2>1
  <2> QED
    BY <1>1, <1>2, <2>1, <2>2 DEF Changed
<1> QED
  BY <1>3, <1>4, <1>5

\* A change of a member is told to the request, and its reads stay what was so.
LEMMA ChangeKeeps ==
    ASSUME WaitInv, NEW m \in Group, Changed(m)
    PROVE  WaitInv'
<1>1. WaitTypeOK
  BY DEF WaitInv
<1>2. /\ UNCHANGED <<phase, kind, members, newOnly, marks, seen, expired, answer, since>>
      /\ changes' = changes + 1 /\ state[m] # "exited" /\ members \subseteq Group
      /\ changes \in Nat /\ since \in Nat /\ since <= changes
  BY <1>1 DEF Changed, WaitTypeOK
<1>3. /\ state' \in [Group -> States] /\ stops' \in [Group -> Nat] /\ stoppedAt' \in [Group -> Nat]
      /\ stops \in [Group -> Nat] /\ stoppedAt \in [Group -> Nat]
      /\ \A k \in Group : k # m => state'[k] = state[k] /\ stops'[k] = stops[k] /\ stoppedAt'[k] = stoppedAt[k]
  BY <1>1 DEF Changed, WaitTypeOK
<1>4. /\ stops'[m] \in Nat /\ stops[m] \in Nat /\ stops'[m] >= stops[m]
      /\ \/ stops'[m] > stops[m] /\ stoppedAt'[m] > since
         \/ stops'[m] = stops[m] /\ stoppedAt'[m] = stoppedAt[m]
  BY <1>2, <1>3 DEF Changed
<1>5. \A k \in Group : /\ stops'[k] \in Nat /\ stops[k] \in Nat /\ stops'[k] >= stops[k]
                       /\ state[k] = "exited" => state'[k] = "exited"
  BY <1>2, <1>3, <1>4
<1>6. WaitTypeOK'
  BY <1>1, <1>2, <1>3 DEF WaitTypeOK
<1>7. news' = news \/ (news' = news \cup {m} /\ m \in members /\ marks[m] # Unread /\ Live(m) /\ ~expired /\ phase # "done")
  BY DEF Changed, Told
<1>8. Idling' /\ Unseen'
  BY <1>2, <1>7 DEF WaitInv, Idling, Unseen
<1>9. \A k \in members : marks[k].stops \in Nat /\ seen[k].stops \in Nat
  BY <1>1 DEF WaitTypeOK, Reads
<1>10. (\A k \in members : Since(marks[k], k))' /\ (\A k \in members : Since(seen[k], k))'
  BY <1>2, <1>5, <1>9 DEF WaitInv, Marking, Passing, Since
<1>11. \A k \in members : IsNews(k) => IsNews(k)'
  BY <1>2, <1>5, <1>9 DEF IsNews
<1>12. \A k \in members : k # m => (IsNews(k)' => IsNews(k))
  BY <1>2, <1>3 DEF IsNews
<1>13. Marking'
  <2>1. \A k \in news' : k \in members /\ marks[k] # Unread /\ Live(k) /\ IsNews(k)'
    <3>1. m \in news' /\ m \notin news => IsNews(m)'
      <4>1. CASE news' = news
        BY <4>1
      <4>2. CASE m \in members /\ stops'[m] = stops[m] + 1
        <5>1. marks[m] # Unread => stops[m] >= marks[m].stops
          BY <4>2 DEF WaitInv, Marking, Since
        <5> QED
          BY <1>2, <1>4, <1>7, <1>9, <4>2, <5>1 DEF IsNews
      <4>3. CASE state'[m] = "exited"
        BY <4>3 DEF IsNews
      <4> QED
        BY <1>7, <4>1, <4>2, <4>3 DEF Changed
    <3> QED
      BY <1>7, <1>11, <3>1 DEF WaitInv, Marking
  <2>2. ASSUME ~expired, phase # "done", NEW k \in members, marks[k] # Unread, Live(k), IsNews(k)'
        PROVE  k \in news'
    <3>1. CASE k # m
      BY <1>7, <1>12, <2>2, <3>1 DEF WaitInv, Marking
    <3>2. CASE k = m /\ Told(m)
      BY <2>2, <3>2 DEF Told
    <3>3. CASE k = m /\ stops'[m] = stops[m] /\ state'[m] # "exited" /\ news' = news
      <4>1. IsNews(k)
        BY <1>2, <2>2, <3>3 DEF IsNews
      <4> QED
        BY <2>2, <3>3, <4>1 DEF WaitInv, Marking
    <3> QED
      BY <3>1, <3>2, <3>3 DEF Changed
  <2> QED
    BY <1>2, <1>10, <2>1, <2>2 DEF WaitInv, Marking, Live
<1>14. Passing'
  <2>1. ASSUME NEW k \in members, seen[k] # Unread, stoppedAt'[k] <= since
        PROVE  seen[k].stops = stops'[k] /\ seen[k].stoppedAt = stoppedAt'[k]
    <3>1. k # m \/ (stops'[m] = stops[m] /\ stoppedAt'[m] = stoppedAt[m])
      BY <1>2, <1>3, <1>4, <2>1
    <3>2. stops'[k] = stops[k] /\ stoppedAt'[k] = stoppedAt[k]
      BY <1>2, <1>3, <3>1
    <3> QED
      BY <2>1, <3>2 DEF WaitInv, Passing
  <2>2. expired => news' = news
    BY <1>7
  <2> QED
    BY <1>2, <1>10, <2>1, <2>2 DEF WaitInv, Passing
<1>15. Answering'
  BY <1>2 DEF WaitInv, Answering
<1>16. WaitHonest'
  <2>1. TimeoutHonest'
    BY <1>2, <1>7 DEF WaitInv, WaitHonest, TimeoutHonest
  <2>2. EndedIsTrue'
    BY <1>2, <1>5 DEF WaitInv, WaitHonest, EndedIsTrue
  <2>3. FirstAnswers'
    <3>1. ASSUME NEW k \in members, stops'[k] > marks[k].stops, stoppedAt'[k] <= since
          PROVE  stops[k] > marks[k].stops /\ stoppedAt[k] <= since /\ stoppedAt'[k] = stoppedAt[k]
      BY <1>2, <1>3, <1>4, <3>1
    <3>2. news \subseteq news'
      BY <1>7
    <3> QED
      BY <1>2, <3>1, <3>2 DEF WaitInv, WaitHonest, FirstAnswers, Live
  <2> QED
    BY <2>1, <2>2, <2>3 DEF WaitHonest
<1> QED
  BY <1>6, <1>8, <1>13, <1>14, <1>15, <1>16 DEF WaitInv

----------------------------------------------------------------------------
\* A read of a member now.
LEMMA ReadNow ==
    ASSUME WaitTypeOK, NEW m \in Group
    PROVE  /\ MemberState(m) \in Reads /\ MemberState(m) # Unread
           /\ MemberState(m).state = state[m] /\ MemberState(m).stops = stops[m]
           /\ MemberState(m).stoppedAt = stoppedAt[m]
           /\ stops[m] \in Nat /\ stoppedAt[m] \in Nat
<1>1. state[m] \in States /\ stops[m] \in Nat /\ stoppedAt[m] \in Nat
  BY DEF WaitTypeOK
<1>2. state[m] # "unread"
  BY <1>1 DEF States
<1> QED
  BY <1>1, <1>2 DEF MemberState, Reads, Unread

\* Nothing is read at first.
LEMMA NothingRead ==
    NoneRead \in [Group -> Reads] /\ \A m \in Group : NoneRead[m] = Unread
<1>1. Unread \in Reads
  BY DEF Unread, Reads
<1> QED
  BY <1>1 DEF NoneRead

\* A pass begins: nothing is seen yet.
LEMMA NewPassKeeps ==
    ASSUME WaitInv, NewPass, UNCHANGED <<memberVars, members, newOnly, answer, news>>,
           marks' \in [Group -> Reads], expired' \in BOOLEAN, expired => expired',
           phase \notin {"report", "done"}, Marking', kind' = kind \/ phase = "idle"
    PROVE  WaitInv'
<1>1. /\ WaitTypeOK /\ phase' = "pass" /\ seen' = NoneRead /\ since' = changes
      /\ UNCHANGED <<state, stops, stoppedAt, changes, members, newOnly, answer, news>>
  BY DEF WaitInv, NewPass, memberVars
<1>2. WaitTypeOK'
  BY <1>1, NothingRead DEF WaitTypeOK, Phases
<1>3. Idling' /\ Answering' /\ Unseen'
  BY <1>1 DEF WaitInv, Idling, Answering, Unseen
<1>4. Passing'
  <2>1. \A m \in members : m \in Group /\ seen'[m] = Unread
    BY <1>1, NothingRead DEF WaitTypeOK
  <2>2. \A m \in news : m \in members
    BY DEF WaitInv, Marking
  <2> QED
    BY <1>1, <2>1, <2>2 DEF Passing, Since
<1>5. answer.member = NoMember /\ ~answer.ended
  BY DEF WaitInv, Answering
<1>6. WaitHonest'
  BY <1>1, <1>5 DEF WaitHonest, TimeoutHonest, FirstAnswers, EndedIsTrue
<1> QED
  BY <1>2, <1>3, <1>4, <1>6 DEF WaitInv

\* A request begins.
LEMMA BeginKeeps ==
    ASSUME WaitInv, (\E new \in BOOLEAN : GroupBegin(new)) \/ (\E m \in Group : ExecBegin(m))
    PROVE  WaitInv'
<1>1. /\ WaitTypeOK /\ phase = "idle" /\ members = {} /\ marks = NoneRead /\ seen = NoneRead /\ news = {}
      /\ answer.member = NoMember /\ ~answer.ended /\ ~expired
  BY DEF WaitInv, GroupBegin, ExecBegin, Idling, Answering, Passing
<1>2. CASE \E new \in BOOLEAN : GroupBegin(new)
  <2>1. PICK new \in BOOLEAN : GroupBegin(new)
    BY <1>2
  <2>2. /\ phase' = "mark" /\ newOnly' = new /\ members' = Group
        /\ UNCHANGED <<state, stops, stoppedAt, changes, marks, seen, expired, answer, since, news>>
    BY <2>1 DEF GroupBegin, memberVars
  <2>3. \A m \in Group : marks[m] = Unread /\ seen[m] = Unread
    BY <1>1, NothingRead
  <2>4. WaitTypeOK' /\ Idling' /\ Answering' /\ Unseen'
    BY <1>1, <2>2 DEF WaitInv, WaitTypeOK, Phases, Idling, Answering, Unseen
  <2>5. Marking' /\ Passing'
    BY <1>1, <2>2, <2>3 DEF Marking, Passing, Since
  <2>6. WaitHonest'
    BY <1>1, <2>2 DEF WaitHonest, TimeoutHonest, FirstAnswers, EndedIsTrue
  <2> QED
    BY <2>4, <2>5, <2>6 DEF WaitInv
<1>3. CASE \E m \in Group : ExecBegin(m)
  <2>1. PICK m \in Group : ExecBegin(m)
    BY <1>3
  <2>2. /\ phase' = "pass" /\ seen' = NoneRead /\ since' = changes /\ newOnly' = TRUE /\ members' = {m}
        /\ marks' = [marks EXCEPT ![m] = MemberState(m)]
        /\ UNCHANGED <<state, stops, stoppedAt, changes, expired, answer, news>>
    BY <2>1 DEF ExecBegin, NewPass, memberVars
  <2>3. marks' \in [Group -> Reads] /\ marks'[m] = MemberState(m)
    BY <1>1, <2>2, ReadNow DEF WaitTypeOK
  <2>4. WaitTypeOK' /\ Idling' /\ Answering' /\ Unseen'
    BY <1>1, <2>2, <2>3, NothingRead DEF WaitInv, WaitTypeOK, Phases, Idling, Answering, Unseen
  <2>5. Marking'
    <3>1. Since(marks[m], m)' /\ marks'[m] # Unread /\ ~(Live(m)' /\ IsNews(m)')
      BY <1>1, <2>2, <2>3, ReadNow DEF Since, IsNews, Live
    <3> QED
      BY <1>1, <2>2, <3>1 DEF Marking
  <2>6. Passing'
    BY <1>1, <2>2, NothingRead DEF Passing, Since
  <2>7. WaitHonest'
    BY <1>1, <2>2 DEF WaitHonest, TimeoutHonest, FirstAnswers, EndedIsTrue
  <2> QED
    BY <2>4, <2>5, <2>6, <2>7 DEF WaitInv
<1> QED
  BY <1>2, <1>3

\* A member is marked as it is found.
LEMMA MarkKeeps ==
    ASSUME WaitInv, NEW m \in Group, Mark(m)
    PROVE  WaitInv'
<1>1. /\ WaitTypeOK /\ phase = "mark" /\ m \in members /\ marks[m] = Unread
      /\ marks' = [marks EXCEPT ![m] = MemberState(m)]
      /\ UNCHANGED <<state, stops, stoppedAt, changes, phase, kind, members, newOnly, seen, expired, answer,
                     since, news>>
  BY DEF WaitInv, Mark, NextIn, memberVars
<1>2. marks' \in [Group -> Reads] /\ marks'[m] = MemberState(m) /\ \A k \in Group : k # m => marks'[k] = marks[k]
  BY <1>1, ReadNow DEF WaitTypeOK
<1>3. answer.member = NoMember /\ ~answer.ended
  BY <1>1 DEF WaitInv, Answering
<1>4. WaitTypeOK' /\ Idling' /\ Answering' /\ Unseen'
  BY <1>1, <1>2 DEF WaitInv, WaitTypeOK, Idling, Answering, Unseen
<1>5. Marking'
  <2>1. Since(marks[m], m)' /\ ~(Live(m)' /\ IsNews(m)') /\ m \notin news
    BY <1>1, <1>2, ReadNow DEF Since, IsNews, Live, WaitInv, Marking
  <2>2. \A k \in members : k \in Group
    BY <1>1 DEF WaitTypeOK
  <2>3. \A k \in members : k # m => /\ (Since(marks[k], k) => Since(marks[k], k)')
                                   /\ (Live(k)' <=> Live(k)) /\ (IsNews(k)' <=> IsNews(k))
    BY <1>1, <1>2, <2>2 DEF Since, Live, IsNews
  <2> QED
    BY <1>1, <1>2, <2>1, <2>2, <2>3 DEF WaitInv, Marking
<1>6. Passing'
  BY <1>1 DEF WaitInv, Passing, Since
<1>7. WaitHonest'
  BY <1>1, <1>3 DEF WaitHonest, TimeoutHonest, FirstAnswers, EndedIsTrue
<1> QED
  BY <1>4, <1>5, <1>6, <1>7 DEF WaitInv

\* Reads and what was told do not depend on where the request is.
LEMMA MarksStay ==
    ASSUME WaitInv, UNCHANGED <<state, stops, members, marks, news>>, expired => expired',
           phase # "done", phase' # "done" => phase' = phase \/ \A m \in members : marks[m] # Unread,
           phase' = "done" => \A m \in members : marks[m] # Unread
    PROVE  Marking'
BY DEF WaitInv, Marking, Since, Live, IsNews

\* All are marked: an answer at once, or the first pass.
LEMMA MarkedKeeps ==
    ASSUME WaitInv, Marked
    PROVE  WaitInv'
<1>1. /\ WaitTypeOK /\ phase = "mark" /\ \A m \in members : marks[m] # Unread
      /\ UNCHANGED <<state, stops, stoppedAt, changes, kind, members, newOnly, marks, expired, news>>
  BY DEF WaitInv, Marked, AllRead, memberVars
<1>2. /\ members \subseteq Group /\ members \subseteq Nat /\ \A m \in members : marks[m] \in Reads
      /\ ~expired /\ answer.member = NoMember /\ answer.how # "timeout" /\ ~answer.ended
  BY <1>1, GroupWaitAssumption DEF WaitTypeOK, WaitInv, Passing, Answering
<1>3. Marking'
  BY <1>1, MarksStay
<1> DEFINE stopped == {m \in members : marks[m].state = "stopped"}
           first == StoppedFirst(stopped, marks)
<1>4. CASE /\ phase' = "done" /\ ~\E m \in members : Live(m)
           /\ answer' = [NoAnswer EXCEPT !.how = "ended", !.ended = TRUE] /\ UNCHANGED <<seen, since>>
  <2>1. answer' = [member |-> NoMember, how |-> "ended", stoppedAt |-> 0, ended |-> TRUE]
    BY <1>4 DEF NoAnswer
  <2>2. WaitTypeOK' /\ Idling' /\ Answering' /\ Unseen'
    <3>1. WaitTypeOK'
      BY <1>1, <1>4, PhaseNames DEF WaitTypeOK
    <3>2. Idling' /\ Unseen'
      BY <1>1, <1>4 DEF Idling, Unseen
    <3>3. Answering'
      <4>1. answer' \in Results
        BY <2>1, HowNames, ResultIs
      <4>2. answer'.how # "timeout" \/ phase' = "done"
        BY <1>4, <2>1
      <4> QED
        BY <1>4, <4>1, <4>2 DEF Answering
    <3> QED
      BY <3>1, <3>2, <3>3
  <2>3. Passing'
    BY <1>1, <1>2, <1>4 DEF WaitInv, Passing, Since
  <2>4. \A m \in members : state[m] = "exited"
    BY <1>1, <1>4 DEF WaitInv, Marking, Since, Live
  <2>5. WaitHonest'
    BY <1>1, <2>1, <2>4 DEF WaitHonest, TimeoutHonest, FirstAnswers, EndedIsTrue
  <2> QED
    BY <1>3, <2>2, <2>3, <2>5 DEF WaitInv
<1>5. CASE /\ ~newOnly /\ stopped # {} /\ phase' = "report" /\ UNCHANGED <<seen, since>>
           /\ answer' = [NoAnswer EXCEPT !.member = first, !.how = "stopped", !.stoppedAt = marks[first].stoppedAt]
  <2>1. first \in stopped
    <3>1. stopped \subseteq Nat /\ \A m \in stopped : marks[m].stoppedAt \in Nat
      BY <1>2 DEF Reads
    <3> HIDE DEF stopped
    <3> QED
      BY <1>5, <3>1, FirstIn
  <2>2. first \in members /\ marks[first].state = "stopped" /\ marks[first].stoppedAt \in Nat
    BY <1>2, <2>1 DEF Reads
  <2> HIDE DEF first, stopped
  <2>3. answer' = [member |-> first, how |-> "stopped", stoppedAt |-> marks[first].stoppedAt, ended |-> FALSE]
    BY <1>5 DEF NoAnswer
  <2>4. WaitTypeOK' /\ Idling' /\ Unseen' /\ Answering'
    <3>1. WaitTypeOK'
      BY <1>1, <1>5, PhaseNames DEF WaitTypeOK
    <3>2. Idling' /\ Unseen'
      BY <1>1, <1>5 DEF Idling, Unseen
    <3>3. Answering'
      <4>1. answer' \in Results
        BY <1>2, <2>2, <2>3, HowNames, ResultIs
      <4>2. answer'.how # "timeout" \/ phase' = "done"
        BY <1>5, <1>2, <2>2, <2>3
      <4> QED
        BY <1>5, <4>1, <4>2 DEF Answering
    <3> QED
      BY <3>1, <3>2, <3>3
  <2>5. Passing'
    BY <1>1, <1>2, <1>5 DEF WaitInv, Passing, Since
  <2>6. seen = NoneRead
    BY <1>1 DEF WaitInv, Unseen
  <2>7. FirstAnswers'
    BY <1>1, <1>5, <2>2, <2>3, <2>6 DEF FirstAnswers
  <2>8. TimeoutHonest' /\ EndedIsTrue'
    <3>1. TimeoutHonest'
      BY <1>5 DEF TimeoutHonest
    <3>2. EndedIsTrue'
      BY <2>3 DEF EndedIsTrue
    <3> QED
      BY <3>1, <3>2
  <2> QED
    BY <1>3, <2>4, <2>5, <2>7, <2>8 DEF WaitInv, WaitHonest
<1>6. CASE NewPass /\ UNCHANGED answer
  BY <1>1, <1>3, <1>6, NewPassKeeps DEF WaitInv, WaitTypeOK, memberVars
<1> QED
  BY <1>4, <1>5, <1>6 DEF Marked, Answers

\* A member is seen as it is.
LEMMA PassKeeps ==
    ASSUME WaitInv, NEW m \in Group, Pass(m)
    PROVE  WaitInv'
<1>1. /\ WaitTypeOK /\ phase = "pass" /\ m \in members /\ seen' = [seen EXCEPT ![m] = MemberState(m)]
      /\ UNCHANGED <<state, stops, stoppedAt, changes, phase, kind, members, newOnly, marks, expired, answer,
                     since, news>>
  BY DEF WaitInv, Pass, NextIn, memberVars
<1>2. seen' \in [Group -> Reads] /\ seen'[m] = MemberState(m) /\ \A k \in Group : k # m => seen'[k] = seen[k]
  BY <1>1, ReadNow DEF WaitTypeOK
<1>3. answer.member = NoMember /\ ~answer.ended
  BY <1>1 DEF WaitInv, Answering
<1>4. WaitTypeOK' /\ Idling' /\ Answering' /\ Unseen'
  BY <1>1, <1>2 DEF WaitInv, WaitTypeOK, Idling, Answering, Unseen
<1>5. Marking'
  BY <1>1 DEF WaitInv, Marking, Since, Live, IsNews
<1>6. Passing'
  <2>1. /\ seen'[m].state = state[m] /\ seen'[m].stops = stops[m] /\ seen'[m].stoppedAt = stoppedAt[m]
        /\ stops[m] \in Nat
    BY <1>1, <1>2, ReadNow
  <2>2. Since(seen[m], m)'
    BY <1>1, <2>1 DEF Since
  <2>3. \A k \in members : k \in Group
    BY <1>1 DEF WaitTypeOK
  <2>4. \A k \in members : k # m => (Since(seen[k], k) => Since(seen[k], k)')
    BY <1>1, <1>2, <2>3 DEF Since
  <2>5. m \in news => seen'[m].stops > marks[m].stops \/ seen'[m].state = "exited"
    BY <1>1, <2>1 DEF WaitInv, Marking, IsNews
  <2>6. \A k \in news : k \in members
    BY DEF WaitInv, Marking
  <2> QED
    BY <1>1, <1>2, <2>1, <2>2, <2>3, <2>4, <2>5, <2>6 DEF WaitInv, Passing
<1>7. WaitHonest'
  BY <1>1, <1>3 DEF WaitHonest, TimeoutHonest, FirstAnswers, EndedIsTrue
<1> QED
  BY <1>4, <1>5, <1>6, <1>7 DEF WaitInv

\* The pass is over.
LEMMA DecideKeeps ==
    ASSUME WaitInv, Decide
    PROVE  WaitInv'
<1>1. /\ WaitTypeOK /\ phase = "pass" /\ \A m \in members : seen[m] # Unread
      /\ UNCHANGED <<state, stops, stoppedAt, changes, kind, members, newOnly, marks, seen, expired, since, news>>
  BY DEF WaitInv, Decide, AllRead, memberVars
<1>2. /\ members \subseteq Group /\ members \subseteq Nat
      /\ \A m \in members : /\ marks[m] # Unread /\ marks[m].stops \in Nat
                            /\ seen[m].stops \in Nat /\ seen[m].stoppedAt \in Nat /\ stops[m] \in Nat
      /\ answer.member = NoMember /\ ~answer.ended /\ answer.how # "timeout"
  BY <1>1, GroupWaitAssumption DEF WaitTypeOK, Reads, WaitInv, Marking, Answering
<1>3. Marking'
  BY <1>1, <1>2, MarksStay
<1>4. Stopped \subseteq members /\ EndedMembers \subseteq members
  BY DEF Stopped, EndedMembers
<1>5. ASSUME NEW m \in Stopped \cup EndedMembers
      PROVE  m \in news \/ expired
  <2>1. m \in members /\ Live(m) /\ (seen[m].stops > marks[m].stops \/ seen[m].state = "exited")
    BY <1>5 DEF Stopped, EndedMembers
  <2>2. stops[m] >= seen[m].stops /\ (seen[m].state = "exited" => state[m] = "exited")
    BY <1>1, <2>1 DEF WaitInv, Passing, Since
  <2>3. stops[m] > marks[m].stops \/ state[m] = "exited"
    <3>1. stops[m] \in Nat /\ marks[m].stops \in Nat /\ seen[m].stops \in Nat
      BY <1>2, <2>1
    <3> QED
      BY <2>1, <2>2, <3>1
  <2>4. IsNews(m)
    BY <2>3 DEF IsNews
  <2> QED
    BY <1>1, <1>2, <2>1, <2>4 DEF WaitInv, Marking
<1>6. ASSUME NEW k \in members, Live(k), stops[k] > marks[k].stops, stoppedAt[k] <= since
      PROVE  k \in Stopped /\ seen[k].stoppedAt = stoppedAt[k]
  BY <1>1, <1>6 DEF WaitInv, Passing, Stopped
<1>7. ASSUME NEW m \in members, NEW how \in {"stopped", "ended"}, NEW when \in Nat,
             m \in news \/ expired, phase' = "report",
             answer' = [NoAnswer EXCEPT !.member = m, !.how = how, !.stoppedAt = when],
             \A k \in Stopped : how = "stopped" /\ when <= seen[k].stoppedAt
      PROVE  WaitInv'
  <2>1. answer' = [member |-> m, how |-> how, stoppedAt |-> when, ended |-> FALSE]
    BY <1>7 DEF NoAnswer
  <2>2. WaitTypeOK' /\ Idling' /\ Answering' /\ Unseen'
    <3>1. WaitTypeOK'
      BY <1>1, <1>7, PhaseNames DEF WaitTypeOK
    <3>2. Idling' /\ Unseen'
      BY <1>1, <1>7 DEF Idling, Unseen
    <3>3. Answering'
      <4>1. answer' \in Results
        <5>1. how \in Hows /\ m \in Group \cup {NoMember} /\ FALSE \in BOOLEAN
          BY <1>2, HowNames
        <5> QED
          BY <2>1, <5>1, ResultIs
      <4>2. answer'.how # "timeout" \/ phase' = "done"
        BY <1>7, <1>2, <2>1
      <4> QED
        BY <1>7, <4>1, <4>2 DEF Answering
    <3> QED
      BY <3>1, <3>2, <3>3
  <2>3. Passing'
    BY <1>1, <1>7 DEF WaitInv, Passing, Since
  <2>4. FirstAnswers'
    <3>1. \A k \in members : Live(k) /\ stops[k] > marks[k].stops /\ stoppedAt[k] <= since
                                => how = "stopped" /\ when <= stoppedAt[k]
      BY <1>6, <1>7
    <3> QED
      BY <1>1, <1>7, <2>1, <3>1 DEF FirstAnswers, Live
  <2>5. TimeoutHonest' /\ EndedIsTrue'
    <3>1. TimeoutHonest'
      BY <1>7 DEF TimeoutHonest
    <3>2. EndedIsTrue'
      BY <2>1 DEF EndedIsTrue
    <3> QED
      BY <3>1, <3>2
  <2> QED
    BY <1>3, <2>2, <2>3, <2>4, <2>5 DEF WaitInv, WaitHonest
<1>8. CASE Stopped # {}
  <2>1. PICK S, r, m : S = Stopped /\ r = seen /\ m = StoppedFirst(S, r)
    OBVIOUS
  <2>2. S \subseteq Nat /\ S # {} /\ \A k \in S : r[k].stoppedAt \in Nat
    BY <1>2, <1>4, <1>8, <2>1
  <2>3. m \in S /\ \A k \in S : r[m].stoppedAt <= r[k].stoppedAt
    BY <2>1, <2>2, FirstIn
  <2>4. /\ phase' = "report"
        /\ answer' = [NoAnswer EXCEPT !.member = m, !.how = "stopped", !.stoppedAt = seen[m].stoppedAt]
    BY <1>8, <2>1 DEF Decide, Answers
  <2>5. m \in members /\ seen[m].stoppedAt \in Nat /\ (m \in news \/ expired)
    BY <1>2, <1>4, <1>5, <2>1, <2>3
  <2> QED
    BY <1>7, <2>1, <2>3, <2>4, <2>5
<1>9. CASE Stopped = {} /\ EndedMembers # {}
  <2>1. PICK m : m = CHOOSE e \in EndedMembers : \A k \in EndedMembers : e <= k
    OBVIOUS
  <2>2. m \in EndedMembers
    <3>1. EndedMembers \subseteq Nat
      BY <1>2, <1>4
    <3>2. \E i \in EndedMembers : \A j \in EndedMembers : i <= j
      BY <1>9, <3>1, LeastIn
    <3> QED
      BY <2>1, <3>2
  <2>3. phase' = "report" /\ answer' = [NoAnswer EXCEPT !.member = m, !.how = "ended", !.stoppedAt = 0]
    BY <1>9, <2>1 DEF Decide, Answers
  <2> QED
    BY <1>4, <1>5, <1>7, <1>9, <2>2, <2>3
<1>10. CASE Stopped = {} /\ EndedMembers = {} /\ expired
  <2>1. phase' = "done" /\ answer' = [member |-> NoMember, how |-> "timeout", stoppedAt |-> 0, ended |-> FALSE]
    BY <1>10 DEF Decide, NoAnswer
  <2>2. news = {}
    <3> SUFFICES ASSUME NEW m \in news PROVE FALSE
      OBVIOUS
    <3>1. m \in members /\ Live(m) /\ (seen[m].stops > marks[m].stops \/ seen[m].state = "exited")
      BY <1>1, <1>10 DEF WaitInv, Marking, Passing
    <3> QED
      BY <1>10, <3>1 DEF Stopped, EndedMembers
  <2>3. WaitTypeOK' /\ Idling' /\ Answering' /\ Unseen'
    <3>1. answer' \in Results
      BY <2>1, HowNames, ResultIs
    <3>2. WaitTypeOK' /\ Idling' /\ Unseen'
      BY <1>1, <2>1, PhaseNames DEF WaitTypeOK, Idling, Unseen
    <3> QED
      BY <2>1, <3>1, <3>2 DEF Answering
  <2>4. Passing'
    BY <1>1, <2>1 DEF WaitInv, Passing, Since
  <2>5. WaitHonest'
    BY <1>1, <2>1, <2>2 DEF WaitHonest, TimeoutHonest, FirstAnswers, EndedIsTrue
  <2> QED
    BY <1>3, <2>3, <2>4, <2>5 DEF WaitInv
<1>11. CASE Stopped = {} /\ EndedMembers = {} /\ ~expired
  <2>1. phase' = "wait" /\ answer' = answer
    BY <1>11 DEF Decide
  <2>2. WaitTypeOK' /\ Idling' /\ Answering' /\ Unseen'
    BY <1>1, <1>2, <2>1 DEF WaitInv, WaitTypeOK, Phases, Idling, Answering, Unseen
  <2>3. Passing'
    BY <1>1, <1>11, <2>1 DEF WaitInv, Passing, Since
  <2>4. WaitHonest'
    BY <1>1, <1>2, <2>1 DEF WaitHonest, TimeoutHonest, FirstAnswers, EndedIsTrue
  <2> QED
    BY <1>3, <2>2, <2>3, <2>4 DEF WaitInv
<1> QED
  BY <1>8, <1>9, <1>10, <1>11

\* A channel closed, or the deadline passed.
LEMMA WakeKeeps ==
    ASSUME WaitInv, WaitAnyClosed \/ WaitDeadline
    PROVE  WaitInv'
<1>1. /\ WaitTypeOK /\ phase = "wait" /\ \A m \in members : marks[m] # Unread
      /\ UNCHANGED <<state, stops, stoppedAt, changes, kind, members, newOnly, marks, news>>
      /\ answer.member = NoMember /\ ~answer.ended
  BY DEF WaitInv, WaitAnyClosed, WaitDeadline, memberVars, Marking, Answering
<1>2. expired' \in BOOLEAN /\ (expired => expired') /\ ~expired
  BY <1>1 DEF WaitAnyClosed, WaitDeadline, WaitInv, WaitTypeOK, Passing
<1>3. Marking'
  BY <1>1, <1>2, MarksStay
<1>4. CASE NewPass /\ answer' = answer
  BY <1>1, <1>2, <1>3, <1>4, NewPassKeeps DEF WaitTypeOK, memberVars
<1>5. CASE /\ kind # "group" /\ phase' = "done" /\ answer' = [NoAnswer EXCEPT !.how = "timeout"]
           /\ UNCHANGED <<seen, since>>
  <2>1. answer' = [member |-> NoMember, how |-> "timeout", stoppedAt |-> 0, ended |-> FALSE]
    BY <1>5 DEF NoAnswer
  <2>2. WaitTypeOK' /\ Idling' /\ Answering' /\ Unseen'
    <3>1. WaitTypeOK'
      BY <1>1, <1>5, <1>2, PhaseNames DEF WaitTypeOK
    <3>2. Idling' /\ Unseen'
      BY <1>1, <1>5, <1>2 DEF Idling, Unseen
    <3>3. Answering'
      <4>1. answer' \in Results
        BY <2>1, HowNames, ResultIs
      <4>2. answer'.how # "timeout" \/ phase' = "done"
        BY <1>5, <1>2, <2>1
      <4> QED
        BY <1>5, <1>2, <4>1, <4>2 DEF Answering
    <3> QED
      BY <3>1, <3>2, <3>3
  <2>3. Passing'
    BY <1>1, <1>5 DEF WaitInv, Passing, Since
  <2>4. WaitHonest'
    BY <1>1, <1>5, <2>1 DEF WaitHonest, TimeoutHonest, FirstAnswers, EndedIsTrue
  <2> QED
    BY <1>3, <2>2, <2>3, <2>4 DEF WaitInv
<1> QED
  BY <1>4, <1>5 DEF WaitAnyClosed, WaitDeadline

\* The report.
LEMMA ReportKeeps ==
    ASSUME WaitInv, Report
    PROVE  WaitInv'
<1>1. /\ WaitTypeOK /\ phase = "report" /\ phase' = "done"
      /\ answer' = [answer EXCEPT !.ended = \A m \in members : state[m] = "exited"]
      /\ UNCHANGED <<state, stops, stoppedAt, changes, kind, members, newOnly, marks, seen, expired, since, news>>
  BY DEF WaitInv, Report, memberVars
<1>2. /\ answer'.member = answer.member /\ answer'.how = answer.how /\ answer'.stoppedAt = answer.stoppedAt
      /\ answer'.ended => \A m \in members : state[m] = "exited"
  BY <1>1 DEF WaitInv, Answering
<1>3. Answering'
  BY <1>1 DEF WaitInv, Answering, Results
<1>4. answer.how # "timeout"
  BY <1>1 DEF WaitInv, Answering
<1>5. WaitTypeOK' /\ Idling' /\ Unseen'
  BY <1>1 DEF WaitTypeOK, Phases, Idling, Unseen
<1>6. Marking'
  BY <1>1 DEF WaitInv, Marking, Since, Live, IsNews
<1>7. Passing'
  BY <1>1 DEF WaitInv, Passing, Since
<1>8. WaitHonest'
  BY <1>1, <1>2, <1>4 DEF WaitInv, WaitHonest, TimeoutHonest, FirstAnswers, EndedIsTrue, Live
<1> QED
  BY <1>3, <1>5, <1>6, <1>7, <1>8 DEF WaitInv

\* It holds at first.
LEMMA WaitInvInit == WaitInit => WaitInv
<1> SUFFICES ASSUME WaitInit PROVE WaitInv
  OBVIOUS
<1>1. /\ state \in [Group -> States] /\ stops \in [Group -> Nat] /\ stoppedAt \in [Group -> Nat]
      /\ changes = 0 /\ phase = "idle" /\ members = {} /\ newOnly = FALSE /\ marks = NoneRead /\ seen = NoneRead
      /\ expired = FALSE /\ since = 0 /\ news = {}
  BY DEF WaitInit, States
<1>2. answer = [member |-> NoMember, how |-> "none", stoppedAt |-> 0, ended |-> FALSE]
  BY DEF WaitInit, NoAnswer
<1>3. WaitTypeOK
  <2>1. /\ {} \subseteq Group /\ 0 \in Nat /\ 0 <= 0 /\ FALSE \in BOOLEAN
        /\ NoneRead \in [Group -> Reads]
    BY NothingRead
  <2> QED
    BY <1>1, <2>1, PhaseNames DEF WaitTypeOK
<1>4. Idling /\ Marking /\ Passing /\ Answering /\ Unseen
  <2>1. answer \in Results
    BY <1>2, HowNames, ResultIs
  <2> QED
    BY <1>1, <1>2, <2>1 DEF Idling, Marking, Passing, Answering, Unseen
<1>5. WaitHonest
  BY <1>1, <1>2 DEF WaitHonest, TimeoutHonest, FirstAnswers, EndedIsTrue
<1> QED
  BY <1>3, <1>4, <1>5 DEF WaitInv

\* Every step keeps it.
LEMMA WaitInvNext ==
    ASSUME WaitInv, [WaitNext]_waitVars
    PROVE  WaitInv'
<1>1. CASE UNCHANGED waitVars
  <2>1. UNCHANGED <<state, stops, stoppedAt, changes, phase, kind, members, newOnly, marks, seen, expired, answer,
                    since, news>>
    BY <1>1 DEF waitVars, memberVars, waiterVars
  <2>2. WaitTypeOK' /\ Idling' /\ Answering' /\ Unseen'
    BY <2>1 DEF WaitInv, WaitTypeOK, Idling, Answering, Unseen
  <2>3. Marking' /\ Passing'
    BY <2>1 DEF WaitInv, Marking, Passing, Since, Live, IsNews
  <2>4. WaitHonest'
    BY <2>1 DEF WaitInv, WaitHonest, TimeoutHonest, FirstAnswers, EndedIsTrue, Live
  <2> QED
    BY <2>2, <2>3, <2>4 DEF WaitInv
<1>2. CASE \E m \in Group : MemberStops(m) \/ Resumes(m) \/ Ends(m)
  <2>1. WaitTypeOK
    BY DEF WaitInv
  <2> QED
    BY <1>2, <2>1, MembersChange, ChangeKeeps
<1>3. CASE (\E m \in Group : ExecBegin(m)) \/ \E new \in BOOLEAN : GroupBegin(new)
  BY <1>3, BeginKeeps
<1>4. CASE Waiter
  BY <1>4, MarkKeeps, PassKeeps, MarkedKeeps, DecideKeeps, WakeKeeps, ReportKeeps DEF Waiter
<1>5. CASE WaitDeadline
  BY <1>5, WakeKeeps
<1> QED
  BY <1>1, <1>2, <1>3, <1>4, <1>5 DEF WaitNext

\* A group wait that says it timed out overlooked no stop and no end before its
\* deadline; the member it names did stop or end, and none stopped earlier; and
\* one that says all have ended is right (GroupWait, groupWaitFrom, answered),
\* for any members, in any order of changes and reads.
THEOREM WaitsHonest == WaitSpec => []WaitHonest
<1>1. WaitInv /\ [WaitNext]_waitVars => WaitInv'
  BY WaitInvNext
<1>2. WaitInv => WaitHonest
  BY DEF WaitInv
<1> QED
  BY <1>1, <1>2, WaitInvInit, PTL DEF WaitSpec
=============================================================================
