---------------------------- MODULE FacadeProofs ----------------------------
(***************************************************************************)
(* What an editor is told by the facade (internal/facade): of a session it *)
(* joined (FacadeConnection), and of one it launches (FacadeLaunch).       *)
(***************************************************************************)
EXTENDS FacadeConnection, FacadeLaunch, TLAPS

----------------------------------------------------------------------------
(***************************************************************************)
(* An editor that joined a session, for any bounds, however the log drops  *)
(* events and whenever the connection breaks or its editor leaves.         *)
(*                                                                         *)
(* ToldInv is inductive whoever continues the program: a request between   *)
(* its session call and its response is the worker's first and holds the   *)
(* gate (CalledHolds), so a relay finds the cause of every event answered  *)
(* (CausesAnswered), and the follower's place in the log (FollowsLog)      *)
(* splits what was told or missed from what comes.  Agrees adds, while     *)
(* nobody else continues the program, what the editor is about to be told: *)
(* the program's state is the one shown, or the one its continue's         *)
(* response and the last event pending will show (WillShow).               *)
(***************************************************************************)

\* The values the variables have.
ConnPhases == {"new", "initialized", "attached", "configured"}
ReaderAts == {"read", "slot", "join", "done", "closed"}
RequestAts == {"none", "queued", "called", "failed", "done"}
FollowerAts == {"none", "idle", "resync", "relay", "done"}
ProgStates == {"running", "stopped", "exited"}
LogKinds == {"stopped", "exec", "ended", "breakpoint"}
LogEvents == [kind : LogKinds, cause : Reqs \cup {Other}]

ConnTypeOK ==
    /\ phase \in ConnPhases /\ reader \in ReaderAts
    /\ reqs \in Seq(Kinds) /\ Len(reqs) <= MaxReqs /\ at \in [Reqs -> RequestAts]
    /\ queue \in Seq(Reqs) /\ gate \in BOOLEAN /\ broken \in BOOLEAN
    /\ view \in [configured : BOOLEAN, leaving : BOOLEAN]
    /\ log \in Seq(LogEvents) /\ prog \in ProgStates
    /\ join \in [seq : Nat, state : ProgStates \cup {"none"}]
    /\ follower \in FollowerAts /\ since \in Nat /\ hi \in Nat
    /\ answered \subseteq Reqs /\ told \in Seq(Nat)

\* A request that was not taken yet, or waits for its slot, is nowhere.
TakenInOrder ==
    /\ \A r \in Reqs : r > Len(reqs) => at[r] = "none"
    /\ reader = "slot" => Len(reqs) > 0 /\ at[Len(reqs)] = "none"

\* A request between its session call and its response holds the gate.
CalledHolds ==
    \A r \in Reqs : at[r] = "called" => gate /\ queue # << >> /\ Head(queue) = r

\* What a request caused is logged between its call and its response.
CausesAnswered ==
    \A i \in DOMAIN log :
        \/ log[i].cause = Other \/ log[i].cause \in answered \/ broken
        \/ at[log[i].cause] = "called"

\* Where the follower is in the log.
FollowsLog ==
    /\ follower = "none" => told = << >> /\ missed = {}
    /\ (phase # "configured" \/ reader = "join") => follower = "none"
    /\ reader = "join" => phase = "configured"
    /\ follower # "none" => join.seq <= since
    /\ follower \in {"resync", "relay"} => since < hi /\ hi <= Len(log)
    /\ follower = "resync" => missed # {}
    /\ since <= Len(log) /\ join.seq <= Len(log)
    /\ \A i \in DOMAIN told : told[i] \in 1 .. since

\* The inductive invariant, whoever continues the program.
ToldInv ==
    /\ ConnTypeOK /\ TakenInOrder /\ CalledHolds /\ CausesAnswered /\ FollowsLog
    /\ ResponseFirst /\ ToldInOrder

----------------------------------------------------------------------------
\* A continue the editor waits for.
InFlight(r) == r \in DOMAIN reqs /\ reqs[r] = "continue" /\ at[r] # "done"
Calling == \E r \in Reqs : InFlight(r) /\ at[r] = "called"

\* An editor that shows a program has joined, at most once.
Joins ==
    /\ (follower # "none" \/ shown \in {"running", "stopped"}) => view.configured
    /\ \A r \in Reqs : InFlight(r) => view.configured
    /\ view.configured => phase = "configured" /\ reader # "join"

\* One continue at a time, sent for a stop that is shown.
Offers ==
    /\ \A r, q \in Reqs : InFlight(r) /\ InFlight(q) => r = q
    /\ ~broken /\ ~view.leaving /\ missed = {} =>
          \A r \in Reqs : InFlight(r) => /\ shown \in {"stopped", "exited"}
                                         /\ at[r] = "called" => shown = "stopped"

\* Nobody else continues the program.
OwnExecs == \A i \in DOMAIN log : log[i].kind = "exec" => log[i].cause # Other

\* What the editor shows, or will show once it has joined, and the changes of the
\* program it will be told of after that.
Shows == IF reader = "join" THEN join.state ELSE shown
From == IF reader = "join" THEN join.seq ELSE since
Pending == {i \in DOMAIN log : i > From /\ log[i].kind \in {"stopped", "ended"}}

\* The program's state is what the editor shows, or what it is about to be told
\* by the response to its continue or by the last event pending.
WillShow ==
    /\ prog = "running" => Pending = {} /\ (Shows = "running" \/ (Shows = "stopped" /\ Calling))
    /\ prog = "stopped" =>
          \/ Pending = {} /\ Shows = "stopped" /\ ~Calling
          \/ /\ \E i \in DOMAIN log : Pending = {i} /\ log[i].kind = "stopped"
             /\ Shows = "running" \/ (Shows = "stopped" /\ Calling)
    /\ prog = "exited" =>
          \/ Pending = {} /\ Shows = "exited"
          \/ \E e \in Pending : log[e].kind = "ended" /\ \A i \in Pending : i <= e

Watches == ~broken /\ ~view.leaving /\ missed = {} /\ (reader = "join" \/ view.configured)

\* What it needs beside ToldInv when nobody else continues the program.
Agrees == Joins /\ Offers /\ OwnExecs /\ (Watches => WillShow)

----------------------------------------------------------------------------
\* What an append adds.
LEMMA AppendAdds ==
    ASSUME NEW S, NEW s \in Seq(S), NEW e \in S
    PROVE  /\ Append(s, e) \in Seq(S) /\ Len(Append(s, e)) = Len(s) + 1
           /\ DOMAIN s = 1 .. Len(s) /\ DOMAIN Append(s, e) = 1 .. Len(s) + 1
           /\ \A i \in DOMAIN s : Append(s, e)[i] = s[i]
           /\ Append(s, e)[Len(s) + 1] = e /\ Len(s) \in Nat
  OBVIOUS

\* Where things are, by name.
LEMMA PlaceNames ==
    /\ "new" \in ConnPhases /\ "initialized" \in ConnPhases /\ "attached" \in ConnPhases /\ "configured" \in ConnPhases
    /\ "read" \in ReaderAts /\ "slot" \in ReaderAts /\ "join" \in ReaderAts /\ "done" \in ReaderAts /\ "closed" \in ReaderAts
    /\ "none" \in RequestAts /\ "queued" \in RequestAts /\ "called" \in RequestAts /\ "failed" \in RequestAts
    /\ "done" \in RequestAts
    /\ "none" \in FollowerAts /\ "idle" \in FollowerAts /\ "resync" \in FollowerAts /\ "relay" \in FollowerAts
    /\ "done" \in FollowerAts
    /\ "running" \in ProgStates /\ "stopped" \in ProgStates /\ "exited" \in ProgStates
BY DEF ConnPhases, ReaderAts, RequestAts, FollowerAts, ProgStates

\* An event that can be logged.
LEMMA EventIs ==
    ASSUME NEW kind \in LogKinds, NEW cause \in Reqs \cup {Other}
    PROVE  [kind |-> kind, cause |-> cause] \in LogEvents
BY DEF LogEvents

LEMMA KindNames ==
    "stopped" \in LogKinds /\ "exec" \in LogKinds /\ "ended" \in LogKinds /\ "breakpoint" \in LogKinds
BY DEF LogKinds

\* The log keeps what it has.
LogGrows ==
    log' \in Seq(LogEvents) /\ Len(log) <= Len(log') /\ \A i \in DOMAIN log : log'[i] = log[i]

LEMMA LogAppended ==
    ASSUME ToldInv, NEW e \in LogEvents, log' = Append(log, e)
    PROVE  /\ LogGrows /\ DOMAIN log' = 1 .. Len(log) + 1 /\ DOMAIN log = 1 .. Len(log)
           /\ Len(log') = Len(log) + 1 /\ log'[Len(log) + 1] = e /\ Len(log) \in Nat
<1>1. log \in Seq(LogEvents)
  BY DEF ToldInv, ConnTypeOK
<1>2. /\ log' \in Seq(LogEvents) /\ Len(log') = Len(log) + 1 /\ DOMAIN log = 1 .. Len(log)
      /\ DOMAIN log' = 1 .. Len(log) + 1 /\ \A i \in DOMAIN log : log'[i] = log[i]
      /\ log'[Len(log) + 1] = e /\ Len(log) \in Nat
  BY <1>1, AppendAdds
<1> QED
  BY <1>2 DEF LogGrows

\* Who caused an event.
LEMMA CauseIs ==
    ASSUME ToldInv
    PROVE  \A i \in DOMAIN log : log[i] \in LogEvents /\ log[i].cause \in Reqs \cup {Other}
<1> SUFFICES ASSUME NEW i \in DOMAIN log
             PROVE  log[i] \in LogEvents /\ log[i].cause \in Reqs \cup {Other}
  OBVIOUS
<1>1. log \in Seq(LogEvents)
  BY DEF ToldInv, ConnTypeOK
<1>2. log[i] \in LogEvents
  BY <1>1
<1> QED
  BY <1>2 DEF LogEvents

\* While the follower rests, what it told stays so.
LEMMA FollowStays ==
    ASSUME ToldInv, UNCHANGED <<join, follower, since, hi, told, missed>>, LogGrows,
           answered \subseteq answered', broken => broken', view.leaving => view'.leaving,
           (phase' # "configured" \/ reader' = "join") => follower = "none",
           reader' = "join" => phase' = "configured"
    PROVE  FollowsLog' /\ ResponseFirst' /\ ToldInOrder'
<1>1. /\ log \in Seq(LogEvents) /\ since \in Nat /\ hi \in Nat /\ join.seq \in Nat
      /\ told \in Seq(Nat)
  BY DEF ToldInv, ConnTypeOK
<1>2. Len(log) \in Nat /\ Len(log') \in Nat /\ Len(log) <= Len(log') /\ DOMAIN log = 1 .. Len(log)
  BY <1>1 DEF LogGrows
<1>3. FollowsLog'
  BY <1>1, <1>2 DEF ToldInv, FollowsLog
<1>4. ResponseFirst'
  <2>1. \A i \in DOMAIN told : told[i] \in 1 .. since /\ since <= Len(log)
    BY DEF ToldInv, FollowsLog
  <2>2. \A i \in DOMAIN told : told[i] \in DOMAIN log
    BY <1>1, <1>2, <2>1
  <2>3. \A i \in DOMAIN told : log'[told[i]] = log[told[i]]
    BY <2>2 DEF LogGrows
  <2> QED
    BY <2>3 DEF ToldInv, ResponseFirst
<1>5. ToldInOrder'
  BY DEF ToldInv, ToldInOrder
<1> QED
  BY <1>3, <1>4, <1>5

\* A step of the reader that touches no request.
LEMMA ReaderSteps ==
    ASSUME ToldInv,
           UNCHANGED <<reqs, at, queue, gate, log, prog, join, follower, since, hi, answered, told, missed>>,
           phase' \in ConnPhases, reader' \in ReaderAts, reader' = "slot" => reader = "slot",
           view' \in [configured : BOOLEAN, leaving : BOOLEAN], broken' \in BOOLEAN,
           broken => broken', view.leaving => view'.leaving,
           (phase' # "configured" \/ reader' = "join") => follower = "none",
           reader' = "join" => phase' = "configured"
    PROVE  ToldInv'
<1>1. ConnTypeOK'
  BY DEF ToldInv, ConnTypeOK
<1>2. TakenInOrder' /\ CalledHolds'
  BY DEF ToldInv, TakenInOrder, CalledHolds
<1>3. CausesAnswered'
  BY DEF ToldInv, CausesAnswered
<1>4. FollowsLog' /\ ResponseFirst' /\ ToldInOrder'
  <2>1. LogGrows
    BY DEF ToldInv, ConnTypeOK, LogGrows
  <2> QED
    BY <2>1, FollowStays
<1> QED
  BY <1>1, <1>2, <1>3, <1>4 DEF ToldInv

\* The handshake, disconnect, and the ends of the stream and of the connection.
LEMMA ReaderKeeps ==
    ASSUME ToldInv, Handshake \/ Disconnect \/ Break \/ ReadEnds \/ ServeEnds
    PROVE  ToldInv'
<1>1. /\ UNCHANGED <<reqs, at, queue, gate, log, prog, join, follower, since, hi, answered, told, missed>>
  BY DEF Handshake, Disconnect, Break, ReadEnds, ServeEnds, sessionVars, followVars, clientVars
<1>2. /\ phase \in ConnPhases /\ reader \in ReaderAts /\ broken \in BOOLEAN
      /\ view \in [configured : BOOLEAN, leaving : BOOLEAN]
  BY DEF ToldInv, ConnTypeOK
<1>3. /\ (phase # "configured" \/ reader = "join") => follower = "none"
      /\ reader = "join" => phase = "configured"
  BY DEF ToldInv, FollowsLog
<1>4. CASE Handshake
  <2>1. phase' \in ConnPhases /\ phase # "configured" /\ reader # "join" /\ UNCHANGED <<reader, view, broken>>
    BY <1>4, PlaceNames DEF Handshake
  <2> QED
    BY <1>1, <1>2, <1>3, <2>1, ReaderSteps
<1>5. CASE Disconnect
  <2>1. /\ view' = [view EXCEPT !.leaving = TRUE] /\ reader' = "done" /\ UNCHANGED <<phase, broken>>
    BY <1>5 DEF Disconnect
  <2>2. view' \in [configured : BOOLEAN, leaving : BOOLEAN] /\ view'.leaving
    BY <1>2, <2>1
  <2> QED
    BY <1>1, <1>2, <1>3, <2>1, <2>2, ReaderSteps, PlaceNames
<1>6. CASE Break
  <2>1. broken' = TRUE /\ UNCHANGED <<phase, reader, view>>
    BY <1>6 DEF Break
  <2> QED
    BY <1>1, <1>2, <1>3, <2>1, ReaderSteps
<1>7. CASE ReadEnds \/ ServeEnds
  <2>1. reader' \in {"done", "closed"} /\ UNCHANGED <<phase, view, broken>>
    BY <1>7 DEF ReadEnds, ServeEnds
  <2>2. reader' \in ReaderAts
    BY <2>1, PlaceNames
  <2> QED
    BY <1>1, <1>2, <1>3, <2>1, <2>2, ReaderSteps
<1> QED
  BY <1>4, <1>5, <1>6, <1>7

\* What others do to the program is logged as theirs.
LEMMA SessionKeeps ==
    ASSUME ToldInv, SessionChanges
    PROVE  ToldInv'
<1>1. /\ prog' \in ProgStates
      /\ UNCHANGED <<phase, reader, reqs, at, queue, gate, view, broken, join, follower, since, hi,
                     answered, told, missed>>
  BY PlaceNames DEF SessionChanges, followVars, clientVars
<1>2. PICK e \in LogEvents : e.cause = Other /\ log' = Append(log, e)
  <2>1. \A k \in LogKinds : [kind |-> k, cause |-> Other] \in LogEvents /\ [kind |-> k, cause |-> Other].cause = Other
    BY EventIs
  <2> QED
    BY <2>1, KindNames DEF SessionChanges, Logged
<1>3. /\ LogGrows /\ DOMAIN log' = 1 .. Len(log) + 1 /\ DOMAIN log = 1 .. Len(log)
      /\ log'[Len(log) + 1] = e /\ Len(log) \in Nat
  BY <1>2, LogAppended
<1>4. ConnTypeOK'
  BY <1>1, <1>3 DEF ToldInv, ConnTypeOK, LogGrows
<1>5. TakenInOrder' /\ CalledHolds'
  BY <1>1 DEF ToldInv, TakenInOrder, CalledHolds
<1>6. CausesAnswered'
  <2> SUFFICES ASSUME NEW i \in DOMAIN log'
               PROVE  (\/ log[i].cause = Other \/ log[i].cause \in answered \/ broken
                       \/ at[log[i].cause] = "called")'
    BY DEF CausesAnswered
  <2>1. CASE i \in DOMAIN log
    BY <1>1, <1>3, <2>1 DEF ToldInv, CausesAnswered, LogGrows
  <2>2. CASE i = Len(log) + 1
    BY <1>2, <1>3, <2>2
  <2> QED
    BY <1>3, <2>1, <2>2
<1>7. /\ (phase' # "configured" \/ reader' = "join") => follower = "none"
      /\ reader' = "join" => phase' = "configured"
  BY <1>1 DEF ToldInv, FollowsLog
<1>8. FollowsLog' /\ ResponseFirst' /\ ToldInOrder'
  BY <1>1, <1>3, <1>7, FollowStays
<1> QED
  BY <1>4, <1>5, <1>6, <1>8 DEF ToldInv

\* The reader takes a request, and hands it on.
LEMMA TakeKeeps ==
    ASSUME ToldInv, (\E k \in Kinds : Read(k)) \/ Spawn
    PROVE  ToldInv'
<1>1. /\ UNCHANGED <<phase, gate, view, broken, log, prog, join, follower, since, hi, answered, told, missed>>
  BY DEF Read, Spawn, sessionVars, followVars, clientVars
<1>2. /\ ConnTypeOK /\ reqs \in Seq(Kinds) /\ Len(reqs) \in Nat /\ Len(reqs) <= MaxReqs
      /\ at \in [Reqs -> RequestAts] /\ queue \in Seq(Reqs) /\ MaxReqs \in Nat
  BY ConnectionAssumption DEF ToldInv, ConnTypeOK
<1>3. LogGrows
  BY <1>1 DEF ToldInv, ConnTypeOK, LogGrows
<1>4. reader' \in {"read", "slot"}
  BY DEF Read, Spawn
<1>5. FollowsLog' /\ ResponseFirst' /\ ToldInOrder'
  <2>1. (phase' # "configured" \/ reader' = "join") => follower = "none"
    BY <1>1, <1>4 DEF ToldInv, FollowsLog
  <2> QED
    BY <1>1, <1>3, <1>4, <2>1, FollowStays
<1>6. CASE \E k \in Kinds : Read(k)
  <2>1. PICK k \in Kinds : Read(k)
    BY <1>6
  <2>2. reqs' = Append(reqs, k) /\ reader' = "slot" /\ Len(reqs) < MaxReqs /\ UNCHANGED <<at, queue>>
    BY <2>1 DEF Read
  <2>3. reqs' \in Seq(Kinds) /\ Len(reqs') = Len(reqs) + 1
    BY <1>2, <2>2, AppendAdds
  <2>4. Len(reqs') <= MaxReqs
    BY <1>2, <2>2, <2>3
  <2>5. ConnTypeOK'
    BY <1>1, <1>2, <2>2, <2>3, <2>4, PlaceNames DEF ConnTypeOK
  <2>6. Len(reqs) + 1 \in Reqs /\ at[Len(reqs) + 1] = "none"
    BY <1>2, <2>2 DEF ToldInv, TakenInOrder, Reqs
  <2>7. TakenInOrder'
    BY <1>2, <2>2, <2>3, <2>6 DEF ToldInv, TakenInOrder, Reqs
  <2>8. CalledHolds' /\ CausesAnswered'
    BY <1>1, <2>2 DEF ToldInv, CalledHolds, CausesAnswered
  <2> QED
    BY <1>5, <2>5, <2>7, <2>8 DEF ToldInv
<1>7. CASE Spawn
  <2>1. PICK r : r = Len(reqs)
    OBVIOUS
  <2>2. /\ reader = "slot" /\ reader' = "read" /\ reqs' = reqs /\ at' = [at EXCEPT ![r] = "queued"]
        /\ queue' = queue \/ queue' = Append(queue, r)
    BY <1>7, <2>1 DEF Spawn
  <2>3. r \in Reqs /\ at[r] = "none"
    BY <1>2, <2>1, <2>2 DEF ToldInv, TakenInOrder, Reqs
  <2>4. at' \in [Reqs -> RequestAts] /\ at'[r] = "queued" /\ \A q \in Reqs : q # r => at'[q] = at[q]
    BY <1>2, <2>2, <2>3, PlaceNames
  <2>5. queue' \in Seq(Reqs) /\ (queue # << >> => queue' # << >> /\ Head(queue') = Head(queue))
    BY <1>2, <2>2, <2>3
  <2>6. ConnTypeOK'
    BY <1>1, <1>2, <2>2, <2>4, <2>5, PlaceNames DEF ConnTypeOK
  <2>7. TakenInOrder'
    BY <1>2, <2>1, <2>2, <2>3, <2>4 DEF ToldInv, TakenInOrder
  <2>8. \A q \in Reqs : at'[q] = "called" <=> at[q] = "called"
    BY <2>3, <2>4
  <2>9. CalledHolds'
    BY <1>1, <2>5, <2>8 DEF ToldInv, CalledHolds
  <2>10. CausesAnswered'
    BY <1>1, <2>8, CauseIs DEF ToldInv, CausesAnswered
  <2> QED
    BY <1>5, <2>6, <2>7, <2>9, <2>10 DEF ToldInv
<1> QED
  BY <1>6, <1>7

\* configurationDone, and the join behind it.
LEMMA JoinKeeps ==
    ASSUME ToldInv, ConfigurationDone \/ Join
    PROVE  ToldInv'
<1>1. UNCHANGED <<reqs, at, queue, gate, broken, log, prog, hi, answered, told, missed>>
  BY DEF ConfigurationDone, Join, sessionVars, followVars, clientVars
<1>2. /\ ConnTypeOK /\ log \in Seq(LogEvents) /\ Len(log) \in Nat /\ since \in Nat
      /\ view \in [configured : BOOLEAN, leaving : BOOLEAN] /\ prog \in ProgStates /\ join.seq \in Nat
  BY DEF ToldInv, ConnTypeOK
<1>3. LogGrows
  BY <1>1, <1>2 DEF LogGrows
<1>4. follower = "none" /\ told = << >> /\ missed = {}
  BY DEF ToldInv, FollowsLog, ConfigurationDone, Join
<1>5. TakenInOrder' /\ CalledHolds' /\ CausesAnswered'
  <2>1. reader' # "slot"
    BY DEF ConfigurationDone, Join
  <2> QED
    BY <1>1, <2>1 DEF ToldInv, TakenInOrder, CalledHolds, CausesAnswered
<1>6. ResponseFirst'
  BY <1>1, <1>4 DEF ResponseFirst
<1>7. CASE ConfigurationDone
  <2>1. /\ phase' = "configured" /\ join' = [seq |-> Len(log), state |-> prog] /\ reader' \in {"read", "join"}
        /\ UNCHANGED <<view, follower, since>>
    BY <1>7 DEF ConfigurationDone, followVars
  <2>2. join' \in [seq : Nat, state : ProgStates \cup {"none"}] /\ join'.seq = Len(log) /\ reader' \in ReaderAts
    BY <1>2, <2>1, PlaceNames
  <2>3. ConnTypeOK'
    BY <1>1, <1>2, <2>1, <2>2, PlaceNames DEF ConnTypeOK
  <2>4. FollowsLog'
    BY <1>1, <1>2, <1>4, <2>1, <2>2 DEF ToldInv, FollowsLog
  <2>5. ToldInOrder'
    BY <1>1, <1>4, <2>1 DEF ToldInOrder
  <2> QED
    BY <1>5, <1>6, <2>3, <2>4, <2>5 DEF ToldInv
<1>8. CASE Join
  <2>1. reader = "join" /\ reader' = "read" /\ UNCHANGED <<phase, join>>
    BY <1>8 DEF Join
  <2>2. \/ UNCHANGED <<view, follower, since>>
        \/ /\ view' = [view EXCEPT !.configured = TRUE] /\ follower' = "idle" /\ since' = join.seq
    BY <1>8 DEF Join, followVars, JoinAt
  <2>3. /\ view' \in [configured : BOOLEAN, leaving : BOOLEAN] /\ view'.leaving = view.leaving
        /\ since' \in Nat /\ follower' \in FollowerAts
    <3>1. CASE UNCHANGED <<view, follower, since>>
      BY <1>2, <3>1 DEF ConnTypeOK
    <3>2. CASE /\ view' = [view EXCEPT !.configured = TRUE] /\ follower' = "idle" /\ since' = join.seq
      BY <1>2, <3>2, PlaceNames
    <3> QED
      BY <2>2, <3>1, <3>2
  <2>4. ConnTypeOK'
    BY <1>1, <1>2, <2>1, <2>3, PlaceNames DEF ConnTypeOK
  <2>5. FollowsLog' /\ ToldInOrder'
    <3>1. CASE UNCHANGED <<view, follower, since>>
      <4>1. (phase' # "configured" \/ reader' = "join") => follower = "none"
        BY <1>4
      <4> QED
        BY <1>1, <1>3, <2>1, <3>1, <4>1, FollowStays
    <3>2. CASE follower' = "idle" /\ since' = join.seq
      <4>1. phase = "configured"
        BY <2>1 DEF ToldInv, FollowsLog
      <4>2. FollowsLog'
        BY <1>1, <1>2, <1>4, <2>1, <3>2, <4>1 DEF ToldInv, FollowsLog
      <4>3. ToldInOrder'
        BY <1>1, <1>2, <1>4, <2>1, <3>2 DEF ToldInOrder
      <4> QED
        BY <4>2, <4>3
    <3> QED
      BY <2>2, <3>1, <3>2
  <2> QED
    BY <1>5, <1>6, <2>4, <2>5 DEF ToldInv
<1> QED
  BY <1>7, <1>8

\* The session call of the first request, which then holds the gate.
LEMMA ServeKeeps ==
    ASSUME ToldInv, Serve
    PROVE  ToldInv'
<1>1. PICK r : r = Head(queue)
  OBVIOUS
<1>2. /\ queue # << >> /\ at[r] = "queued" /\ ~gate /\ gate' = GateFor(reqs[r])
      /\ UNCHANGED <<phase, reader, reqs, queue, view, broken, join, follower, since, hi,
                     answered, told, missed>>
  BY <1>1 DEF Serve, followVars, clientVars
<1>3. /\ ConnTypeOK /\ at \in [Reqs -> RequestAts] /\ queue \in Seq(Reqs) /\ log \in Seq(LogEvents)
  BY DEF ToldInv, ConnTypeOK
<1>4. r \in Reqs
  BY <1>1, <1>2, <1>3
<1>5. \A q \in Reqs : at[q] # "called"
  BY <1>2 DEF ToldInv, CalledHolds
<1>6. \/ /\ gate' = TRUE /\ prog' \in ProgStates /\ at' = [at EXCEPT ![r] = "called"]
         /\ \E k \in LogKinds : log' = Append(log, [kind |-> k, cause |-> r])
      \/ at' = [at EXCEPT ![r] = "failed"] /\ UNCHANGED <<log, prog>>
  <2>1. CASE reqs[r] = "continue" /\ prog' = "running" /\ Logged("exec", r) /\ at' = [at EXCEPT ![r] = "called"]
    BY <1>2, <2>1, PlaceNames, KindNames DEF Logged, GateFor, IsGated
  <2>2. CASE reqs[r] = "bps" /\ prog' = prog /\ Logged("breakpoint", r) /\ at' = [at EXCEPT ![r] = "called"]
    BY <1>2, <1>3, <2>2, KindNames DEF Logged, GateFor, IsGated, ConnTypeOK
  <2>3. CASE at' = [at EXCEPT ![r] = "failed"] /\ UNCHANGED <<log, prog>>
    BY <2>3
  <2> QED
    BY <1>1, <2>1, <2>2, <2>3 DEF Serve
<1>7. gate' \in BOOLEAN
  BY <1>2 DEF GateFor, IsGated
<1>8. \A i \in DOMAIN log : \/ log[i].cause = Other \/ log[i].cause \in answered \/ broken
  BY <1>5, CauseIs DEF ToldInv, CausesAnswered, Other
<1>9. /\ (phase' # "configured" \/ reader' = "join") => follower = "none"
      /\ reader' = "join" => phase' = "configured"
  BY <1>2 DEF ToldInv, FollowsLog
<1>10. ASSUME NEW x \in RequestAts, at' = [at EXCEPT ![r] = x], x # "none"
       PROVE  at' \in [Reqs -> RequestAts] /\ at'[r] = x /\ (\A q \in Reqs : q # r => at'[q] = at[q]) /\ TakenInOrder'
  <2>1. at' \in [Reqs -> RequestAts] /\ at'[r] = x /\ \A q \in Reqs : q # r => at'[q] = at[q]
    BY <1>3, <1>4, <1>10
  <2>2. r \in DOMAIN reqs /\ Len(reqs) \in Nat /\ ~(r > Len(reqs))
    BY <1>2, <1>3, <1>4, ConnectionAssumption DEF ToldInv, TakenInOrder, ConnTypeOK, Reqs
  <2>3. reader = "slot" => Len(reqs) \in Reqs /\ Len(reqs) # r
    BY <1>2, <1>3, <2>2, ConnectionAssumption DEF ToldInv, TakenInOrder, ConnTypeOK, Reqs
  <2>4. TakenInOrder'
    BY <1>2, <2>1, <2>2, <2>3 DEF ToldInv, TakenInOrder
  <2> QED
    BY <2>1, <2>4
<1>11. CASE /\ gate' = TRUE /\ prog' \in ProgStates /\ at' = [at EXCEPT ![r] = "called"]
            /\ \E k \in LogKinds : log' = Append(log, [kind |-> k, cause |-> r])
  <2>1. /\ at' \in [Reqs -> RequestAts] /\ at'[r] = "called" /\ \A q \in Reqs : q # r => at'[q] = at[q]
        /\ TakenInOrder'
    BY <1>10, <1>11, PlaceNames
  <2>2. PICK k \in LogKinds : log' = Append(log, [kind |-> k, cause |-> r])
    BY <1>11
  <2>3. PICK e \in LogEvents : e = [kind |-> k, cause |-> r]
    BY <1>4, EventIs
  <2>4. /\ LogGrows /\ DOMAIN log' = 1 .. Len(log) + 1 /\ DOMAIN log = 1 .. Len(log)
        /\ log'[Len(log) + 1] = e /\ Len(log) \in Nat
    BY <2>2, <2>3, LogAppended
  <2>5. ConnTypeOK'
    BY <1>2, <1>3, <1>11, <2>1, <2>4 DEF ConnTypeOK, LogGrows
  <2>6. CalledHolds'
    BY <1>1, <1>2, <1>5, <1>11, <2>1 DEF CalledHolds
  <2>7. CausesAnswered'
    <3> SUFFICES ASSUME NEW i \in DOMAIN log'
                 PROVE  (\/ log[i].cause = Other \/ log[i].cause \in answered \/ broken
                         \/ at[log[i].cause] = "called")'
      BY DEF CausesAnswered
    <3>1. CASE i \in DOMAIN log
      BY <1>2, <1>8, <2>4, <3>1 DEF LogGrows
    <3>2. CASE i = Len(log) + 1
      BY <2>1, <2>3, <2>4, <3>2
    <3> QED
      BY <2>4, <3>1, <3>2
  <2>8. FollowsLog' /\ ResponseFirst' /\ ToldInOrder'
    BY <1>2, <1>9, <2>4, FollowStays
  <2> QED
    BY <2>1, <2>5, <2>6, <2>7, <2>8 DEF ToldInv
<1>12. CASE at' = [at EXCEPT ![r] = "failed"] /\ UNCHANGED <<log, prog>>
  <2>1. /\ at' \in [Reqs -> RequestAts] /\ at'[r] = "failed" /\ \A q \in Reqs : q # r => at'[q] = at[q]
        /\ TakenInOrder'
    BY <1>10, <1>12, PlaceNames
  <2>2. LogGrows
    BY <1>3, <1>12 DEF LogGrows
  <2>3. ConnTypeOK'
    BY <1>2, <1>3, <1>7, <1>12, <2>1 DEF ConnTypeOK
  <2>4. CalledHolds'
    BY <1>5, <2>1 DEF CalledHolds
  <2>5. CausesAnswered'
    BY <1>2, <1>8, <1>12 DEF CausesAnswered
  <2>6. FollowsLog' /\ ResponseFirst' /\ ToldInOrder'
    BY <1>2, <1>9, <2>2, FollowStays
  <2> QED
    BY <2>1, <2>3, <2>4, <2>5, <2>6 DEF ToldInv
<1> QED
  BY <1>6, <1>11, <1>12

\* The response, which lets the gate go; and reads.
LEMMA RespondKeeps ==
    ASSUME ToldInv, Respond \/ \E r \in Reqs : ServeRead(r)
    PROVE  ToldInv'
<1>1. UNCHANGED <<phase, reader, reqs, view, broken, log, prog, join, follower, since, hi, told, missed>>
  BY DEF Respond, ServeRead, sessionVars, followVars, clientVars
<1>2. /\ ConnTypeOK /\ at \in [Reqs -> RequestAts] /\ queue \in Seq(Reqs) /\ log \in Seq(LogEvents)
  BY DEF ToldInv, ConnTypeOK
<1>3. LogGrows
  BY <1>1, <1>2 DEF LogGrows
<1>4. /\ (phase' # "configured" \/ reader' = "join") => follower = "none"
      /\ reader' = "join" => phase' = "configured"
  BY <1>1 DEF ToldInv, FollowsLog
<1>5. ASSUME NEW r \in Reqs, at' = [at EXCEPT ![r] = "done"], at[r] # "none"
      PROVE  /\ at' \in [Reqs -> RequestAts] /\ at'[r] = "done" /\ (\A q \in Reqs : q # r => at'[q] = at[q])
             /\ TakenInOrder'
  <2>1. at' \in [Reqs -> RequestAts] /\ at'[r] = "done" /\ \A q \in Reqs : q # r => at'[q] = at[q]
    BY <1>2, <1>5, PlaceNames
  <2>2. Len(reqs) \in Nat /\ ~(r > Len(reqs))
    BY <1>2, <1>5, ConnectionAssumption DEF ToldInv, TakenInOrder, ConnTypeOK, Reqs
  <2>3. reader = "slot" => Len(reqs) \in Reqs /\ Len(reqs) # r
    BY <1>2, <1>5, <2>2, ConnectionAssumption DEF ToldInv, TakenInOrder, ConnTypeOK, Reqs
  <2>4. TakenInOrder'
    BY <1>1, <2>1, <2>2, <2>3 DEF ToldInv, TakenInOrder
  <2> QED
    BY <2>1, <2>4
<1>6. CASE Respond
  <2>1. PICK r : r = Head(queue)
    OBVIOUS
  <2>2. /\ queue # << >> /\ at[r] \in {"called", "failed"} /\ at' = [at EXCEPT ![r] = "done"]
        /\ queue' = Tail(queue) /\ gate' = FALSE
        /\ answered' = IF at[r] = "called" /\ ~broken THEN answered \cup {r} ELSE answered
    BY <1>6, <2>1 DEF Respond
  <2>3. r \in Reqs /\ queue' \in Seq(Reqs)
    BY <1>2, <2>1, <2>2
  <2>4. /\ at' \in [Reqs -> RequestAts] /\ at'[r] = "done" /\ \A q \in Reqs : q # r => at'[q] = at[q]
        /\ TakenInOrder'
    BY <1>5, <2>2, <2>3
  <2>5. answered' \subseteq Reqs /\ answered \subseteq answered'
    BY <1>2, <2>2, <2>3 DEF ConnTypeOK
  <2>6. ConnTypeOK'
    BY <1>1, <1>2, <2>2, <2>3, <2>4, <2>5 DEF ConnTypeOK
  <2>7. \A q \in Reqs : at[q] = "called" => q = r
    BY <2>1 DEF ToldInv, CalledHolds
  <2>8. CalledHolds'
    BY <2>3, <2>4, <2>7 DEF CalledHolds
  <2>9. CausesAnswered'
    <3> SUFFICES ASSUME NEW i \in DOMAIN log
                 PROVE  \/ log[i].cause = Other \/ log[i].cause \in answered' \/ broken
      BY <1>1 DEF CausesAnswered
    <3>1. log[i].cause \in Reqs \cup {Other}
      BY CauseIs
    <3>2. CASE log[i].cause = Other \/ log[i].cause \in answered \/ broken
      BY <2>5, <3>2
    <3>3. CASE log[i].cause \in Reqs /\ at[log[i].cause] = "called" /\ ~broken
      BY <2>2, <2>7, <3>3
    <3> QED
      BY <3>1, <3>2, <3>3 DEF ToldInv, CausesAnswered
  <2>10. FollowsLog' /\ ResponseFirst' /\ ToldInOrder'
    BY <1>1, <1>3, <1>4, <2>5, FollowStays
  <2> QED
    BY <2>4, <2>6, <2>8, <2>9, <2>10 DEF ToldInv
<1>7. CASE \E r \in Reqs : ServeRead(r)
  <2>1. PICK r \in Reqs : ServeRead(r)
    BY <1>7
  <2>2. at[r] = "queued" /\ at' = [at EXCEPT ![r] = "done"] /\ UNCHANGED <<queue, gate, answered>>
    BY <2>1 DEF ServeRead, clientVars
  <2>3. /\ at' \in [Reqs -> RequestAts] /\ at'[r] = "done" /\ \A q \in Reqs : q # r => at'[q] = at[q]
        /\ TakenInOrder'
    BY <1>5, <2>2
  <2>4. ConnTypeOK'
    BY <1>1, <1>2, <2>2, <2>3 DEF ConnTypeOK
  <2>5. \A q \in Reqs : at'[q] = "called" <=> at[q] = "called"
    BY <2>2, <2>3
  <2>6. CalledHolds' /\ CausesAnswered'
    BY <1>1, <2>2, <2>5, CauseIs DEF ToldInv, CalledHolds, CausesAnswered
  <2>7. FollowsLog' /\ ResponseFirst' /\ ToldInOrder'
    BY <1>1, <1>3, <1>4, <2>2, FollowStays
  <2> QED
    BY <2>3, <2>4, <2>6, <2>7 DEF ToldInv
<1> QED
  BY <1>6, <1>7

\* Where Follow's next batch begins and ends.
BatchFrom == IF First > since + 1 THEN First ELSE since + 1

LEMMA BatchIs ==
    ASSUME ToldInv, Follow
    PROVE  /\ since' = BatchFrom - 1 /\ since <= since' /\ since' < hi' /\ hi' <= Len(log)
           /\ since' \in Nat /\ hi' \in Nat
           /\ missed' = missed \cup (since + 1 .. since')
           /\ follower' = IF since' > since THEN "resync" ELSE "relay"
           /\ UNCHANGED <<phase, reader, reqs, at, queue, gate, view, broken, log, prog, join, answered, told>>
           /\ follower = "idle"
<1>1. /\ since' = BatchFrom - 1 /\ follower = "idle" /\ Len(log) > since
      /\ hi' = IF Len(log) - BatchFrom + 1 > MaxBatch THEN BatchFrom + MaxBatch - 1 ELSE Len(log)
      /\ missed' = missed \cup (since + 1 .. BatchFrom - 1)
      /\ follower' = IF BatchFrom > since + 1 THEN "resync" ELSE "relay"
      /\ UNCHANGED <<phase, reader, reqs, at, queue, gate, view, broken, log, prog, join, answered, told>>
  BY DEF Follow, BatchFrom, sessionVars
<1>2. /\ since \in Nat /\ Len(log) \in Nat /\ KeepLog \in Nat /\ KeepLog > 0 /\ MaxBatch \in Nat /\ MaxBatch > 0
  BY ConnectionAssumption DEF ToldInv, ConnTypeOK
<1>3. BatchFrom \in Nat /\ since + 1 <= BatchFrom /\ BatchFrom <= Len(log)
  BY <1>1, <1>2 DEF BatchFrom, First
<1> HIDE DEF BatchFrom
<1>4. since <= since' /\ since' < hi' /\ hi' <= Len(log) /\ since' \in Nat /\ hi' \in Nat
  BY <1>1, <1>2, <1>3
<1>5. (BatchFrom > since + 1) <=> (since' > since)
  BY <1>1, <1>2, <1>3
<1> QED
  BY <1>1, <1>4, <1>5

\* A batch is fetched; what the log dropped before it is missed.
LEMMA FollowKeeps ==
    ASSUME ToldInv, Follow
    PROVE  ToldInv'
<1>1. /\ since <= since' /\ since' < hi' /\ hi' <= Len(log) /\ since' \in Nat /\ hi' \in Nat
      /\ missed' = missed \cup (since + 1 .. since')
      /\ follower' = IF since' > since THEN "resync" ELSE "relay"
      /\ UNCHANGED <<phase, reader, reqs, at, queue, gate, view, broken, log, prog, join, answered, told>>
      /\ follower = "idle"
  BY BatchIs
<1>2. ConnTypeOK /\ since \in Nat /\ Len(log) \in Nat /\ join.seq \in Nat /\ told \in Seq(Nat)
  BY DEF ToldInv, ConnTypeOK
<1>3. follower' \in FollowerAts
  BY <1>1, PlaceNames
<1>4. ConnTypeOK'
  BY <1>1, <1>2, <1>3 DEF ConnTypeOK
<1>5. TakenInOrder' /\ CalledHolds' /\ CausesAnswered'
  BY <1>1 DEF ToldInv, TakenInOrder, CalledHolds, CausesAnswered
<1>6. FollowsLog'
  <2>1. follower' = "resync" => since + 1 \in missed'
    BY <1>1, <1>2
  <2>2. phase = "configured" /\ reader # "join" /\ join.seq <= since /\ join.seq <= Len(log)
    BY <1>1 DEF ToldInv, FollowsLog
  <2>3. \A i \in DOMAIN told : told[i] \in 1 .. since'
    BY <1>1, <1>2 DEF ToldInv, FollowsLog
  <2>4. follower' # "none" /\ (follower' = "resync" => missed' # {})
    BY <1>1, <2>1
  <2>5. join.seq <= since' /\ since' <= Len(log)
    BY <1>1, <1>2, <2>2
  <2>6. /\ phase' = "configured" /\ reader' # "join" /\ join' = join /\ log' = log /\ told' = told
    BY <1>1, <2>2
  <2> QED
    BY <1>1, <2>2, <2>3, <2>4, <2>5, <2>6 DEF FollowsLog
<1>7. ResponseFirst'
  BY <1>1 DEF ToldInv, ResponseFirst
<1>8. ToldInOrder'
  <2>1. ~broken /\ ~view.leaving => {told[i] : i \in DOMAIN told} \cup missed = join.seq + 1 .. since
    BY <1>1 DEF ToldInv, ToldInOrder
  <2>2. join.seq <= since
    BY <1>1 DEF ToldInv, FollowsLog
  <2>3. (join.seq + 1 .. since) \cup (since + 1 .. since') = join.seq + 1 .. since'
    BY <1>1, <1>2, <2>2
  <2>4. ~broken /\ ~view.leaving => {told[i] : i \in DOMAIN told} \cup missed' = join.seq + 1 .. since'
    BY <1>1, <2>1, <2>3
  <2> QED
    BY <1>1, <2>4 DEF ToldInv, ToldInOrder
<1> QED
  BY <1>4, <1>5, <1>6, <1>7, <1>8 DEF ToldInv

\* A resync stands for what was missed; the follower ends.
LEMMA ResyncKeeps ==
    ASSUME ToldInv, Resync \/ FollowEnds
    PROVE  ToldInv'
<1>1. /\ UNCHANGED <<phase, reader, reqs, at, queue, gate, view, broken, log, prog, join, since, hi, answered,
                     told, missed>>
      /\ follower \in {"resync", "idle"} /\ follower' \in {"relay", "done"}
      /\ follower = "idle" => follower' = "done"
  BY DEF Resync, FollowEnds, sessionVars, clientVars
<1>2. follower' \in FollowerAts
  BY <1>1, PlaceNames
<1>3. ConnTypeOK'
  BY <1>1, <1>2 DEF ToldInv, ConnTypeOK
<1>4. TakenInOrder' /\ CalledHolds' /\ CausesAnswered'
  BY <1>1 DEF ToldInv, TakenInOrder, CalledHolds, CausesAnswered
<1>5. FollowsLog'
  BY <1>1 DEF ToldInv, FollowsLog
<1>6. ResponseFirst' /\ ToldInOrder'
  BY <1>1 DEF ToldInv, ResponseFirst, ToldInOrder
<1> QED
  BY <1>3, <1>4, <1>5, <1>6 DEF ToldInv

\* An event is relayed while nobody holds the gate: its cause was answered.
LEMMA RelayKeeps ==
    ASSUME ToldInv, Relay
    PROVE  ToldInv'
<1>1. /\ follower = "relay" /\ ~gate /\ since' = since + 1
      /\ UNCHANGED <<phase, reader, reqs, at, queue, gate, view, broken, log, prog, join, hi, answered, missed>>
      /\ told' = IF ~broken /\ ~view.leaving THEN Append(told, since + 1) ELSE told
      /\ follower' \in {"done", "idle", "relay"} /\ (follower' = "relay" => since + 1 # hi)
  BY DEF Relay, sessionVars
<1>2. /\ ConnTypeOK /\ since \in Nat /\ hi \in Nat /\ Len(log) \in Nat /\ join.seq \in Nat /\ told \in Seq(Nat)
      /\ DOMAIN log = 1 .. Len(log)
  BY DEF ToldInv, ConnTypeOK
<1>3. /\ since < hi /\ hi <= Len(log) /\ phase = "configured" /\ reader # "join" /\ join.seq <= since
      /\ join.seq <= Len(log)
  BY <1>1 DEF ToldInv, FollowsLog
<1>4. /\ told' \in Seq(Nat) /\ DOMAIN told = 1 .. Len(told) /\ Len(told) \in Nat
      /\ ~broken /\ ~view.leaving => /\ DOMAIN told' = 1 .. Len(told) + 1 /\ told'[Len(told) + 1] = since + 1
                                     /\ \A i \in DOMAIN told : told'[i] = told[i]
      /\ (broken \/ view.leaving) => told' = told
  <2>1. since + 1 \in Nat
    BY <1>2
  <2> QED
    BY <1>1, <1>2, <2>1, AppendAdds
<1>5. follower' \in FollowerAts
  BY <1>1, PlaceNames
<1>6. ConnTypeOK'
  <2>1. since' \in Nat
    BY <1>1, <1>2
  <2> QED
    BY <1>1, <1>2, <1>4, <1>5, <2>1 DEF ConnTypeOK
<1>7. TakenInOrder' /\ CalledHolds' /\ CausesAnswered'
  BY <1>1 DEF ToldInv, TakenInOrder, CalledHolds, CausesAnswered
<1>8. \A i \in DOMAIN told : told[i] \in 1 .. since
  BY DEF ToldInv, FollowsLog
<1>9. FollowsLog'
  <2>1. \A i \in DOMAIN told' : told'[i] \in 1 .. since'
    <3>1. \A i \in DOMAIN told : told[i] \in 1 .. since'
      BY <1>1, <1>2, <1>8
    <3>2. since + 1 \in 1 .. since'
      BY <1>1, <1>2
    <3>3. CASE broken \/ view.leaving
      BY <1>4, <3>1, <3>3
    <3>4. CASE ~broken /\ ~view.leaving
      <4>1. \A i \in DOMAIN told' : i \in DOMAIN told \/ i = Len(told) + 1
        BY <1>4, <3>4
      <4> QED
        BY <1>4, <3>1, <3>2, <3>4, <4>1
    <3> QED
      BY <3>3, <3>4
  <2>2. follower' # "none" /\ follower' # "resync"
    BY <1>1
  <2> QED
    BY <1>1, <1>2, <1>3, <2>1, <2>2 DEF FollowsLog
<1>10. ResponseFirst'
  <2>1. since + 1 \in DOMAIN log
    BY <1>2, <1>3
  <2>2. ~broken => log[since + 1].cause = Other \/ log[since + 1].cause \in answered
    <3>1. \A q \in Reqs : at[q] # "called"
      BY <1>1 DEF ToldInv, CalledHolds
    <3> QED
      BY <2>1, <3>1, CauseIs DEF ToldInv, CausesAnswered
  <2>3. CASE broken \/ view.leaving
    BY <1>1, <1>4, <2>3 DEF ToldInv, ResponseFirst
  <2>4. CASE ~broken /\ ~view.leaving
    <3>1. \A i \in DOMAIN told : log[told[i]].cause = Other \/ log[told[i]].cause \in answered
      BY DEF ToldInv, ResponseFirst
    <3>2. \A i \in DOMAIN told' : log[told'[i]].cause = Other \/ log[told'[i]].cause \in answered
      BY <1>4, <2>2, <2>4, <3>1
    <3> QED
      BY <1>1, <3>2 DEF ResponseFirst
  <2> QED
    BY <2>3, <2>4
<1>11. ToldInOrder'
  <2>1. CASE broken \/ view.leaving
    BY <1>1, <1>4, <2>1 DEF ToldInv, ToldInOrder
  <2>2. CASE ~broken /\ ~view.leaving
    <3>1. \A i \in DOMAIN told' : \A j \in DOMAIN told' : i < j => told'[i] < told'[j]
      <4>1. \A i \in DOMAIN told : \A j \in DOMAIN told : i < j => told[i] < told[j]
        BY DEF ToldInv, ToldInOrder
      <4>2. \A i \in DOMAIN told' : i \in DOMAIN told \/ i = Len(told) + 1
        BY <1>4, <2>2
      <4>3. \A i \in DOMAIN told : told[i] < since + 1 /\ i < Len(told) + 1
        BY <1>2, <1>4, <1>8
      <4>4. ASSUME NEW i \in DOMAIN told', NEW j \in DOMAIN told', i < j
            PROVE  told'[i] < told'[j]
        <5>1. i \in DOMAIN told
          BY <1>4, <2>2, <4>2, <4>4
        <5>2. CASE j \in DOMAIN told
          BY <1>4, <2>2, <4>1, <4>4, <5>1, <5>2
        <5>3. CASE j = Len(told) + 1
          BY <1>4, <2>2, <4>3, <5>1, <5>3
        <5> QED
          BY <4>2, <5>2, <5>3
      <4> QED
        BY <4>4
    <3>2. {told'[i] : i \in DOMAIN told'} = {told[i] : i \in DOMAIN told} \cup {since + 1}
      BY <1>4, <2>2
    <3>3. {told[i] : i \in DOMAIN told} \cup missed = join.seq + 1 .. since
      BY <1>1, <2>2 DEF ToldInv, ToldInOrder
    <3>4. (join.seq + 1 .. since) \cup {since + 1} = join.seq + 1 .. since + 1
      BY <1>2, <1>3
    <3>5. {told'[i] : i \in DOMAIN told'} \cup missed = join.seq + 1 .. since + 1
      BY <3>2, <3>3, <3>4
    <3> QED
      BY <1>1, <3>1, <3>5 DEF ToldInOrder
  <2> QED
    BY <2>1, <2>2
<1> QED
  BY <1>6, <1>7, <1>9, <1>10, <1>11 DEF ToldInv

\* It holds at first.
LEMMA ToldFirst == ConnectionInit => ToldInv
<1> SUFFICES ASSUME ConnectionInit PROVE ToldInv
  OBVIOUS
<1>1. /\ phase = "new" /\ reader = "read" /\ reqs = << >> /\ at = [r \in Reqs |-> "none"]
      /\ queue = << >> /\ gate = FALSE /\ broken = FALSE
      /\ view = [configured |-> FALSE, leaving |-> FALSE] /\ log = << >>
      /\ join = [seq |-> 0, state |-> "none"] /\ follower = "none" /\ since = 0 /\ hi = 0
      /\ answered = {} /\ told = << >> /\ missed = {} /\ prog \in ProgStates
  BY DEF ConnectionInit, ProgStates
<1>2. /\ view \in [configured : BOOLEAN, leaving : BOOLEAN]
      /\ join \in [seq : Nat, state : ProgStates \cup {"none"}] /\ join.seq = 0
  BY <1>1
<1>3. at \in [Reqs -> RequestAts] /\ \A r \in Reqs : at[r] = "none"
  BY <1>1, PlaceNames
<1>4. /\ reqs \in Seq(Kinds) /\ queue \in Seq(Reqs) /\ log \in Seq(LogEvents) /\ told \in Seq(Nat)
      /\ Len(reqs) <= MaxReqs /\ Len(log) = 0 /\ DOMAIN log = {} /\ DOMAIN told = {}
  BY <1>1, ConnectionAssumption
<1>5. ConnTypeOK
  <2>1. answered \subseteq Reqs /\ gate \in BOOLEAN /\ broken \in BOOLEAN /\ since \in Nat /\ hi \in Nat
    BY <1>1
  <2> QED
    BY <1>1, <1>2, <1>3, <1>4, <2>1, PlaceNames DEF ConnTypeOK
<1>6. TakenInOrder /\ CalledHolds /\ CausesAnswered
  BY <1>1, <1>3, <1>4 DEF TakenInOrder, CalledHolds, CausesAnswered
<1>7. FollowsLog /\ ResponseFirst /\ ToldInOrder
  BY <1>1, <1>2, <1>4 DEF FollowsLog, ResponseFirst, ToldInOrder
<1> QED
  BY <1>5, <1>6, <1>7 DEF ToldInv

\* Every step keeps it.
LEMMA ToldNext ==
    ASSUME ToldInv, [ConnectionNext]_connectionVars
    PROVE  ToldInv'
<1>1. CASE UNCHANGED connectionVars
  <2>1. UNCHANGED <<phase, reader, reqs, at, queue, gate, view, broken, log, prog, join, follower, since, hi,
                    answered, told, missed>>
    BY <1>1 DEF connectionVars, sessionVars, followVars, clientVars
  <2>2. ConnTypeOK' /\ TakenInOrder' /\ CalledHolds'
    BY <2>1 DEF ToldInv, ConnTypeOK, TakenInOrder, CalledHolds
  <2>3. CausesAnswered' /\ FollowsLog'
    BY <2>1 DEF ToldInv, CausesAnswered, FollowsLog
  <2>4. ResponseFirst' /\ ToldInOrder'
    BY <2>1 DEF ToldInv, ResponseFirst, ToldInOrder
  <2> QED
    BY <2>2, <2>3, <2>4 DEF ToldInv
<1>2. CASE ConnectionNext
  BY <1>2, ReaderKeeps, SessionKeeps, TakeKeeps, JoinKeeps, ServeKeeps, RespondKeeps, FollowKeeps, ResyncKeeps,
     RelayKeeps DEF ConnectionNext
<1> QED
  BY <1>1, <1>2

----------------------------------------------------------------------------
\* With the same program, pending changes and call, the editor will show the same.
LEMMA ShowStays ==
    ASSUME WillShow, LogGrows, log \in Seq(LogEvents), prog' = prog, Pending' = Pending, Shows' = Shows,
           Calling' => Calling, Calling => Calling'
    PROVE  WillShow'
<1>1. \A i \in DOMAIN log : i \in DOMAIN log' /\ log'[i] = log[i]
  BY DEF LogGrows
<1>2. \A i \in Pending : i \in DOMAIN log
  BY DEF Pending
<1> HIDE DEF Pending, Shows, Calling
<1>3. CASE prog = "running"
  BY <1>3 DEF WillShow
<1>4. CASE prog = "stopped"
  <2>1. CASE Pending = {} /\ Shows = "stopped" /\ ~Calling
    BY <1>4, <2>1 DEF WillShow
  <2>2. CASE /\ \E i \in DOMAIN log : Pending = {i} /\ log[i].kind = "stopped"
             /\ Shows = "running" \/ (Shows = "stopped" /\ Calling)
    <3>1. \E i \in DOMAIN log' : Pending' = {i} /\ log'[i].kind = "stopped"
      BY <1>1, <2>2
    <3> QED
      BY <1>4, <2>2, <3>1 DEF WillShow
  <2> QED
    BY <1>4, <2>1, <2>2 DEF WillShow
<1>5. CASE prog = "exited"
  <2>1. CASE Pending = {} /\ Shows = "exited"
    BY <1>5, <2>1 DEF WillShow
  <2>2. CASE \E e \in Pending : log[e].kind = "ended" /\ \A i \in Pending : i <= e
    <3>1. \E e \in Pending' : log'[e].kind = "ended" /\ \A i \in Pending' : i <= e
      BY <1>1, <1>2, <2>2
    <3> QED
      BY <1>5, <3>1 DEF WillShow
  <2> QED
    BY <1>5, <2>1, <2>2 DEF WillShow
<1>6. CASE prog \notin {"running", "stopped", "exited"}
  BY <1>6 DEF WillShow
<1> QED
  BY <1>3, <1>4, <1>5, <1>6

\* The same requests, as far along, wait for the same answers.
LEMMA SameFlight ==
    ASSUME UNCHANGED <<reqs, at>>
    PROVE  /\ \A r \in Reqs : (InFlight(r)' => InFlight(r)) /\ (InFlight(r) => InFlight(r)')
           /\ Calling' => Calling
           /\ Calling => Calling'
<1>1. \A r \in Reqs : (InFlight(r)' => InFlight(r)) /\ (InFlight(r) => InFlight(r)')
  BY DEF InFlight
<1> QED
  BY <1>1 DEF Calling

\* A step that changes nothing the editor is shown, unless it missed events.
LEMMA QuietSteps ==
    ASSUME ToldInv, Agrees, UNCHANGED <<reqs, at, log, prog, join>>,
           phase = "configured" => phase' = "configured",
           reader' = "join" => reader = "join", reader = "join" => reader' = "join",
           view'.configured => view.configured, view.configured => view'.configured,
           follower' # "none" => follower # "none", shown' = shown \/ view.configured,
           broken => broken', view.leaving => view'.leaving,
           missed' = {} => missed = {} /\ ((~broken' /\ ~view'.leaving) => since' = since /\ shown' = shown)
    PROVE  Agrees'
<1>1. /\ \A r \in Reqs : (InFlight(r)' => InFlight(r)) /\ (InFlight(r) => InFlight(r)')
      /\ Calling' => Calling
      /\ Calling => Calling'
  BY SameFlight
<1>2. Joins'
  BY <1>1 DEF Agrees, Joins
<1>3. Offers'
  BY <1>1 DEF Agrees, Offers
<1>4. OwnExecs'
  BY DEF Agrees, OwnExecs
<1>5. ASSUME Watches' PROVE WillShow'
  <2>1. Watches /\ since' = since /\ shown' = shown
    BY <1>5 DEF Watches
  <2>2. Shows' = Shows /\ From' = From
    BY <2>1 DEF Shows, From
  <2>3. Pending' = Pending
    BY <2>2 DEF Pending
  <2>4. LogGrows /\ log \in Seq(LogEvents)
    BY DEF LogGrows, ToldInv, ConnTypeOK
  <2> QED
    BY <1>1, <2>1, <2>2, <2>3, <2>4, ShowStays DEF Agrees
<1> QED
  BY <1>2, <1>3, <1>4, <1>5 DEF Agrees

\* The reader's lifecycle steps, and the follower's but for Relay.
LEMMA QuietKeeps ==
    ASSUME ToldInv, Agrees,
           Handshake \/ Disconnect \/ Break \/ ReadEnds \/ ServeEnds \/ Follow \/ Resync \/ FollowEnds
    PROVE  Agrees'
<1>1. /\ UNCHANGED <<reqs, at, log, prog, join>>
  BY DEF Handshake, Disconnect, Break, ReadEnds, ServeEnds, Follow, Resync, FollowEnds, sessionVars, followVars,
         clientVars
<1>2. view \in [configured : BOOLEAN, leaving : BOOLEAN]
  BY DEF ToldInv, ConnTypeOK
<1>3. CASE Handshake \/ Break \/ ReadEnds \/ ServeEnds \/ FollowEnds
  <2>1. /\ UNCHANGED <<view, since, shown, missed>> /\ (broken => broken')
        /\ phase = "configured" => phase' = "configured"
        /\ reader' = "join" => reader = "join"
        /\ reader = "join" => reader' = "join"
        /\ follower' # "none" => follower # "none"
    BY <1>3 DEF Handshake, Break, ReadEnds, ServeEnds, FollowEnds, followVars, clientVars, Canceled
  <2> QED
    BY <1>1, <2>1, QuietSteps
<1>4. CASE Disconnect
  <2>1. /\ UNCHANGED <<since, shown, missed, phase, follower, broken>> /\ reader = "read" /\ reader' = "done"
        /\ view' = [view EXCEPT !.leaving = TRUE]
    BY <1>4 DEF Disconnect, followVars, clientVars
  <2>2. view'.configured = view.configured /\ view'.leaving
    BY <1>2, <2>1
  <2> QED
    BY <1>1, <2>1, <2>2, QuietSteps
<1>5. CASE Follow
  <2>1. /\ UNCHANGED <<phase, reader, view, broken>> /\ follower = "idle"
        /\ missed' = missed \cup (since + 1 .. since') /\ since <= since' /\ since' \in Nat
    BY <1>5, BatchIs
  <2>2. shown' = shown
    BY <1>5 DEF Follow
  <2>3. missed' = {} => missed = {} /\ since' = since
    <3>1. since \in Nat
      BY DEF ToldInv, ConnTypeOK
    <3>2. since < since' => since + 1 \in missed'
      BY <2>1, <3>1
    <3> QED
      BY <2>1, <3>1, <3>2
  <2> QED
    BY <1>1, <2>1, <2>2, <2>3, QuietSteps
<1>6. CASE Resync
  <2>1. UNCHANGED <<phase, reader, view, broken, missed>> /\ follower = "resync"
    BY <1>6 DEF Resync
  <2>2. missed # {}
    BY <2>1 DEF ToldInv, FollowsLog
  <2>3. view.configured
    BY <2>1 DEF Agrees, Joins
  <2> QED
    BY <1>1, <2>1, <2>2, <2>3, QuietSteps
<1> QED
  BY <1>3, <1>4, <1>5, <1>6

\* Where what is pending begins.
LEMMA FromIs ==
    ASSUME ToldInv
    PROVE  From \in Nat /\ From <= Len(log) /\ Len(log) \in Nat /\ DOMAIN log = 1 .. Len(log)
<1>1. /\ log \in Seq(LogEvents) /\ since \in Nat /\ join.seq \in Nat /\ since <= Len(log) /\ join.seq <= Len(log)
  BY DEF ToldInv, ConnTypeOK, FollowsLog
<1> QED
  BY <1>1 DEF From

\* What an event adds to what is pending.
LEMMA PendingGrows ==
    ASSUME ToldInv, NEW e \in LogEvents, log' = Append(log, e), From' = From
    PROVE  /\ e.kind \in {"stopped", "ended"} => Pending' = Pending \cup {Len(log) + 1}
           /\ e.kind \notin {"stopped", "ended"} => Pending' = Pending
           /\ \A i \in Pending : i <= Len(log)
<1>1. /\ LogGrows /\ DOMAIN log' = 1 .. Len(log) + 1 /\ DOMAIN log = 1 .. Len(log)
      /\ Len(log') = Len(log) + 1 /\ log'[Len(log) + 1] = e /\ Len(log) \in Nat
  BY LogAppended
<1>2. From \in Nat /\ From <= Len(log)
  BY FromIs
<1>3. \A i : i \in DOMAIN log' <=> i \in DOMAIN log \/ i = Len(log) + 1
  BY <1>1
<1>4. \A i \in DOMAIN log : log'[i] = log[i]
  BY <1>1 DEF LogGrows
<1>5. \A i : i \in Pending <=> i \in DOMAIN log /\ i > From /\ log[i].kind \in {"stopped", "ended"}
  BY DEF Pending
<1>6. \A i : i \in Pending' <=> i \in DOMAIN log' /\ i > From /\ log'[i].kind \in {"stopped", "ended"}
  BY DEF Pending
<1>7. Len(log) + 1 > From /\ Len(log) + 1 \in DOMAIN log'
  BY <1>1, <1>2
<1> HIDE DEF Pending, From
<1>8. \A i \in Pending : i <= Len(log)
  BY <1>1, <1>5
<1>9. e.kind \in {"stopped", "ended"} => Pending' = Pending \cup {Len(log) + 1}
  <2> SUFFICES ASSUME e.kind \in {"stopped", "ended"}
               PROVE  \A i : i \in Pending' <=> i \in Pending \/ i = Len(log) + 1
    OBVIOUS
  <2> QED
    BY <1>1, <1>3, <1>4, <1>5, <1>6, <1>7
<1>10. e.kind \notin {"stopped", "ended"} => Pending' = Pending
  <2> SUFFICES ASSUME e.kind \notin {"stopped", "ended"}
               PROVE  \A i : i \in Pending' <=> i \in Pending
    OBVIOUS
  <2> QED
    BY <1>1, <1>3, <1>4, <1>5, <1>6, <1>7
<1> QED
  BY <1>8, <1>9, <1>10

\* A stop, or the end, is pending until it is relayed.
LEMMA SessionAgrees ==
    ASSUME ToldInv, Agrees, SessionChanges, OthersRun = FALSE
    PROVE  Agrees'
<1>1. /\ UNCHANGED <<phase, reader, reqs, at, queue, gate, view, broken, join, follower, since, hi,
                     answered, shown, told, missed>>
  BY DEF SessionChanges, followVars, clientVars
<1>2. PICK e \in LogEvents :
         /\ log' = Append(log, e)
         /\ \/ e.kind = "stopped" /\ prog = "running" /\ prog' = "stopped"
            \/ e.kind = "ended" /\ prog # "exited" /\ prog' = "exited"
  <2>1. \A k \in LogKinds : [kind |-> k, cause |-> Other] \in LogEvents /\ [kind |-> k, cause |-> Other].kind = k
    BY EventIs
  <2> QED
    BY <2>1, KindNames DEF SessionChanges, Logged
<1>3. /\ LogGrows /\ DOMAIN log' = 1 .. Len(log) + 1 /\ DOMAIN log = 1 .. Len(log)
      /\ log'[Len(log) + 1] = e /\ Len(log) \in Nat
  BY <1>2, LogAppended
<1>4. /\ \A r \in Reqs : (InFlight(r)' => InFlight(r)) /\ (InFlight(r) => InFlight(r)')
      /\ Calling' => Calling
      /\ Calling => Calling'
  BY <1>1, SameFlight
<1>5. Joins'
  BY <1>1, <1>4 DEF Agrees, Joins
<1>6. Offers'
  BY <1>1, <1>4 DEF Agrees, Offers
<1>7. OwnExecs'
  <2> SUFFICES ASSUME NEW i \in DOMAIN log', log'[i].kind = "exec"
               PROVE  log'[i].cause # Other
    BY DEF OwnExecs
  <2>1. i # Len(log) + 1
    BY <1>2, <1>3
  <2>2. i \in DOMAIN log
    BY <1>3, <2>1
  <2> QED
    BY <1>3, <2>2 DEF LogGrows, Agrees, OwnExecs
<1>8. ASSUME Watches' PROVE WillShow'
  <2>1. WillShow
    BY <1>1, <1>8 DEF Watches, Agrees
  <2>2. Shows' = Shows /\ From' = From
    BY <1>1 DEF Shows, From
  <2>3. Pending' = Pending \cup {Len(log) + 1} /\ \A i \in Pending : i <= Len(log)
    <3>1. e.kind \in {"stopped", "ended"}
      BY <1>2
    <3> QED
      BY <1>2, <2>2, <3>1, PendingGrows
  <2>4. \A i \in Pending : i \in DOMAIN log
    BY DEF Pending
  <2> HIDE DEF Pending, Shows, Calling, From
  <2>5. CASE e.kind = "stopped" /\ prog = "running" /\ prog' = "stopped"
    <3>1. Pending = {} /\ (Shows = "running" \/ (Shows = "stopped" /\ Calling))
      BY <2>1, <2>5 DEF WillShow
    <3>2. Pending' = {Len(log) + 1} /\ Len(log) + 1 \in DOMAIN log' /\ log'[Len(log) + 1].kind = "stopped"
      BY <1>3, <2>3, <2>5, <3>1
    <3> QED
      BY <1>4, <2>2, <2>5, <3>1, <3>2 DEF WillShow
  <2>6. CASE e.kind = "ended" /\ prog' = "exited"
    <3>1. /\ Len(log) + 1 \in Pending' /\ log'[Len(log) + 1].kind = "ended"
          /\ \A i \in Pending' : i <= Len(log) + 1
      BY <1>3, <2>3, <2>4, <2>6
    <3> QED
      BY <2>6, <3>1 DEF WillShow
  <2> QED
    BY <1>2, <2>5, <2>6
<1> QED
  BY <1>5, <1>6, <1>7, <1>8 DEF Agrees

\* A step of a request that no continue's answer, and nothing pending, depends on.
LEMMA RequestSteps ==
    ASSUME ToldInv, Agrees, UNCHANGED <<phase, view, broken, prog, join, follower, since, shown, missed>>,
           reader' = "join" => reader = "join", reader = "join" => reader' = "join", LogGrows, OwnExecs',
           Pending' = Pending,
           \A r \in Reqs : InFlight(r)' => InFlight(r) /\ (at'[r] = "called" => at[r] = "called"),
           Calling => Calling'
    PROVE  Agrees'
<1>1. Calling' => Calling
  BY DEF Calling
<1>2. Joins'
  BY DEF Agrees, Joins
<1>3. Offers'
  BY DEF Agrees, Offers
<1>4. ASSUME Watches' PROVE WillShow'
  <2>1. WillShow
    BY <1>4 DEF Watches, Agrees
  <2>2. Shows' = Shows
    BY DEF Shows
  <2>3. log \in Seq(LogEvents)
    BY DEF ToldInv, ConnTypeOK
  <2> QED
    BY <1>1, <2>1, <2>2, <2>3, ShowStays
<1> QED
  BY <1>2, <1>3, <1>4 DEF Agrees

\* With the log as it is, what is pending, and who continued, is as it was.
LEMMA PendingSame ==
    ASSUME ToldInv, Agrees, UNCHANGED <<log, join, since>>,
           reader' = "join" => reader = "join", reader = "join" => reader' = "join"
    PROVE  Pending' = Pending /\ OwnExecs' /\ LogGrows
<1>1. From' = From
  BY DEF From
<1>2. Pending' = Pending
  BY <1>1 DEF Pending
<1>3. OwnExecs'
  BY DEF Agrees, OwnExecs
<1>4. LogGrows
  BY DEF ToldInv, ConnTypeOK, LogGrows
<1> QED
  BY <1>2, <1>3, <1>4

\* A taken request is one of the requests.
LEMMA TakenIs ==
    ASSUME ToldInv
    PROVE  /\ reqs \in Seq(Kinds) /\ DOMAIN reqs = 1 .. Len(reqs) /\ Len(reqs) \in Nat
           /\ at \in [Reqs -> RequestAts] /\ \A r \in DOMAIN reqs : r \in Reqs
           /\ \A r \in Reqs : at[r] # "none" => r \in DOMAIN reqs
<1>1. reqs \in Seq(Kinds) /\ Len(reqs) <= MaxReqs /\ at \in [Reqs -> RequestAts] /\ MaxReqs \in Nat
  BY ConnectionAssumption DEF ToldInv, ConnTypeOK
<1>2. DOMAIN reqs = 1 .. Len(reqs) /\ Len(reqs) \in Nat
  BY <1>1
<1>3. \A r \in DOMAIN reqs : r \in Reqs
  BY <1>1, <1>2 DEF Reqs
<1>4. \A r \in Reqs : at[r] # "none" => r \in DOMAIN reqs
  BY <1>1, <1>2 DEF ToldInv, TakenInOrder, Reqs
<1> QED
  BY <1>1, <1>2, <1>3, <1>4

\* The editor sends a continue for a stop it shows, one at a time.
LEMMA ReadAgrees ==
    ASSUME ToldInv, Agrees, NEW k \in Kinds, Read(k)
    PROVE  Agrees'
<1>1. /\ UNCHANGED <<phase, at, view, broken, log, prog, join, follower, since, shown, missed>>
      /\ reader = "read" /\ reader' = "slot" /\ reqs' = Append(reqs, k) /\ EditorSends(k) /\ Len(reqs) < MaxReqs
  BY DEF Read, sessionVars, followVars, clientVars
<1>2. /\ reqs \in Seq(Kinds) /\ DOMAIN reqs = 1 .. Len(reqs) /\ Len(reqs) \in Nat
      /\ \A r \in DOMAIN reqs : r \in Reqs
  BY TakenIs
<1>3. /\ DOMAIN reqs' = 1 .. Len(reqs) + 1 /\ reqs'[Len(reqs) + 1] = k
      /\ \A r \in DOMAIN reqs : reqs'[r] = reqs[r]
  BY <1>1, <1>2, AppendAdds
<1>4. Len(reqs) + 1 \in Reqs /\ at[Len(reqs) + 1] = "none"
  BY <1>1, <1>2, ConnectionAssumption DEF ToldInv, TakenInOrder, Reqs
<1>5. \A r \in Reqs : InFlight(r) => InFlight(r)'
  BY <1>1, <1>2, <1>3 DEF InFlight
<1>6. \A r \in Reqs : InFlight(r)' => InFlight(r) \/ (r = Len(reqs) + 1 /\ k = "continue")
  BY <1>1, <1>2, <1>3 DEF InFlight
<1>7. k = "continue" => shown = "stopped" /\ view.configured /\ \A r \in Reqs : ~InFlight(r)
  BY <1>1 DEF EditorSends, Agrees, Joins, InFlight
<1> HIDE DEF InFlight
<1>8. (Calling => Calling') /\ (Calling' => Calling)
  BY <1>1, <1>4, <1>5, <1>6 DEF Calling
<1>9. Joins'
  BY <1>1, <1>6, <1>7 DEF Agrees, Joins
<1>10. Offers'
  <2>1. \A r, q \in Reqs : InFlight(r)' /\ InFlight(q)' => r = q
    BY <1>6, <1>7 DEF Agrees, Offers
  <2>2. ASSUME ~broken', ~view'.leaving, missed' = {}, NEW r \in Reqs, InFlight(r)'
        PROVE  shown' \in {"stopped", "exited"} /\ (at'[r] = "called" => shown' = "stopped")
    <3>1. CASE InFlight(r)
      BY <1>1, <2>2, <3>1 DEF Agrees, Offers
    <3>2. CASE k = "continue"
      BY <1>1, <1>7, <3>2
    <3> QED
      BY <1>6, <2>2, <3>1, <3>2
  <2> QED
    BY <2>1, <2>2 DEF Offers
<1>11. Pending' = Pending /\ OwnExecs' /\ LogGrows
  BY <1>1, PendingSame
<1>12. ASSUME Watches' PROVE WillShow'
  <2>1. WillShow
    BY <1>1, <1>12 DEF Watches, Agrees
  <2>2. Shows' = Shows
    BY <1>1 DEF Shows
  <2>3. log \in Seq(LogEvents)
    BY DEF ToldInv, ConnTypeOK
  <2> QED
    BY <1>1, <1>8, <1>11, <2>1, <2>2, <2>3, ShowStays
<1> QED
  BY <1>9, <1>10, <1>11, <1>12 DEF Agrees

\* A slot, and a read's answer.
LEMMA SlotAgrees ==
    ASSUME ToldInv, Agrees, Spawn \/ \E r \in Reqs : ServeRead(r)
    PROVE  Agrees'
<1>1. /\ UNCHANGED <<phase, reqs, view, broken, log, prog, join, follower, since, shown, missed>>
      /\ reader' = "join" => reader = "join"
      /\ reader = "join" => reader' = "join"
  BY DEF Spawn, ServeRead, sessionVars, followVars, clientVars
<1>2. /\ DOMAIN reqs = 1 .. Len(reqs) /\ Len(reqs) \in Nat /\ at \in [Reqs -> RequestAts]
      /\ \A r \in DOMAIN reqs : r \in Reqs
  BY TakenIs
<1>3. PICK r \in Reqs : \/ at[r] = "none" /\ at' = [at EXCEPT ![r] = "queued"]
                        \/ at[r] = "queued" /\ reqs[r] = "read" /\ at' = [at EXCEPT ![r] = "done"]
  <2>1. CASE Spawn
    <3>1. reader = "slot" /\ at' = [at EXCEPT ![Len(reqs)] = "queued"]
      BY <2>1 DEF Spawn
    <3>2. Len(reqs) \in Reqs /\ at[Len(reqs)] = "none"
      BY <1>2, <3>1 DEF ToldInv, TakenInOrder
    <3> QED
      BY <3>1, <3>2
  <2>2. CASE \E q \in Reqs : ServeRead(q)
    BY <2>2 DEF ServeRead
  <2> QED
    BY <2>1, <2>2
<1>4. /\ at'[r] \in {"queued", "done"} /\ at[r] # "called" /\ (at'[r] = "done" => reqs[r] = "read")
      /\ \A q \in Reqs : q # r => at'[q] = at[q]
  BY <1>2, <1>3
<1>5. \A q \in Reqs : InFlight(q)' => InFlight(q) /\ (at'[q] = "called" => at[q] = "called")
  BY <1>1, <1>3, <1>4 DEF InFlight
<1>6. \A q \in Reqs : InFlight(q) /\ at[q] = "called" => InFlight(q)' /\ at'[q] = "called"
  BY <1>1, <1>4 DEF InFlight
<1>7. Calling => Calling'
  BY <1>6 DEF Calling
<1>8. Pending' = Pending /\ OwnExecs' /\ LogGrows
  BY <1>1, PendingSame
<1> QED
  BY <1>1, <1>5, <1>7, <1>8, RequestSteps

\* configurationDone reads the state and where the log ends together.
LEMMA ConfiguredAgrees ==
    ASSUME ToldInv, Agrees, ConfigurationDone
    PROVE  Agrees'
<1>1. /\ UNCHANGED <<reqs, at, view, broken, log, prog, follower, since, shown, missed>>
      /\ phase = "attached" /\ phase' = "configured" /\ join' = [seq |-> Len(log), state |-> prog]
      /\ reader' = IF broken THEN "read" ELSE "join"
  BY DEF ConfigurationDone, sessionVars, followVars, clientVars
<1>2. /\ \A r \in Reqs : (InFlight(r)' => InFlight(r)) /\ (InFlight(r) => InFlight(r)')
      /\ Calling' => Calling
  BY <1>1, SameFlight
<1>3. ~view.configured
  BY <1>1 DEF Agrees, Joins
<1>4. \A r \in Reqs : ~InFlight(r)
  BY <1>3 DEF Agrees, Joins
<1>5. Joins'
  BY <1>1, <1>2, <1>3, <1>4 DEF Agrees, Joins
<1>6. Offers'
  BY <1>2, <1>4 DEF Offers
<1>7. OwnExecs'
  BY <1>1 DEF Agrees, OwnExecs
<1>8. ASSUME Watches' PROVE WillShow'
  <2>1. reader' = "join" /\ join'.seq = Len(log) /\ join'.state = prog
    BY <1>1, <1>8 DEF Watches
  <2>2. Shows' = prog /\ From' = Len(log)
    BY <2>1 DEF Shows, From
  <2>3. Pending' = {}
    <3>1. DOMAIN log = 1 .. Len(log) /\ Len(log) \in Nat
      BY FromIs
    <3> QED
      BY <1>1, <2>2, <3>1 DEF Pending
  <2>4. ~Calling'
    BY <1>2, <1>4 DEF Calling
  <2> QED
    BY <1>1, <2>2, <2>3, <2>4 DEF WillShow
<1> QED
  BY <1>5, <1>6, <1>7, <1>8 DEF Agrees

\* join shows the state of the join point, and follows from there.
LEMMA JoinAgrees ==
    ASSUME ToldInv, Agrees, Join
    PROVE  Agrees'
<1>1. /\ UNCHANGED <<phase, reqs, at, broken, log, prog, join, missed>>
      /\ reader = "join" /\ reader' = "read" /\ shown' = IF broken THEN shown ELSE join.state
  BY DEF Join, sessionVars
<1>2. \/ join.state = "exited" /\ UNCHANGED <<view, follower, since>>
      \/ /\ join.state # "exited" /\ view' = [view EXCEPT !.configured = TRUE] /\ since' = join.seq
  BY DEF Join, followVars, JoinAt
<1>3. /\ \A r \in Reqs : (InFlight(r)' => InFlight(r)) /\ (InFlight(r) => InFlight(r)')
      /\ Calling' => Calling
      /\ Calling => Calling'
  BY <1>1, SameFlight
<1>4. ~view.configured /\ phase = "configured"
  BY <1>1 DEF ToldInv, FollowsLog, Agrees, Joins
<1>5. \A r \in Reqs : ~InFlight(r)
  BY <1>4 DEF Agrees, Joins
<1>6. view \in [configured : BOOLEAN, leaving : BOOLEAN] /\ log \in Seq(LogEvents)
  BY DEF ToldInv, ConnTypeOK
<1>7. Offers'
  BY <1>3, <1>5 DEF Offers
<1>8. OwnExecs'
  BY <1>1 DEF Agrees, OwnExecs
<1>9. CASE join.state = "exited" /\ UNCHANGED <<view, follower, since>>
  <2>1. Joins'
    BY <1>1, <1>3, <1>4, <1>5, <1>9 DEF Agrees, Joins
  <2>2. ~Watches'
    BY <1>1, <1>4, <1>9 DEF Watches
  <2> QED
    BY <1>7, <1>8, <2>1, <2>2 DEF Agrees
<1>10. CASE join.state # "exited" /\ view' = [view EXCEPT !.configured = TRUE] /\ since' = join.seq
  <2>1. view'.configured /\ view'.leaving = view.leaving
    BY <1>6, <1>10
  <2>2. Joins'
    BY <1>1, <1>4, <2>1 DEF Joins
  <2>3. ASSUME Watches' PROVE WillShow'
    <3>1. Watches /\ ~broken
      BY <1>1, <2>1, <2>3 DEF Watches
    <3>2. Shows' = Shows /\ From' = From
      BY <1>1, <1>10, <3>1 DEF Shows, From
    <3>3. Pending' = Pending
      BY <1>1, <3>2 DEF Pending
    <3>4. LogGrows
      BY <1>1, <1>6 DEF LogGrows
    <3> QED
      BY <1>1, <1>3, <1>6, <3>1, <3>2, <3>3, <3>4, ShowStays DEF Agrees
  <2> QED
    BY <1>7, <1>8, <2>2, <2>3 DEF Agrees
<1> QED
  BY <1>2, <1>9, <1>10

\* A continue is called for a stop the editor shows, and with nothing pending.
LEMMA ServeAgrees ==
    ASSUME ToldInv, Agrees, Serve
    PROVE  Agrees'
<1>1. PICK r : r = Head(queue)
  OBVIOUS
<1>2. /\ queue # << >> /\ at[r] = "queued" /\ ~gate
      /\ UNCHANGED <<phase, reader, reqs, view, broken, join, follower, since, shown, missed>>
  BY <1>1 DEF Serve, followVars, clientVars
<1>3. /\ at \in [Reqs -> RequestAts] /\ queue \in Seq(Reqs) /\ log \in Seq(LogEvents)
  BY DEF ToldInv, ConnTypeOK
<1>4. r \in Reqs /\ r \in DOMAIN reqs
  <2>1. r \in Reqs
    BY <1>1, <1>2, <1>3
  <2> QED
    BY <1>2, <2>1, TakenIs
<1>5. \A q \in Reqs : at[q] # "called"
  BY <1>2 DEF ToldInv, CalledHolds
<1>6. ~Calling
  BY <1>5 DEF Calling
<1>7. \/ /\ reqs[r] = "continue" /\ prog = "stopped" /\ prog' = "running" /\ at' = [at EXCEPT ![r] = "called"]
         /\ log' = Append(log, [kind |-> "exec", cause |-> r])
      \/ /\ reqs[r] = "bps" /\ at' = [at EXCEPT ![r] = "called"] /\ prog' = prog
         /\ log' = Append(log, [kind |-> "breakpoint", cause |-> r])
      \/ at' = [at EXCEPT ![r] = "failed"] /\ UNCHANGED <<log, prog>>
  BY <1>1 DEF Serve, Logged
<1>8. r # Other
  BY <1>4, ConnectionAssumption DEF Reqs, Other
<1>9. ASSUME NEW kind \in {"exec", "breakpoint"}, log' = Append(log, [kind |-> kind, cause |-> r])
      PROVE  Pending' = Pending /\ OwnExecs' /\ LogGrows
  <2>1. PICK e \in LogEvents : e = [kind |-> kind, cause |-> r]
    BY <1>4, <1>9, EventIs, KindNames
  <2>2. e.kind = kind /\ e.cause = r /\ log' = Append(log, e)
    BY <1>9, <2>1
  <2>3. From' = From
    BY <1>2 DEF From
  <2>4. e.kind \notin {"stopped", "ended"}
    BY <1>9, <2>2
  <2>5. Pending' = Pending
    BY <2>2, <2>3, <2>4, PendingGrows
  <2>6. /\ LogGrows /\ DOMAIN log' = 1 .. Len(log) + 1 /\ DOMAIN log = 1 .. Len(log)
        /\ log'[Len(log) + 1] = e /\ Len(log) \in Nat
    BY <2>2, LogAppended
  <2>7. OwnExecs'
    <3> SUFFICES ASSUME NEW i \in DOMAIN log', log'[i].kind = "exec"
                 PROVE  log'[i].cause # Other
      BY DEF OwnExecs
    <3>1. CASE i = Len(log) + 1
      BY <1>8, <2>2, <2>6, <3>1
    <3>2. CASE i \in DOMAIN log
      BY <2>6, <3>2 DEF LogGrows, Agrees, OwnExecs
    <3> QED
      BY <2>6, <3>1, <3>2
  <2> QED
    BY <2>5, <2>6, <2>7
<1>10. CASE /\ reqs[r] = "continue" /\ prog = "stopped" /\ prog' = "running" /\ at' = [at EXCEPT ![r] = "called"]
            /\ log' = Append(log, [kind |-> "exec", cause |-> r])
  <2>1. Pending' = Pending /\ OwnExecs' /\ LogGrows
    BY <1>9, <1>10
  <2>2. at'[r] = "called" /\ \A q \in Reqs : q # r => at'[q] = at[q]
    BY <1>3, <1>4, <1>10
  <2>3. InFlight(r) /\ InFlight(r)' /\ \A q \in Reqs : InFlight(q)' => InFlight(q)
    BY <1>2, <1>4, <1>10, <2>2 DEF InFlight
  <2>4. \A q \in Reqs : InFlight(q) => q = r
    BY <1>4, <2>3 DEF Agrees, Offers
  <2>5. Calling'
    BY <1>4, <2>2, <2>3 DEF Calling
  <2> HIDE DEF InFlight, Calling
  <2>6. Joins'
    BY <1>2, <2>3 DEF Agrees, Joins
  <2>7. reader # "join" /\ view.configured
    BY <1>4, <2>3 DEF Agrees, Joins
  <2>8. (~broken /\ ~view.leaving /\ missed = {}) => Pending = {} /\ shown = "stopped"
    <3> SUFFICES ASSUME ~broken, ~view.leaving, missed = {}
                 PROVE  Pending = {} /\ shown = "stopped"
      OBVIOUS
    <3>1. WillShow
      BY <2>7 DEF Watches, Agrees
    <3>2. Shows = shown
      BY <2>7 DEF Shows
    <3>3. shown # "running"
      BY <1>4, <2>3 DEF Agrees, Offers
    <3> HIDE DEF Pending, Shows
    <3> QED
      BY <1>6, <1>10, <3>1, <3>2, <3>3 DEF WillShow
  <2>9. Offers'
    <3>1. \A p, q \in Reqs : InFlight(p)' /\ InFlight(q)' => p = q
      BY <2>3, <2>4
    <3>2. ~broken' /\ ~view'.leaving /\ missed' = {} => shown' = "stopped"
      BY <1>2, <2>8
    <3> QED
      BY <3>1, <3>2 DEF Offers
  <2>10. ASSUME Watches' PROVE WillShow'
    <3>1. Pending = {} /\ shown = "stopped"
      BY <1>2, <2>8, <2>10 DEF Watches
    <3>2. Shows' = "stopped"
      BY <1>2, <2>7, <3>1 DEF Shows
    <3> HIDE DEF Pending, Shows
    <3> QED
      BY <1>10, <2>1, <2>5, <3>1, <3>2 DEF WillShow
  <2> QED
    BY <2>1, <2>6, <2>9, <2>10 DEF Agrees
<1>11. CASE /\ reqs[r] = "bps" /\ at' = [at EXCEPT ![r] = "called"] /\ prog' = prog
            /\ log' = Append(log, [kind |-> "breakpoint", cause |-> r])
  <2>1. Pending' = Pending /\ OwnExecs' /\ LogGrows
    BY <1>9, <1>11
  <2>2. \A q \in Reqs : q # r => at'[q] = at[q]
    BY <1>3, <1>4, <1>11
  <2>3. \A q \in Reqs : InFlight(q)' => InFlight(q) /\ (at'[q] = "called" => at[q] = "called")
    BY <1>2, <1>11, <2>2 DEF InFlight
  <2> QED
    BY <1>2, <1>6, <1>11, <2>1, <2>3, RequestSteps
<1>12. CASE at' = [at EXCEPT ![r] = "failed"] /\ UNCHANGED <<log, prog>>
  <2>1. Pending' = Pending /\ OwnExecs' /\ LogGrows
    BY <1>2, <1>12, PendingSame
  <2>2. at'[r] = "failed" /\ \A q \in Reqs : q # r => at'[q] = at[q]
    BY <1>3, <1>4, <1>12
  <2>3. \A q \in Reqs : InFlight(q)' => InFlight(q) /\ (at'[q] = "called" => at[q] = "called")
    BY <1>2, <2>2 DEF InFlight
  <2> QED
    BY <1>2, <1>6, <1>12, <2>1, <2>3, RequestSteps
<1> QED
  BY <1>7, <1>10, <1>11, <1>12

\* The response to a continue shows the program running.
LEMMA RespondAgrees ==
    ASSUME ToldInv, Agrees, Respond
    PROVE  Agrees'
<1>1. PICK r : r = Head(queue)
  OBVIOUS
<1>2. /\ UNCHANGED <<phase, reader, reqs, view, broken, log, prog, join, follower, since, missed>>
      /\ queue # << >> /\ at[r] \in {"called", "failed"} /\ at' = [at EXCEPT ![r] = "done"]
      /\ shown' = IF at[r] = "called" /\ ~broken /\ reqs[r] = "continue" THEN "running" ELSE shown
  BY <1>1 DEF Respond, sessionVars, followVars
<1>3. /\ at \in [Reqs -> RequestAts] /\ queue \in Seq(Reqs) /\ log \in Seq(LogEvents)
  BY DEF ToldInv, ConnTypeOK
<1>4. r \in Reqs /\ r \in DOMAIN reqs
  <2>1. r \in Reqs
    BY <1>1, <1>2, <1>3
  <2> QED
    BY <1>2, <2>1, TakenIs
<1>5. \A q \in Reqs : at[q] = "called" => q = r
  BY <1>1 DEF ToldInv, CalledHolds
<1>6. at'[r] = "done" /\ \A q \in Reqs : q # r => at'[q] = at[q]
  BY <1>2, <1>3, <1>4
<1>7. \A q \in Reqs : InFlight(q)' => InFlight(q) /\ q # r
  BY <1>2, <1>6 DEF InFlight
<1>8. ~Calling'
  BY <1>5, <1>6, <1>7 DEF Calling
<1>9. Pending' = Pending /\ OwnExecs' /\ LogGrows
  BY <1>2, PendingSame
<1>10. \A q \in Reqs : at'[q] = "called" => at[q] = "called"
  BY <1>6
<1>11. CASE at[r] = "called" /\ ~broken /\ reqs[r] = "continue"
  <2>1. InFlight(r) /\ Calling
    BY <1>4, <1>11 DEF InFlight, Calling
  <2>2. \A q \in Reqs : ~InFlight(q)'
    BY <1>4, <1>7, <2>1 DEF Agrees, Offers
  <2>3. shown' = "running"
    BY <1>2, <1>11
  <2>4. view.configured /\ reader # "join"
    BY <1>4, <2>1 DEF Agrees, Joins
  <2>5. Joins'
    BY <1>2, <2>2, <2>4 DEF Agrees, Joins
  <2>6. Offers'
    BY <2>2 DEF Offers
  <2>7. ASSUME Watches' PROVE WillShow'
    <3>1. WillShow /\ shown = "stopped"
      BY <1>2, <1>4, <1>11, <2>1, <2>7 DEF Watches, Agrees, Offers
    <3>2. Shows = "stopped" /\ Shows' = "running"
      BY <1>2, <2>3, <2>4, <3>1 DEF Shows
    <3> HIDE DEF Pending, Shows, Calling
    <3>3. CASE prog = "running"
      BY <1>2, <1>9, <3>1, <3>2, <3>3 DEF WillShow
    <3>4. CASE prog = "stopped"
      <4>1. \E i \in DOMAIN log : Pending = {i} /\ log[i].kind = "stopped"
        BY <2>1, <3>1, <3>4 DEF WillShow
      <4> QED
        BY <1>2, <1>9, <3>2, <3>4, <4>1 DEF WillShow
    <3>5. CASE prog = "exited"
      <4>1. \E e \in Pending : log[e].kind = "ended" /\ \A i \in Pending : i <= e
        BY <3>1, <3>2, <3>5 DEF WillShow
      <4> QED
        BY <1>2, <1>9, <3>5, <4>1 DEF WillShow
    <3>6. CASE prog \notin {"running", "stopped", "exited"}
      BY <1>2, <3>6 DEF WillShow
    <3> QED
      BY <3>3, <3>4, <3>5, <3>6
  <2> QED
    BY <1>9, <2>5, <2>6, <2>7 DEF Agrees
<1>12. CASE at[r] = "called" /\ broken /\ reqs[r] = "continue"
  <2>1. Joins'
    BY <1>2, <1>7, <1>12 DEF Agrees, Joins
  <2>2. Offers'
    BY <1>2, <1>7, <1>12 DEF Agrees, Offers
  <2>3. ~Watches'
    BY <1>2, <1>12 DEF Watches
  <2> QED
    BY <1>9, <2>1, <2>2, <2>3 DEF Agrees
<1>13. CASE at[r] # "called" \/ reqs[r] # "continue"
  <2>1. ~Calling
    BY <1>5, <1>13 DEF Calling, InFlight
  <2>2. shown' = shown
    BY <1>2, <1>13
  <2> QED
    BY <1>2, <1>7, <1>9, <1>10, <2>1, <2>2, RequestSteps
<1> QED
  BY <1>11, <1>12, <1>13

\* Relaying a pending change shows it, and what is pending after it stays so.
LEMMA RelayAgrees ==
    ASSUME ToldInv, Agrees, Relay
    PROVE  Agrees'
<1>1. PICK e : e = log[since + 1]
  OBVIOUS
<1>2. /\ follower = "relay" /\ ~gate /\ since' = since + 1
      /\ UNCHANGED <<phase, reader, reqs, at, view, broken, log, prog, join, missed>>
      /\ shown' = IF ~broken /\ ~view.leaving THEN Translate(e) ELSE shown
  BY <1>1 DEF Relay, sessionVars
<1>3. /\ since \in Nat /\ Len(log) \in Nat /\ DOMAIN log = 1 .. Len(log) /\ log \in Seq(LogEvents)
      /\ since < hi /\ hi <= Len(log) /\ hi \in Nat
  BY <1>2 DEF ToldInv, ConnTypeOK, FollowsLog
<1>4. since + 1 \in DOMAIN log
  BY <1>3
<1>5. view.configured /\ phase = "configured" /\ reader # "join"
  BY <1>2 DEF Agrees, Joins
<1>6. \A q \in Reqs : at[q] # "called"
  BY <1>2 DEF ToldInv, CalledHolds
<1>7. /\ \A r \in Reqs : (InFlight(r)' => InFlight(r)) /\ (InFlight(r) => InFlight(r)')
      /\ Calling' => Calling
  BY <1>2, SameFlight
<1>8. ~Calling /\ ~Calling'
  BY <1>6, <1>7 DEF Calling
<1>9. e.kind = "exec" => e.cause # Other
  BY <1>1, <1>4 DEF Agrees, OwnExecs
<1>10. /\ e.kind = "stopped" => Translate(e) = "stopped"
       /\ e.kind = "ended" => Translate(e) = "exited"
       /\ e.kind \notin {"stopped", "ended"} => Translate(e) = shown
  BY <1>9 DEF Translate
<1> HIDE DEF Translate, InFlight, Calling
<1>11. Joins'
  BY <1>2, <1>5, <1>7 DEF Agrees, Joins
<1>12. Offers'
  <2>1. \A r, q \in Reqs : InFlight(r)' /\ InFlight(q)' => r = q
    BY <1>7 DEF Agrees, Offers
  <2>2. ASSUME ~broken', ~view'.leaving, missed' = {}, NEW r \in Reqs, InFlight(r)'
        PROVE  shown' \in {"stopped", "exited"}
    <3>1. shown \in {"stopped", "exited"}
      BY <1>2, <1>7, <2>2 DEF Agrees, Offers
    <3> QED
      BY <1>2, <1>10, <2>2, <3>1
  <2>3. \A r \in Reqs : at'[r] # "called"
    BY <1>2, <1>6
  <2> QED
    BY <2>1, <2>2, <2>3 DEF Offers
<1>13. OwnExecs'
  BY <1>2 DEF Agrees, OwnExecs
<1>14. ASSUME Watches' PROVE WillShow'
  <2>1. WillShow /\ shown' = Translate(e)
    BY <1>2, <1>14 DEF Watches, Agrees
  <2>2. Shows = shown /\ Shows' = shown' /\ From = since /\ From' = since + 1
    BY <1>2, <1>5 DEF Shows, From
  <2>3. \A i : i \in Pending' <=> i \in Pending /\ i # since + 1
    <3>1. \A i \in DOMAIN log : i > since + 1 <=> i > since /\ i # since + 1
      BY <1>3
    <3> QED
      BY <1>2, <2>2, <3>1 DEF Pending
  <2>4. since + 1 \in Pending <=> e.kind \in {"stopped", "ended"}
    <3>1. since + 1 > since
      BY <1>3
    <3> QED
      BY <1>1, <1>4, <2>2, <3>1 DEF Pending
  <2>5. \A i \in Pending : i \in Nat /\ i >= since + 1
    BY <1>3, <2>2 DEF Pending
  <2> HIDE DEF Pending, Shows, From
  <2>6. CASE e.kind \notin {"stopped", "ended"}
    <3>1. Pending' = Pending
      BY <2>3, <2>4, <2>6
    <3>2. Shows' = Shows
      BY <1>10, <2>1, <2>2, <2>6
    <3>3. LogGrows
      BY <1>2, <1>3 DEF LogGrows
    <3> QED
      BY <1>2, <1>3, <1>8, <2>1, <3>1, <3>2, <3>3, ShowStays
  <2>7. CASE e.kind \in {"stopped", "ended"}
    <3>1. since + 1 \in Pending
      BY <2>4, <2>7
    <3>2. CASE prog = "running"
      BY <2>1, <3>1, <3>2 DEF WillShow
    <3>3. CASE prog = "stopped"
      <4>1. Pending = {since + 1} /\ e.kind = "stopped"
        BY <1>1, <2>1, <3>1, <3>3 DEF WillShow
      <4>2. Pending' = {} /\ Shows' = "stopped"
        BY <1>10, <2>1, <2>2, <2>3, <4>1
      <4> QED
        BY <1>2, <1>8, <3>3, <4>2 DEF WillShow
    <3>4. CASE prog = "exited"
      <4>1. PICK x \in Pending : log[x].kind = "ended" /\ \A i \in Pending : i <= x
        BY <2>1, <3>1, <3>4 DEF WillShow
      <4>2. CASE x = since + 1
        <5>1. \A i \in Pending : i = since + 1
          BY <1>3, <2>5, <4>1, <4>2
        <5>2. Pending' = {} /\ Shows' = "exited"
          BY <1>1, <1>10, <2>1, <2>2, <2>3, <4>1, <4>2, <5>1
        <5> QED
          BY <1>2, <3>4, <5>2 DEF WillShow
      <4>3. CASE x # since + 1
        <5>1. x \in Pending' /\ log'[x].kind = "ended" /\ \A i \in Pending' : i <= x
          BY <1>2, <2>3, <4>1, <4>3
        <5> QED
          BY <1>2, <3>4, <5>1 DEF WillShow
      <4> QED
        BY <4>2, <4>3
    <3>5. CASE prog \notin {"running", "stopped", "exited"}
      BY <1>2, <3>5 DEF WillShow
    <3> QED
      BY <3>2, <3>3, <3>4, <3>5
  <2> QED
    BY <2>6, <2>7
<1> QED
  BY <1>11, <1>12, <1>13, <1>14 DEF Agrees

\* It holds at first.
LEMMA AgreesFirst == ConnectionInit => Agrees
<1> SUFFICES ASSUME ConnectionInit PROVE Agrees
  OBVIOUS
<1>1. /\ reader = "read" /\ reqs = << >> /\ log = << >> /\ follower = "none" /\ shown = "none"
      /\ view = [configured |-> FALSE, leaving |-> FALSE]
  BY DEF ConnectionInit
<1>2. DOMAIN reqs = {} /\ DOMAIN log = {} /\ ~view.configured
  BY <1>1
<1>3. \A r \in Reqs : ~InFlight(r)
  BY <1>2 DEF InFlight
<1>4. Joins /\ Offers
  BY <1>1, <1>2, <1>3 DEF Joins, Offers
<1>5. OwnExecs /\ ~Watches
  BY <1>1, <1>2 DEF OwnExecs, Watches
<1> QED
  BY <1>4, <1>5 DEF Agrees

\* Every step keeps it, when no other client continues the program.
LEMMA AgreesNext ==
    ASSUME ToldInv, Agrees, [ConnectionNext]_connectionVars, OthersRun = FALSE
    PROVE  Agrees'
<1>1. CASE UNCHANGED connectionVars
  <2>1. UNCHANGED <<phase, reader, reqs, at, view, broken, log, prog, join, follower, since, shown, missed>>
    BY <1>1 DEF connectionVars, sessionVars, followVars, clientVars
  <2> QED
    BY <2>1, QuietSteps
<1>2. CASE ConnectionNext
  BY <1>2, QuietKeeps, SessionAgrees, ReadAgrees, SlotAgrees, ConfiguredAgrees, JoinAgrees, ServeAgrees,
     RespondAgrees, RelayAgrees DEF ConnectionNext
<1> QED
  BY <1>1, <1>2

\* With everything told, what will be shown is shown.
LEMMA AgreementShows == Agrees /\ ToldInv => EditorAgrees
<1> SUFFICES ASSUME Agrees, ToldInv, view.configured, ~view.leaving, ~broken, queue = << >>,
                    follower = "idle", since = Len(log), missed = {}
             PROVE  shown = prog
  BY DEF EditorAgrees
<1>1. WillShow /\ reader # "join" /\ prog \in ProgStates
  BY DEF Agrees, Watches, Joins, ToldInv, ConnTypeOK
<1>2. Shows = shown /\ From = Len(log)
  BY <1>1 DEF Shows, From
<1>3. Pending = {}
  <2>1. DOMAIN log = 1 .. Len(log) /\ Len(log) \in Nat
    BY FromIs
  <2> QED
    BY <1>2, <2>1 DEF Pending
<1>4. ~Calling
  BY DEF Calling, ToldInv, CalledHolds
<1> HIDE DEF Pending, Shows, Calling
<1>5. prog = "running" => shown = "running"
  BY <1>1, <1>2, <1>4 DEF WillShow
<1>6. prog = "stopped" => shown = "stopped"
  BY <1>1, <1>2, <1>3 DEF WillShow
<1>7. prog = "exited" => shown = "exited"
  BY <1>1, <1>2, <1>3 DEF WillShow
<1> QED
  BY <1>1, <1>5, <1>6, <1>7 DEF ProgStates

\* Whoever continues the program: a response is written before the events its
\* request causes, and from the join point on every event reaches the editor
\* once and in order, or a resync stands for it (facade/events.go's follower,
\* requests.go's gate).
THEOREM EventsToldOnce == ConnectionSpec => [](ResponseFirst /\ ToldInOrder)
<1>1. ToldInv => ResponseFirst /\ ToldInOrder
  BY DEF ToldInv
<1>2. ConnectionSpec => []ToldInv
  BY ToldFirst, ToldNext, PTL DEF ConnectionSpec
<1> QED
  BY <1>1, <1>2, PTL

\* While no other client continues the program, the editor shows it as it is
\* once everything logged is told (MCStaleStop.cfg shows what another client's
\* continue does to it).
THEOREM EventsTold ==
    ASSUME OthersRun = FALSE
    PROVE  ConnectionSpec => []EventsInOrder
<1>1. ConnectionInit => ToldInv /\ Agrees
  BY ToldFirst, AgreesFirst
<1>2. ToldInv /\ Agrees /\ [ConnectionNext]_connectionVars => (ToldInv /\ Agrees)'
  BY ToldNext, AgreesNext
<1>3. ToldInv /\ Agrees => EventsInOrder
  BY AgreementShows DEF ToldInv, EventsInOrder
<1> QED
  BY <1>1, <1>2, <1>3, PTL DEF ConnectionSpec

----------------------------------------------------------------------------
(***************************************************************************)
(* An editor's launch, however its requests, its terminal, the program and *)
(* other clients interleave with the launch goroutine.                     *)
(*                                                                         *)
(* LaunchInv is inductive: until configurationDone is handled the queue    *)
(* has nothing but it and breakpoint requests, as many before it as are    *)
(* not placed yet (ConfigurationWaits); a launch that failed or was        *)
(* terminated has no session unless another client holds its lease         *)
(* (NothingLeft); and the route of the terminal is closed before the       *)
(* launch's success is looked at, so that none fails after it              *)
(* (RouteClosed).                                                          *)
(***************************************************************************)

\* What the ordered worker's requests are.
LaunchKinds == {"bps", "conf", "stop"}

LaunchTypeOK ==
    /\ launchQueue \in Seq(LaunchKinds) /\ bpsAsked \in Nat /\ bpsAsked <= MaxBps
    /\ placed \in Nat /\ wanted \in Nat /\ DOMAIN answers = {"launch", "terminate"}

\* How far the launch is, and what it has done by then.
LaunchInOrder ==
    /\ launchPhase = "initialized" => lpc = "none"
    /\ launchPhase \in {"initialized", "launching"} => bpsAsked = 0 /\ wanted > MaxBps
    /\ lpc \in {"none", "prepare", "adapter", "bind"} => launchPhase \in {"initialized", "launching"}
    /\ lpc = "none" => sess = "none"
    /\ lpc \in {"none", "prepare", "adapter", "bind", "wait", "go"} => ~ok
    /\ launched => lpc = "done" /\ ok
    /\ (lpc = "done" /\ ok) => launched
    /\ (lpc = "go" \/ ok) => configured

\* Until configurationDone is handled the queue has nothing but it and breakpoint
\* requests, and every one it waits for is placed or stands before it.
ConfigurationWaits ==
    /\ (~configured /\ wanted > MaxBps) =>
          /\ \A i \in DOMAIN launchQueue : launchQueue[i] = "bps"
          /\ Known => bpsAsked <= placed + Len(launchQueue)
    /\ (~configured /\ wanted <= MaxBps) =>
          \E p \in DOMAIN launchQueue :
              /\ launchQueue[p] = "conf"
              /\ \A i \in DOMAIN launchQueue : i # p => launchQueue[i] = "bps"
              /\ Known => wanted <= placed + (p - 1)
    /\ configured =>
          /\ wanted <= MaxBps /\ \A i \in DOMAIN launchQueue : launchQueue[i] # "conf"
          /\ Known => wanted <= placed

\* What a launch that is over, or was terminated, leaves.
NothingLeft ==
    /\ (lpc \in {"over", "returned", "answer", "done"} /\ ~ok) => leaseLost \/ ~Known
    /\ (answers.terminate = "ok" /\ lpc = "done") => leaseLost \/ ~Known
    /\ answers.terminate = "ok" => lpc \in {"none", "done"}
    /\ \A i \in DOMAIN launchQueue : launchQueue[i] = "stop" => lpc = "done" /\ launched

\* The route of a launch that is over is closed.
RouteClosed ==
    lpc \in {"returned", "abandon", "answer", "done"} => term = "closed" /\ (ok => ~startFail)

LaunchInv == LaunchTypeOK /\ LaunchInOrder /\ ConfigurationWaits /\ NothingLeft /\ RouteClosed

----------------------------------------------------------------------------
\* With the requests as they are, what configurationDone waits for is so.
LEMMA WaitsOn ==
    ASSUME LaunchInv, UNCHANGED <<launchQueue, bpsAsked, placed, wanted, configured>>, Known' => Known
    PROVE  ConfigurationWaits'
<1> HIDE DEF Known
<1> QED
  BY DEF LaunchInv, ConfigurationWaits

\* A step that leaves the launch goroutine, the session and the answers alone.
LEMMA LaunchRests ==
    ASSUME LaunchInv,
           UNCHANGED <<launchPhase, launchQueue, lpc, ok, launched, configured, sess, leaseLost, bpsAsked, placed,
                       wanted, answers>>,
           term = "closed" => term' = "closed" /\ startFail' = startFail
    PROVE  LaunchInv'
<1>1. LaunchTypeOK' /\ LaunchInOrder'
  BY DEF LaunchInv, LaunchTypeOK, LaunchInOrder
<1>2. ConfigurationWaits'
  BY WaitsOn DEF Known
<1>3. NothingLeft' /\ RouteClosed'
  BY DEF LaunchInv, NothingLeft, RouteClosed, Known
<1> QED
  BY <1>1, <1>2, <1>3 DEF LaunchInv

\* The terminal's steps, and the reader's end.
LEMMA TerminalKeeps ==
    ASSUME LaunchInv,
           StreamEnds \/ AdapterAsks \/ RunInTerminal \/ ServeTerminal \/ \E v \in BOOLEAN : TerminalAnswered(v)
    PROVE  LaunchInv'
<1>1. UNCHANGED <<launchPhase, launchQueue, lpc, ok, launched, configured, sess, leaseLost, bpsAsked, placed,
                  wanted, answers>>
  BY DEF StreamEnds, AdapterAsks, RunInTerminal, ServeTerminal, TerminalAnswered, connVars, launchVars, sessVars,
         histVars
<1>2. term = "closed" => term' = "closed" /\ startFail' = startFail
  BY DEF StreamEnds, AdapterAsks, RunInTerminal, ServeTerminal, TerminalAnswered, launchVars
<1> QED
  BY <1>1, <1>2, LaunchRests

\* The session ends, is taken over or is forgotten.
LEMMA LaunchedEndKeeps ==
    ASSUME LaunchInv, ProgramEnds \/ LeaseTaken \/ LaunchDisconnect \/ LaunchServeEnds
    PROVE  LaunchInv'
<1>1. /\ UNCHANGED <<launchPhase, launchQueue, lpc, ok, launched, configured, bpsAsked, placed, wanted, answers, term,
                     startFail>>
      /\ leaseLost => leaseLost'
  BY DEF ProgramEnds, LeaseTaken, LaunchDisconnect, LaunchServeEnds, connVars, launchVars, sessVars, histVars
<1>2. sess \in {"starting", "running", "exited"} \/ sess' = sess
  BY DEF ProgramEnds, LeaseTaken, LaunchDisconnect, LaunchServeEnds, Forgotten
<1>3. Known' => Known
  BY <1>2 DEF Known
<1>4. LaunchTypeOK' /\ LaunchInOrder'
  BY <1>1, <1>2 DEF LaunchInv, LaunchTypeOK, LaunchInOrder
<1>5. ConfigurationWaits'
  BY <1>1, <1>3, WaitsOn
<1>6. NothingLeft' /\ RouteClosed'
  <2> HIDE DEF Known
  <2> QED
    BY <1>1, <1>3 DEF LaunchInv, NothingLeft, RouteClosed
<1> QED
  BY <1>4, <1>5, <1>6 DEF LaunchInv

\* startLaunch, while nothing is known of a session.
LEMMA StartKeeps ==
    ASSUME LaunchInv, NEW t \in BOOLEAN, StartLaunch(t)
    PROVE  LaunchInv'
<1>1. /\ launchPhase = "initialized" /\ lpc = "none" /\ launchPhase' = "launching" /\ lpc' = "prepare"
      /\ answers' = [answers EXCEPT !.terminate = "none"]
      /\ UNCHANGED <<launchQueue, ok, launched, configured, startFail, sess, leaseLost, bpsAsked, placed, wanted>>
  BY DEF StartLaunch, sessVars
<1>2. DOMAIN answers' = {"launch", "terminate"} /\ answers'.terminate = "none"
  BY <1>1 DEF LaunchInv, LaunchTypeOK
<1>3. LaunchTypeOK' /\ LaunchInOrder'
  BY <1>1, <1>2 DEF LaunchInv, LaunchTypeOK, LaunchInOrder
<1>4. ConfigurationWaits'
  BY <1>1, WaitsOn DEF Known
<1>5. \A i \in DOMAIN launchQueue : launchQueue[i] # "stop"
  BY <1>1 DEF LaunchInv, NothingLeft
<1>6. NothingLeft' /\ RouteClosed'
  BY <1>1, <1>2, <1>5 DEF NothingLeft, RouteClosed
<1> QED
  BY <1>3, <1>4, <1>6 DEF LaunchInv

\* The launch goroutine takes a step that leaves the session to the manager.
LEMMA GoKeeps ==
    ASSUME LaunchInv, Prepare \/ Configure \/ Bind \/ Waited \/ Run
    PROVE  LaunchInv'
<1>1. /\ UNCHANGED <<launchQueue, launched, configured, startFail, leaseLost, bpsAsked, placed, wanted, answers, term>>
      /\ lpc \in {"prepare", "adapter", "bind", "wait", "go"}
      /\ lpc' \in {"adapter", "bind", "wait", "go", "over"}
      /\ launchPhase' = launchPhase \/ (lpc = "bind" /\ lpc' = "wait" /\ launchPhase' = "attached")
  BY DEF Prepare, Configure, Bind, Waited, Run, FailStart, Goto, connVars, launchVars, histVars
<1>2. \/ lpc = "prepare" /\ lpc' = "adapter" /\ sess' = "starting" /\ ok' = ok
      \/ lpc = "adapter" /\ lpc' = "bind" /\ sess' = sess /\ ok' = ok
      \/ lpc = "bind" /\ lpc' = "wait" /\ sess' = sess /\ ok' = ok
      \/ lpc = "wait" /\ lpc' = "go" /\ configured /\ sess' = sess /\ ok' = ok
      \/ lpc = "go" /\ lpc' = "over" /\ ok' = TRUE /\ sess' = IF sess = "starting" THEN "running" ELSE sess
      \/ lpc' = "over" /\ ok' = FALSE /\ sess' = IF Known THEN "gone" ELSE sess
  BY DEF Prepare, Configure, Bind, Waited, Run, FailStart, Goto
<1>3. ~ok /\ ~launched
  BY <1>1 DEF LaunchInv, LaunchInOrder
<1>4. (lpc' = "over" /\ ok' = FALSE /\ sess' = IF Known THEN "gone" ELSE sess) => ~Known'
  BY DEF Known
<1>5. LaunchTypeOK'
  BY <1>1 DEF LaunchInv, LaunchTypeOK
<1>6. LaunchInOrder'
  BY <1>1, <1>2, <1>3 DEF LaunchInv, LaunchInOrder
<1>7. ConfigurationWaits'
  <2>1. CASE lpc = "prepare" /\ lpc' = "adapter" /\ sess' = "starting" /\ ok' = ok
    <3>1. bpsAsked = 0 /\ wanted > MaxBps
      BY <2>1 DEF LaunchInv, LaunchInOrder
    <3>2. placed \in Nat /\ Len(launchQueue) \in Nat /\ wanted \in Nat /\ MaxBps \in Nat
      BY LaunchAssumption DEF LaunchInv, LaunchTypeOK
    <3>3. ~configured /\ \A i \in DOMAIN launchQueue : launchQueue[i] = "bps"
      BY <3>1, <3>2 DEF LaunchInv, ConfigurationWaits
    <3> QED
      BY <1>1, <3>1, <3>2, <3>3 DEF ConfigurationWaits
  <2>2. CASE ~(lpc = "prepare" /\ lpc' = "adapter" /\ sess' = "starting" /\ ok' = ok)
    <3>1. Known' => Known
      BY <1>2, <2>2 DEF Known
    <3> QED
      BY <1>1, <3>1, WaitsOn
  <2> QED
    BY <2>1, <2>2
<1>8. NothingLeft'
  <2>1. answers.terminate # "ok" /\ \A i \in DOMAIN launchQueue : launchQueue[i] # "stop"
    BY <1>1 DEF LaunchInv, NothingLeft
  <2>2. (lpc' = "over" /\ ~ok') => ~Known'
    BY <1>2, <1>4
  <2> HIDE DEF Known
  <2> QED
    BY <1>1, <2>1, <2>2 DEF NothingLeft
<1>9. RouteClosed'
  BY <1>1 DEF RouteClosed
<1> QED
  BY <1>5, <1>6, <1>7, <1>8, <1>9 DEF LaunchInv

\* The launch returns: its route is closed, and one that fails leaves nothing.
LEMMA ReturnKeeps ==
    ASSUME LaunchInv, CloseRoute \/ Returned \/ StopAbandoned
    PROVE  LaunchInv'
<1>1. /\ UNCHANGED <<launchPhase, launchQueue, launched, configured, startFail, leaseLost, bpsAsked, placed, wanted,
                     answers>>
      /\ lpc \in {"over", "returned", "abandon"} /\ lpc' \in {"returned", "abandon", "answer"}
  BY DEF CloseRoute, Returned, StopAbandoned, Goto, connVars, histVars, sessVars
<1>2. \/ /\ lpc = "over" /\ lpc' = "returned" /\ term' = "closed" /\ ok' = (ok /\ ~startFail)
         /\ sess' = IF startFail /\ Known THEN "gone" ELSE sess
      \/ /\ lpc = "returned" /\ lpc' \in {"abandon", "answer"} /\ term' = term /\ ok' = ok /\ sess' = sess
      \/ /\ lpc = "abandon" /\ lpc' = "answer" /\ term' = term /\ ok' = FALSE
         /\ sess' = IF Stoppable THEN "gone" ELSE sess
  BY DEF CloseRoute, Returned, StopAbandoned, Goto, sessVars
<1>3. (Known' => Known) /\ (ok' => ok) /\ ~launched
  <2>1. Known' => Known
    BY <1>2 DEF Known
  <2>2. ok' => ok
    BY <1>2
  <2>3. ~launched
    BY <1>1 DEF LaunchInv, LaunchInOrder
  <2> QED
    BY <2>1, <2>2, <2>3
<1>4. LaunchTypeOK'
  BY <1>1 DEF LaunchInv, LaunchTypeOK
<1>5. LaunchInOrder'
  BY <1>1, <1>3 DEF LaunchInv, LaunchInOrder
<1>6. ConfigurationWaits'
  BY <1>1, <1>3, WaitsOn
<1>7. NothingLeft'
  <2>1. answers.terminate # "ok" /\ \A i \in DOMAIN launchQueue : launchQueue[i] # "stop"
    BY <1>1 DEF LaunchInv, NothingLeft
  <2>2. (lpc' \in {"returned", "answer"} /\ ~ok') => leaseLost \/ ~Known'
    <3>1. CASE /\ lpc = "over" /\ ok' = (ok /\ ~startFail) /\ sess' = IF startFail /\ Known THEN "gone" ELSE sess
      <4>1. CASE startFail
        BY <3>1, <4>1 DEF Known
      <4>2. CASE ~startFail
        BY <1>3, <3>1, <4>2 DEF LaunchInv, NothingLeft
      <4> QED
        BY <4>1, <4>2
    <3>2. CASE lpc = "returned" /\ ok' = ok
      BY <1>3, <3>2 DEF LaunchInv, NothingLeft
    <3>3. CASE lpc = "abandon" /\ sess' = IF Stoppable THEN "gone" ELSE sess
      BY <3>3 DEF Stoppable, Known
    <3> QED
      BY <1>2, <3>1, <3>2, <3>3
  <2> HIDE DEF Known
  <2> QED
    BY <1>1, <2>1, <2>2 DEF NothingLeft
<1>8. RouteClosed'
  BY <1>1, <1>2 DEF LaunchInv, RouteClosed
<1> QED
  BY <1>4, <1>5, <1>6, <1>7, <1>8 DEF LaunchInv

\* runLaunch's end: its answer.
LEMMA AnswerKeeps ==
    ASSUME LaunchInv, Answer
    PROVE  LaunchInv'
<1>1. /\ UNCHANGED <<launchQueue, ok, startFail, configured, term, sess, leaseLost, bpsAsked, placed, wanted>>
      /\ lpc = "answer" /\ lpc' = "done" /\ launched' = ok /\ launchPhase' = IF ok THEN "configured" ELSE "failed"
  BY DEF Answer, sessVars
<1>2. DOMAIN answers' = {"launch", "terminate"} /\ answers'.terminate = answers.terminate
  BY DEF Answer, LaunchInv, LaunchTypeOK
<1>3. LaunchTypeOK'
  BY <1>1, <1>2 DEF LaunchInv, LaunchTypeOK
<1>4. LaunchInOrder'
  BY <1>1 DEF LaunchInv, LaunchInOrder
<1>5. ConfigurationWaits'
  BY <1>1, WaitsOn DEF Known
<1>6. NothingLeft'
  BY <1>1, <1>2 DEF LaunchInv, NothingLeft, Known
<1>7. RouteClosed'
  BY <1>1 DEF LaunchInv, RouteClosed
<1> QED
  BY <1>3, <1>4, <1>5, <1>6, <1>7 DEF LaunchInv

\* What an append to the worker's queue adds.
LEMMA QueueAppends ==
    ASSUME LaunchInv, NEW k \in LaunchKinds, launchQueue' = Append(launchQueue, k)
    PROVE  /\ launchQueue' \in Seq(LaunchKinds) /\ Len(launchQueue') = Len(launchQueue) + 1
           /\ DOMAIN launchQueue = 1 .. Len(launchQueue) /\ DOMAIN launchQueue' = 1 .. Len(launchQueue) + 1
           /\ \A i \in DOMAIN launchQueue : launchQueue'[i] = launchQueue[i]
           /\ launchQueue'[Len(launchQueue) + 1] = k /\ Len(launchQueue) \in Nat
           /\ \A i \in DOMAIN launchQueue' : i \in DOMAIN launchQueue \/ i = Len(launchQueue) + 1
<1>1. launchQueue \in Seq(LaunchKinds)
  BY DEF LaunchInv, LaunchTypeOK
<1> QED
  BY <1>1

\* setBreakpoints, and configurationDone behind every earlier one.
LEMMA AskKeeps ==
    ASSUME LaunchInv, SetBreakpoints \/ LaunchConfigurationDone
    PROVE  LaunchInv'
<1>1. /\ UNCHANGED <<launchPhase, lpc, ok, startFail, launched, configured, term, sess, leaseLost, placed, answers>>
      /\ launchPhase \in {"attached", "configured"}
  BY DEF SetBreakpoints, LaunchConfigurationDone, launchVars, sessVars, histVars
<1>2. /\ bpsAsked \in Nat /\ bpsAsked <= MaxBps /\ wanted \in Nat /\ placed \in Nat /\ MaxBps \in Nat
  BY LaunchAssumption DEF LaunchInv, LaunchTypeOK
<1>3. PICK k \in {"bps", "conf"} :
         /\ launchQueue' = Append(launchQueue, k)
         /\ k = "bps" => bpsAsked' = bpsAsked + 1 /\ wanted' = wanted /\ bpsAsked < MaxBps
         /\ k = "conf" => bpsAsked' = bpsAsked /\ wanted' = bpsAsked /\ wanted > MaxBps
  BY DEF SetBreakpoints, LaunchConfigurationDone, histVars
<1>4. k \in LaunchKinds
  BY DEF LaunchKinds
<1>5. /\ launchQueue' \in Seq(LaunchKinds) /\ Len(launchQueue') = Len(launchQueue) + 1
      /\ DOMAIN launchQueue = 1 .. Len(launchQueue) /\ DOMAIN launchQueue' = 1 .. Len(launchQueue) + 1
      /\ \A i \in DOMAIN launchQueue : launchQueue'[i] = launchQueue[i]
      /\ launchQueue'[Len(launchQueue) + 1] = k /\ Len(launchQueue) \in Nat
      /\ \A i \in DOMAIN launchQueue' : i \in DOMAIN launchQueue \/ i = Len(launchQueue) + 1
  BY <1>3, <1>4, QueueAppends
<1>6. LaunchTypeOK'
  <2>1. bpsAsked' \in Nat /\ bpsAsked' <= MaxBps /\ wanted' \in Nat
    BY <1>2, <1>3
  <2> QED
    BY <1>1, <1>2, <1>5, <2>1 DEF LaunchInv, LaunchTypeOK
<1>7. LaunchInOrder' /\ RouteClosed'
  BY <1>1 DEF LaunchInv, LaunchInOrder, RouteClosed
<1>8. NothingLeft'
  <2>1. \A i \in DOMAIN launchQueue' : launchQueue'[i] = "stop" => lpc = "done" /\ launched
    BY <1>3, <1>5 DEF LaunchInv, NothingLeft
  <2> QED
    BY <1>1, <2>1 DEF LaunchInv, NothingLeft, Known
<1>9. Known' <=> Known
  BY <1>1 DEF Known
<1> HIDE DEF Known
<1>10. ConfigurationWaits'
  <2>1. CASE k = "bps"
    <3>1. CASE ~configured /\ wanted > MaxBps
      <4>1. \A i \in DOMAIN launchQueue' : launchQueue'[i] = "bps"
        BY <1>5, <2>1, <3>1 DEF LaunchInv, ConfigurationWaits
      <4>2. Known' => bpsAsked' <= placed' + Len(launchQueue')
        BY <1>1, <1>2, <1>3, <1>5, <1>9, <2>1, <3>1 DEF LaunchInv, ConfigurationWaits
      <4> QED
        BY <1>1, <1>2, <1>3, <2>1, <3>1, <4>1, <4>2 DEF ConfigurationWaits
    <3>2. CASE ~configured /\ wanted <= MaxBps
      <4>1. PICK p \in DOMAIN launchQueue :
               /\ launchQueue[p] = "conf" /\ \A i \in DOMAIN launchQueue : i # p => launchQueue[i] = "bps"
               /\ Known => wanted <= placed + (p - 1)
        BY <3>2 DEF LaunchInv, ConfigurationWaits
      <4>2. p \in DOMAIN launchQueue' /\ launchQueue'[p] = "conf"
        BY <1>5, <4>1
      <4>3. \A i \in DOMAIN launchQueue' : i # p => launchQueue'[i] = "bps"
        BY <1>5, <2>1, <4>1
      <4>4. wanted' = wanted /\ placed' = placed /\ ~configured'
        BY <1>1, <1>3, <2>1, <3>2
      <4> QED
        BY <1>2, <1>9, <3>2, <4>1, <4>2, <4>3, <4>4 DEF ConfigurationWaits
    <3>3. CASE configured
      <4>1. \A i \in DOMAIN launchQueue' : launchQueue'[i] # "conf"
        BY <1>5, <2>1, <3>3 DEF LaunchInv, ConfigurationWaits
      <4> QED
        BY <1>1, <1>3, <1>9, <2>1, <3>3, <4>1 DEF LaunchInv, ConfigurationWaits
    <3> QED
      BY <1>2, <3>1, <3>2, <3>3
  <2>2. CASE k = "conf"
    <3>1. ~configured /\ wanted > MaxBps
      BY <1>2, <1>3, <2>2 DEF LaunchInv, ConfigurationWaits
    <3>2. /\ \A i \in DOMAIN launchQueue : launchQueue[i] = "bps"
          /\ Known => bpsAsked <= placed + Len(launchQueue)
      BY <3>1 DEF LaunchInv, ConfigurationWaits
    <3>3. PICK p : p = Len(launchQueue) + 1
      OBVIOUS
    <3>4. p \in DOMAIN launchQueue' /\ launchQueue'[p] = "conf"
      BY <1>5, <2>2, <3>3
    <3>5. \A i \in DOMAIN launchQueue' : i # p => launchQueue'[i] = "bps"
      BY <1>5, <3>2, <3>3
    <3>6. Known' => wanted' <= placed' + (p - 1)
      BY <1>1, <1>2, <1>3, <1>5, <1>9, <2>2, <3>2, <3>3
    <3>7. ~configured' /\ wanted' <= MaxBps /\ ~(wanted' > MaxBps)
      BY <1>1, <1>2, <1>3, <2>2, <3>1
    <3> QED
      BY <3>4, <3>5, <3>6, <3>7 DEF ConfigurationWaits
  <2> QED
    BY <1>3, <2>1, <2>2
<1> QED
  BY <1>6, <1>7, <1>8, <1>10 DEF LaunchInv

\* terminate: at once, on a goroutine of its own, or behind the worker's requests.
LEMMA TerminateKeeps ==
    ASSUME LaunchInv, Terminate
    PROVE  LaunchInv'
<1>1. UNCHANGED <<launchPhase, lpc, ok, startFail, launched, configured, term, sess, leaseLost, bpsAsked, placed,
                  wanted>>
  BY DEF Terminate, sessVars
<1>2. DOMAIN answers = {"launch", "terminate"}
  BY DEF LaunchInv, LaunchTypeOK
<1>3. Known' <=> Known
  BY <1>1 DEF Known
<1> HIDE DEF Known
<1>4. LaunchInOrder' /\ RouteClosed'
  BY <1>1 DEF LaunchInv, LaunchInOrder, RouteClosed
<1>5. CASE /\ lpc = "none" \/ (lpc = "done" /\ ~launched)
           /\ answers' = [answers EXCEPT !.terminate = "ok"] /\ launchQueue' = launchQueue
  <2>1. DOMAIN answers' = {"launch", "terminate"}
    BY <1>2, <1>5
  <2>2. LaunchTypeOK'
    BY <1>1, <1>5, <2>1 DEF LaunchInv, LaunchTypeOK
  <2>3. ConfigurationWaits'
    BY <1>1, <1>3, <1>5, WaitsOn
  <2>4. lpc = "done" => ~ok
    BY <1>5 DEF LaunchInv, LaunchInOrder
  <2>5. NothingLeft'
    BY <1>1, <1>3, <1>5, <2>4 DEF LaunchInv, NothingLeft
  <2> QED
    BY <1>4, <2>2, <2>3, <2>5 DEF LaunchInv
<1>6. CASE answers' = [answers EXCEPT !.terminate = "none"] /\ launchQueue' = launchQueue
  <2>1. DOMAIN answers' = {"launch", "terminate"} /\ answers'.terminate = "none"
    BY <1>2, <1>6
  <2>2. LaunchTypeOK'
    BY <1>1, <1>6, <2>1 DEF LaunchInv, LaunchTypeOK
  <2>3. ConfigurationWaits'
    BY <1>1, <1>3, <1>6, WaitsOn
  <2>4. NothingLeft'
    BY <1>1, <1>3, <1>6, <2>1 DEF LaunchInv, NothingLeft
  <2> QED
    BY <1>4, <2>2, <2>3, <2>4 DEF LaunchInv
<1>7. CASE /\ lpc = "done" /\ launched /\ launchQueue' = Append(launchQueue, "stop")
           /\ answers' = [answers EXCEPT !.terminate = "none"]
  <2>1. DOMAIN answers' = {"launch", "terminate"} /\ answers'.terminate = "none"
    BY <1>2, <1>7
  <2>2. /\ launchQueue' \in Seq(LaunchKinds)
        /\ \A i \in DOMAIN launchQueue : launchQueue'[i] = launchQueue[i]
        /\ launchQueue'[Len(launchQueue) + 1] = "stop"
        /\ \A i \in DOMAIN launchQueue' : i \in DOMAIN launchQueue \/ i = Len(launchQueue) + 1
    <3>1. "stop" \in LaunchKinds
      BY DEF LaunchKinds
    <3> QED
      BY <1>7, <3>1, QueueAppends
  <2>3. LaunchTypeOK'
    BY <1>1, <2>1, <2>2 DEF LaunchInv, LaunchTypeOK
  <2>4. configured
    BY <1>7 DEF LaunchInv, LaunchInOrder
  <2>5. ConfigurationWaits'
    <3>1. \A i \in DOMAIN launchQueue' : launchQueue'[i] # "conf"
      BY <2>2, <2>4 DEF LaunchInv, ConfigurationWaits
    <3> QED
      BY <1>1, <1>3, <2>4, <3>1 DEF LaunchInv, ConfigurationWaits
  <2>6. NothingLeft'
    <3>1. \A i \in DOMAIN launchQueue' : launchQueue'[i] = "stop" => lpc = "done" /\ launched
      BY <1>7
    <3> QED
      BY <1>1, <1>3, <2>1, <3>1 DEF LaunchInv, NothingLeft
  <2> QED
    BY <1>4, <2>3, <2>5, <2>6 DEF LaunchInv
<1> QED
  BY <1>5, <1>6, <1>7 DEF Terminate

\* What taking the first request off the queue leaves.
LEMMA QueueTails ==
    ASSUME LaunchInv, launchQueue # << >>, launchQueue' = Tail(launchQueue)
    PROVE  /\ launchQueue' \in Seq(LaunchKinds) /\ Len(launchQueue') = Len(launchQueue) - 1
           /\ DOMAIN launchQueue = 1 .. Len(launchQueue) /\ DOMAIN launchQueue' = 1 .. Len(launchQueue) - 1
           /\ \A i \in DOMAIN launchQueue' : i + 1 \in DOMAIN launchQueue /\ launchQueue'[i] = launchQueue[i + 1]
           /\ Head(launchQueue) = launchQueue[1] /\ 1 \in DOMAIN launchQueue
           /\ Head(launchQueue) \in LaunchKinds /\ Len(launchQueue) \in Nat
<1>1. launchQueue \in Seq(LaunchKinds)
  BY DEF LaunchInv, LaunchTypeOK
<1> QED
  BY <1>1

\* A breakpoint request is placed, configurationDone handled, a launch stopped.
LEMMA WorkerKeeps ==
    ASSUME LaunchInv, Worker
    PROVE  LaunchInv'
<1>1. /\ UNCHANGED <<launchPhase, lpc, ok, startFail, launched, term, leaseLost, bpsAsked, wanted>>
      /\ launchQueue # << >> /\ launchQueue' = Tail(launchQueue)
  BY DEF Worker
<1>2. /\ launchQueue' \in Seq(LaunchKinds) /\ Len(launchQueue') = Len(launchQueue) - 1
      /\ DOMAIN launchQueue = 1 .. Len(launchQueue) /\ DOMAIN launchQueue' = 1 .. Len(launchQueue) - 1
      /\ \A i \in DOMAIN launchQueue' : i + 1 \in DOMAIN launchQueue /\ launchQueue'[i] = launchQueue[i + 1]
      /\ Head(launchQueue) = launchQueue[1] /\ 1 \in DOMAIN launchQueue
      /\ Head(launchQueue) \in LaunchKinds /\ Len(launchQueue) \in Nat
  BY <1>1, QueueTails
<1>3. /\ bpsAsked \in Nat /\ wanted \in Nat /\ placed \in Nat /\ MaxBps \in Nat
      /\ DOMAIN answers = {"launch", "terminate"}
  BY LaunchAssumption DEF LaunchInv, LaunchTypeOK
<1>4. \A i \in DOMAIN launchQueue' : launchQueue'[i] = "stop" => lpc = "done" /\ launched
  BY <1>2 DEF LaunchInv, NothingLeft
<1>5. RouteClosed'
  BY <1>1 DEF LaunchInv, RouteClosed
<1>6. CASE /\ Head(launchQueue) = "bps" /\ placed' = IF Known THEN placed + 1 ELSE placed
           /\ UNCHANGED <<configured, sess, answers>>
  <2>1. placed' \in Nat /\ (Known => placed' = placed + 1) /\ (~Known => placed' = placed)
    BY <1>3, <1>6
  <2>2. Known' <=> Known
    BY <1>6 DEF Known
  <2> HIDE DEF Known
  <2>3. LaunchTypeOK' /\ LaunchInOrder' /\ NothingLeft'
    BY <1>1, <1>2, <1>4, <1>6, <2>1, <2>2 DEF LaunchInv, LaunchTypeOK, LaunchInOrder, NothingLeft
  <2>4. ConfigurationWaits'
    <3>1. CASE ~configured /\ wanted > MaxBps
      <4>1. \A i \in DOMAIN launchQueue' : launchQueue'[i] = "bps"
        BY <1>2, <3>1 DEF LaunchInv, ConfigurationWaits
      <4>2. Known' => bpsAsked' <= placed' + Len(launchQueue')
        BY <1>1, <1>2, <1>3, <2>1, <2>2, <3>1 DEF LaunchInv, ConfigurationWaits
      <4> QED
        BY <1>1, <1>3, <1>6, <3>1, <4>1, <4>2 DEF ConfigurationWaits
    <3>2. CASE ~configured /\ wanted <= MaxBps
      <4>1. PICK p \in DOMAIN launchQueue :
               /\ launchQueue[p] = "conf" /\ \A i \in DOMAIN launchQueue : i # p => launchQueue[i] = "bps"
               /\ Known => wanted <= placed + (p - 1)
        BY <3>2 DEF LaunchInv, ConfigurationWaits
      <4>2. p # 1
        BY <1>2, <1>6, <4>1
      <4>3. PICK q : q = p - 1
        OBVIOUS
      <4>4. q \in DOMAIN launchQueue' /\ q + 1 = p /\ q \in Nat
        BY <1>2, <4>1, <4>2, <4>3
      <4>5. launchQueue'[q] = "conf" /\ \A i \in DOMAIN launchQueue' : i # q => launchQueue'[i] = "bps"
        BY <1>2, <4>1, <4>4
      <4>6. Known' => wanted' <= placed' + (q - 1)
        BY <1>1, <1>3, <2>1, <2>2, <4>1, <4>4
      <4> QED
        BY <1>1, <1>3, <1>6, <3>2, <4>4, <4>5, <4>6 DEF ConfigurationWaits
    <3>3. CASE configured
      <4>1. \A i \in DOMAIN launchQueue' : launchQueue'[i] # "conf"
        BY <1>2, <3>3 DEF LaunchInv, ConfigurationWaits
      <4>2. wanted <= MaxBps /\ (Known => wanted <= placed')
        BY <1>3, <2>1, <3>3 DEF LaunchInv, ConfigurationWaits
      <4> QED
        BY <1>1, <1>6, <2>2, <3>3, <4>1, <4>2 DEF ConfigurationWaits
    <3> QED
      BY <1>3, <3>1, <3>2, <3>3
  <2> QED
    BY <1>5, <2>3, <2>4 DEF LaunchInv
<1>7. CASE Head(launchQueue) = "conf" /\ configured' = TRUE /\ UNCHANGED <<placed, sess, answers>>
  <2>1. Known' <=> Known
    BY <1>7 DEF Known
  <2> HIDE DEF Known
  <2>2. LaunchTypeOK' /\ LaunchInOrder' /\ NothingLeft'
    BY <1>1, <1>2, <1>4, <1>7, <2>1 DEF LaunchInv, LaunchTypeOK, LaunchInOrder, NothingLeft
  <2>3. ~configured /\ wanted <= MaxBps
    <3>1. launchQueue[1] = "conf"
      BY <1>2, <1>7
    <3> QED
      BY <1>2, <1>3, <3>1 DEF LaunchInv, ConfigurationWaits
  <2>4. PICK p \in DOMAIN launchQueue :
           /\ launchQueue[p] = "conf" /\ \A i \in DOMAIN launchQueue : i # p => launchQueue[i] = "bps"
           /\ Known => wanted <= placed + (p - 1)
    BY <2>3 DEF LaunchInv, ConfigurationWaits
  <2>5. p = 1
    BY <1>2, <1>7, <2>4
  <2>6. (Known => wanted <= placed) /\ \A i \in DOMAIN launchQueue' : launchQueue'[i] # "conf"
    BY <1>2, <1>3, <2>4, <2>5
  <2>7. ConfigurationWaits'
    BY <1>1, <1>7, <2>1, <2>3, <2>6 DEF ConfigurationWaits
  <2> QED
    BY <1>5, <2>2, <2>7 DEF LaunchInv
<1>8. CASE /\ Head(launchQueue) = "stop" /\ ((Stoppable /\ sess' = "gone") \/ (~Stoppable /\ sess' = sess))
           /\ answers' = [answers EXCEPT !.terminate = IF Stoppable THEN "ok" ELSE "failed"]
           /\ UNCHANGED <<configured, placed>>
  <2>1. /\ DOMAIN answers' = {"launch", "terminate"} /\ (Known' => Known)
        /\ answers'.terminate = "ok" => ~Known'
    <3>1. DOMAIN answers' = {"launch", "terminate"}
      BY <1>3, <1>8
    <3>2. CASE Stoppable
      BY <1>8, <3>1, <3>2 DEF Known
    <3>3. CASE ~Stoppable
      <4>1. answers'.terminate = "failed"
        BY <1>3, <1>8, <3>3
      <4> QED
        BY <1>8, <3>1, <3>3, <4>1 DEF Known
    <3> QED
      BY <3>2, <3>3
  <2>2. lpc = "done" /\ launched
    BY <1>2, <1>8 DEF LaunchInv, NothingLeft
  <2>3. ok /\ configured
    BY <2>2 DEF LaunchInv, LaunchInOrder
  <2>4. LaunchTypeOK' /\ LaunchInOrder'
    BY <1>1, <1>2, <1>8, <2>1, <2>2 DEF LaunchInv, LaunchTypeOK, LaunchInOrder
  <2> HIDE DEF Known
  <2>5. NothingLeft'
    BY <1>1, <1>4, <2>1, <2>2, <2>3 DEF NothingLeft
  <2>6. ConfigurationWaits'
    <3>1. \A i \in DOMAIN launchQueue' : launchQueue'[i] # "conf"
      BY <1>2, <2>3 DEF LaunchInv, ConfigurationWaits
    <3> QED
      BY <1>1, <1>8, <2>1, <2>3, <3>1 DEF LaunchInv, ConfigurationWaits
  <2> QED
    BY <1>5, <2>4, <2>5, <2>6 DEF LaunchInv
<1> QED
  BY <1>6, <1>7, <1>8 DEF Worker

\* A terminate that waited for the launch stops what it launched.
LEMMA TerminateLaunchKeeps ==
    ASSUME LaunchInv, TerminateLaunch
    PROVE  LaunchInv'
<1>1. /\ UNCHANGED <<launchPhase, launchQueue, lpc, ok, startFail, launched, configured, term, leaseLost, bpsAsked,
                     placed, wanted>>
  BY DEF TerminateLaunch, connVars, launchVars
<1>2. \/ UNCHANGED <<sess, answers>>
      \/ /\ lpc = "done" /\ sess' = IF launched /\ Stoppable THEN "gone" ELSE sess
         /\ answers' = [answers EXCEPT !.terminate = IF launched /\ ~Stoppable THEN "failed" ELSE "ok"]
  BY DEF TerminateLaunch, StopLaunched
<1>3. DOMAIN answers = {"launch", "terminate"}
  BY DEF LaunchInv, LaunchTypeOK
<1>4. CASE UNCHANGED <<sess, answers>>
  BY <1>1, <1>4, LaunchRests
<1>5. CASE /\ lpc = "done" /\ sess' = IF launched /\ Stoppable THEN "gone" ELSE sess
           /\ answers' = [answers EXCEPT !.terminate = IF launched /\ ~Stoppable THEN "failed" ELSE "ok"]
  <2>1. DOMAIN answers' = {"launch", "terminate"}
    BY <1>3, <1>5
  <2>2. Known' => Known
    BY <1>5 DEF Known
  <2>3. answers'.terminate = "ok" => leaseLost \/ ~Known'
    <3>1. CASE launched /\ Stoppable
      BY <1>5, <3>1 DEF Known
    <3>2. CASE launched /\ ~Stoppable
      BY <1>3, <1>5, <3>2
    <3>3. CASE ~launched
      BY <1>5, <2>2, <3>3 DEF LaunchInv, LaunchInOrder, NothingLeft
    <3> QED
      BY <3>1, <3>2, <3>3
  <2>4. LaunchTypeOK' /\ LaunchInOrder' /\ RouteClosed'
    BY <1>1, <1>5, <2>1 DEF LaunchInv, LaunchTypeOK, LaunchInOrder, RouteClosed
  <2>5. ConfigurationWaits'
    BY <1>1, <2>2, WaitsOn
  <2> HIDE DEF Known
  <2>6. NothingLeft'
    BY <1>1, <1>5, <2>2, <2>3 DEF LaunchInv, NothingLeft
  <2> QED
    BY <2>4, <2>5, <2>6 DEF LaunchInv
<1> QED
  BY <1>2, <1>4, <1>5

\* It holds at first.
LEMMA LaunchFirst == LaunchInit => LaunchInv
<1> SUFFICES ASSUME LaunchInit PROVE LaunchInv
  OBVIOUS
<1>1. /\ launchPhase = "initialized" /\ launchQueue = << >> /\ lpc = "none" /\ ok = FALSE /\ launched = FALSE
      /\ configured = FALSE /\ sess = "none" /\ bpsAsked = 0 /\ placed = 0 /\ wanted = MaxBps + 1
      /\ answers = [launch |-> "none", terminate |-> "none"] /\ MaxBps \in Nat
  BY LaunchAssumption DEF LaunchInit
<1>2. launchQueue \in Seq(LaunchKinds) /\ DOMAIN launchQueue = {} /\ ~Known
  BY <1>1 DEF Known
<1>3. LaunchTypeOK /\ LaunchInOrder
  BY <1>1, <1>2 DEF LaunchTypeOK, LaunchInOrder
<1>4. ConfigurationWaits
  BY <1>1, <1>2 DEF ConfigurationWaits
<1>5. NothingLeft /\ RouteClosed
  BY <1>1, <1>2 DEF NothingLeft, RouteClosed
<1> QED
  BY <1>3, <1>4, <1>5 DEF LaunchInv

\* Every step keeps it.
LEMMA LaunchKeeps ==
    ASSUME LaunchInv, [LaunchNext]_launchConnVars
    PROVE  LaunchInv'
<1>1. CASE UNCHANGED launchConnVars
  <2>1. UNCHANGED <<launchPhase, launchQueue, lpc, ok, launched, configured, sess, leaseLost, bpsAsked, placed,
                    wanted, answers, term, startFail>>
    BY <1>1 DEF launchConnVars, connVars, launchVars, sessVars, histVars
  <2> QED
    BY <2>1, LaunchRests
<1>2. CASE LaunchNext
  BY <1>2, TerminalKeeps, LaunchedEndKeeps, StartKeeps, GoKeeps, ReturnKeeps, AnswerKeeps, AskKeeps,
     TerminateKeeps, WorkerKeeps, TerminateLaunchKeeps DEF LaunchNext, LaunchGoroutine
<1> QED
  BY <1>1, <1>2

\* For any number of breakpoint requests and terminates, and whatever the program,
\* the terminal and other clients do meanwhile: a launched program runs only with
\* the breakpoints asked for before configurationDone, an answered terminate leaves
\* nothing of the launch unless another client holds the lease, and a launch whose
\* terminal failed never succeeds (facade/launch.go, terminal.go).
THEOREM LaunchesObey == LaunchSpec => []LaunchObeys
<1>1. LaunchInv => LaunchObeys
  <2> SUFFICES ASSUME LaunchInv PROVE LaunchObeys
    OBVIOUS
  <2>1. BreakpointsFirst
    <3> SUFFICES ASSUME ok, sess = "running" PROVE placed >= wanted
      BY DEF BreakpointsFirst
    <3>1. configured /\ Known
      BY DEF LaunchInv, LaunchInOrder, Known
    <3> HIDE DEF Known
    <3>2. wanted <= placed /\ wanted \in Nat /\ placed \in Nat
      BY <3>1 DEF LaunchInv, ConfigurationWaits, LaunchTypeOK
    <3> QED
      BY <3>2
  <2>2. TerminateStops
    BY DEF LaunchInv, NothingLeft, TerminateStops
  <2>3. TerminalDecides
    BY DEF LaunchInv, LaunchInOrder, RouteClosed, TerminalDecides
  <2> QED
    BY <2>1, <2>2, <2>3 DEF LaunchObeys
<1> QED
  BY <1>1, LaunchFirst, LaunchKeeps, PTL DEF LaunchSpec

----------------------------------------------------------------------------
(***************************************************************************)
(* What an editor shows of other clients' breakpoints (Mirrors), for any   *)
(* paths, lines, acts and changes, and whatever crosses on the way.        *)
(*                                                                         *)
(* CopiesInv is inductive: an entry of the editor, and of any list it has  *)
(* sent, is a copy as it was announced or on a line where the user set or  *)
(* edited a breakpoint, and what a list sets is not the former.            *)
(***************************************************************************)

CONSTANTS Paths, FileKey, MaxLine, MaxIds, MaxActs, MaxChanges, Owners, NoPath

VARIABLES
    mirrorBps, nextID, mirrorView, up, down, dirty, entries, nextUID, acts,
    changes, made, crossed

Mirror == INSTANCE Mirrors WITH bps <- mirrorBps, view <- mirrorView

\* The fields of a breakpoint and of an editor's entry.
BpFields == {"id", "owner", "editor", "line", "req"}
EntryFields == {"uid", "path", "line", "marked", "plain", "id"}

\* An entry is a copy as it was announced, or on a line of the user's.
UsersOrCopy(e) ==
    /\ DOMAIN e = EntryFields
    /\ e.line \in made \/ (e.marked = TRUE /\ e.plain = TRUE)

\* The requests on their way were made of such entries.
ListsSent ==
    /\ up \in Seq({up[i] : i \in DOMAIN up})
    /\ \A i \in DOMAIN up : /\ DOMAIN up[i] = {"path", "list", "stale"}
                            /\ \A e \in up[i].list : UsersOrCopy(e)

\* The client's breakpoints were asked for on a line of the user's.
OwnAsked ==
    \A b \in mirrorBps : /\ DOMAIN b = BpFields
                         /\ b.owner = "me" => b.req \in made

CopiesInv == OwnAsked /\ ListsSent /\ \A e \in entries : UsersOrCopy(e)

LEMMA SeqOfItsOwn ==
    ASSUME NEW S, NEW s \in Seq(S)
    PROVE  s \in Seq({s[i] : i \in DOMAIN s})
  OBVIOUS

\* What the answer to a list leaves of the lists behind it.
LEMMA SentTail ==
    ASSUME ListsSent, up # << >>
    PROVE  /\ Tail(up) \in Seq({Tail(up)[i] : i \in DOMAIN Tail(up)})
           /\ \A i \in DOMAIN Tail(up) : i + 1 \in DOMAIN up /\ Tail(up)[i] = up[i + 1]
           /\ 1 \in DOMAIN up /\ Head(up) = up[1]
<1> DEFINE S == {up[i] : i \in DOMAIN up}
<1>1. up \in Seq(S)
  BY DEF ListsSent
<1> HIDE DEF S
<1>2. Tail(up) \in Seq(S) /\ Len(Tail(up)) = Len(up) - 1 /\ Len(up) \in Nat
  BY <1>1
<1>3. \A i \in DOMAIN Tail(up) : i + 1 \in DOMAIN up /\ Tail(up)[i] = up[i + 1]
  BY <1>1, <1>2
<1>4. 1 \in DOMAIN up /\ Head(up) = up[1]
  BY <1>1
<1> QED
  BY <1>2, <1>3, <1>4, SeqOfItsOwn

\* An event that crosses the lists changes none of them.
LEMMA CrossingSends ==
    ASSUME NEW s, s \in Seq({s[i] : i \in DOMAIN s}), NEW es,
           \A i \in DOMAIN s : /\ DOMAIN s[i] = {"path", "list", "stale"}
                               /\ \A e \in s[i].list : UsersOrCopy(e),
           up' = Mirror!Crossing(s, es), made' = made
    PROVE  ListsSent'
<1>1. DOMAIN up' = DOMAIN s /\ Len(s) \in Nat /\ DOMAIN s = 1 .. Len(s)
  BY DEF Mirror!Crossing
<1>2. \A i \in DOMAIN s : DOMAIN up'[i] = {"path", "list", "stale"} /\ up'[i].list = s[i].list
  BY DEF Mirror!Crossing
<1>3. CASE es = << >>
  BY <1>3, <1>2 DEF Mirror!Crossing, ListsSent, UsersOrCopy, EntryFields
<1>4. ASSUME es # << >> PROVE up' \in Seq({up'[i] : i \in DOMAIN up'})
  <2> DEFINE T == {up'[i] : i \in DOMAIN up'}
             f == [i \in 1 .. Len(s) |-> [s[i] EXCEPT !.stale = TRUE]]
  <2>1. up' = f
    BY <1>1, <1>4 DEF Mirror!Crossing
  <2>2. \A i \in 1 .. Len(s) : f[i] \in T
    BY <1>1, <2>1
  <2> HIDE DEF T
  <2>3. f \in Seq(T)
    BY <1>1, <2>2
  <2> QED
    BY <2>1, <2>3 DEF T
<1> QED
  BY <1>1, <1>2, <1>3, <1>4 DEF ListsSent, UsersOrCopy, EntryFields

\* A list sets only lines of the user's: what is the client's own in it is no copy.
LEMMA ReplaceKeeps ==
    ASSUME OwnAsked, NEW lines, lines \subseteq made, NEW kept, made' = made,
           mirrorBps' = Mirror!Replaced(lines, kept).bps
    PROVE  OwnAsked'
<1> SUFFICES ASSUME NEW b \in mirrorBps'
             PROVE  DOMAIN b = BpFields /\ (b.owner = "me" => b.req \in made)
  BY DEF OwnAsked, BpFields
<1>1. \/ \E x \in mirrorBps : \E t : b = [x EXCEPT !.editor = t]
      \/ \E l \in lines : \E i : b = [id |-> i, owner |-> "me", editor |-> TRUE,
                                   line |-> l, req |-> l]
  BY Zenon DEF Mirror!Replaced
<1> QED
  BY <1>1 DEF OwnAsked, BpFields

LEMMA SetKeeps ==
    ASSUME CopiesInv, Mirror!SetBreakpoints
    PROVE  CopiesInv'
<1> DEFINE r == Head(up)
           echo == Mirror!Echoes(mirrorView, r.path, r.list)
           class == [e \in r.list |-> Mirror!Class(mirrorView, r.path, r.list, e, echo[e.line])]
           own == {e.line : e \in {x \in r.list : class[x] = "own"}}
<1>1. up # << >> /\ made' = made /\ entries' = entries
  BY DEF Mirror!SetBreakpoints
<1>2. \A e \in r.list : UsersOrCopy(e)
  BY <1>1, SentTail DEF CopiesInv, ListsSent
<1>3. ASSUME NEW e \in r.list, class[e] = "own" PROVE e.line \in made
  <2>1. Mirror!Class(mirrorView, r.path, r.list, e, echo[e.line]) = "own"
    BY <1>3
  <2>2. ~Mirror!Marked(e)
    BY <2>1 DEF Mirror!Class
  <2> QED
    BY <1>2, <2>2 DEF UsersOrCopy, Mirror!Marked
<1>4. own \subseteq made
  BY <1>3
<1>5. mirrorBps' = Mirror!Replaced(own, Mirror!Keep(mirrorView, r.path)).bps
  BY DEF Mirror!SetBreakpoints
<1>6. OwnAsked'
  BY <1>1, <1>4, <1>5, ReplaceKeeps DEF CopiesInv
<1>7. PICK es : up' = Mirror!Crossing(Tail(up), es)
  BY DEF Mirror!SetBreakpoints
<1>8. ListsSent'
  <2>1. ListsSent
    BY DEF CopiesInv
  <2>2. \A i \in DOMAIN Tail(up) : /\ DOMAIN Tail(up)[i] = {"path", "list", "stale"}
                                   /\ \A e \in Tail(up)[i].list : UsersOrCopy(e)
    BY <1>1, <2>1, SentTail DEF ListsSent
  <2>3. Tail(up) \in Seq({Tail(up)[i] : i \in DOMAIN Tail(up)})
    BY <1>1, <2>1, SentTail
  <2> QED
    BY <1>1, <1>7, <2>2, <2>3, CrossingSends
<1> QED
  BY <1>1, <1>6, <1>8 DEF CopiesInv, UsersOrCopy, EntryFields

LEMMA TellKeeps ==
    ASSUME CopiesInv, Mirror!Configured \/ Mirror!BreakpointChanged \/ Mirror!Disconnect
    PROVE  CopiesInv'
<1>1. mirrorBps' = mirrorBps /\ entries' = entries /\ made' = made
  BY DEF Mirror!Configured, Mirror!BreakpointChanged, Mirror!Disconnect
<1>2. up' = up \/ \E es : up' = Mirror!Crossing(up, es)
  BY DEF Mirror!Configured, Mirror!BreakpointChanged, Mirror!Disconnect
<1>3. ListsSent'
  <2>1. CASE up' = up
    BY <1>1, <2>1 DEF CopiesInv, ListsSent, UsersOrCopy, EntryFields
  <2>2. ASSUME NEW es, up' = Mirror!Crossing(up, es) PROVE ListsSent'
    <3>1. /\ up \in Seq({up[i] : i \in DOMAIN up})
          /\ \A i \in DOMAIN up : /\ DOMAIN up[i] = {"path", "list", "stale"}
                                  /\ \A e \in up[i].list : UsersOrCopy(e)
      BY DEF CopiesInv, ListsSent
    <3> QED
      BY <1>1, <2>2, <3>1, CrossingSends
  <2> QED
    BY <1>2, <2>1, <2>2
<1> QED
  BY <1>1, <1>3 DEF CopiesInv, OwnAsked, BpFields, UsersOrCopy, EntryFields

LEMMA OthersKeep ==
    ASSUME CopiesInv, "me" \notin Owners,
           \/ \E o \in Owners, l \in Mirror!EditorLines : Mirror!OtherAdds(o, l)
           \/ \E b \in mirrorBps : \/ Mirror!OtherRemoves(b)
                                   \/ \E l \in Mirror!EditorLines : Mirror!AdapterMoves(b, l)
    PROVE  CopiesInv'
<1>1. up' = up /\ entries' = entries /\ made' = made
  BY DEF Mirror!OtherAdds, Mirror!OtherRemoves, Mirror!AdapterMoves
<1>2. OwnAsked'
  <2>1. CASE \E o \in Owners, l \in Mirror!EditorLines : Mirror!OtherAdds(o, l)
    BY <1>1, <2>1 DEF CopiesInv, OwnAsked, BpFields, Mirror!OtherAdds
  <2>2. CASE \E b \in mirrorBps : Mirror!OtherRemoves(b)
    BY <1>1, <2>2 DEF CopiesInv, OwnAsked, BpFields, Mirror!OtherRemoves
  <2>3. CASE \E b \in mirrorBps, l \in Mirror!EditorLines : Mirror!AdapterMoves(b, l)
    BY <1>1, <2>3 DEF CopiesInv, OwnAsked, BpFields, Mirror!AdapterMoves
  <2> QED
    BY <2>1, <2>2, <2>3
<1> QED
  BY <1>1, <1>2 DEF CopiesInv, ListsSent, UsersOrCopy, EntryFields

\* What the editor sends after an act of its user.
LEMMA ActKeeps ==
    ASSUME CopiesInv, NEW path, NEW list, Mirror!UserActs(path, list), made \subseteq made',
           \A e \in list : UsersOrCopy(e)'
    PROVE  CopiesInv'
<1> DEFINE S == {up[i] : i \in DOMAIN up}
<1>1. PICK sent : up' = Append(up, sent) /\ DOMAIN sent = {"path", "list", "stale"} /\ sent.list = list
  BY DEF Mirror!UserActs
<1>2. up \in Seq(S)
  BY DEF CopiesInv, ListsSent
<1>3. up' \in Seq(S \cup {sent})
  BY <1>1, <1>2
<1>4. up' \in Seq({up'[i] : i \in DOMAIN up'})
  <2> HIDE DEF S
  <2> QED BY <1>3, SeqOfItsOwn
<1>5. \A i \in DOMAIN up' : (i \in DOMAIN up /\ up'[i] = up[i]) \/ up'[i] = sent
  BY <1>1, <1>2
<1>6. ListsSent'
  BY <1>1, <1>4, <1>5 DEF CopiesInv, ListsSent, UsersOrCopy, EntryFields
<1>7. \A e \in entries' : UsersOrCopy(e)'
  BY DEF CopiesInv, UsersOrCopy, EntryFields, Mirror!UserActs
<1>8. OwnAsked'
  BY DEF CopiesInv, OwnAsked, BpFields, Mirror!UserActs
<1> QED
  BY <1>6, <1>7, <1>8 DEF CopiesInv

LEMMA UserKeeps ==
    ASSUME CopiesInv,
           \/ \E p \in Paths, l \in Mirror!EditorLines : Mirror!UserAdds(p, l)
           \/ \E e \in entries : Mirror!UserRemoves(e) \/ Mirror!UserEdits(e)
    PROVE  CopiesInv'
<1>1. ASSUME NEW p \in Paths, NEW l \in Mirror!EditorLines, Mirror!UserAdds(p, l) PROVE CopiesInv'
  <2> DEFINE list == Mirror!At(p) \cup {[uid |-> nextUID, path |-> p, line |-> l,
                                         marked |-> FALSE, plain |-> TRUE, id |-> 0]}
  <2>1. Mirror!UserActs(p, list) /\ made' = made \cup {l}
    BY <1>1 DEF Mirror!UserAdds
  <2>2. \A e \in list : UsersOrCopy(e)'
    BY <2>1 DEF CopiesInv, UsersOrCopy, EntryFields, Mirror!At
  <2> HIDE DEF list
  <2> QED BY <2>1, <2>2, ActKeeps
<1>2. ASSUME NEW d \in entries, Mirror!UserRemoves(d) PROVE CopiesInv'
  <2> DEFINE list == Mirror!At(d.path) \ {d}
  <2>1. Mirror!UserActs(d.path, list) /\ made' = made
    BY <1>2 DEF Mirror!UserRemoves
  <2>2. \A e \in list : UsersOrCopy(e)'
    BY <2>1 DEF CopiesInv, UsersOrCopy, EntryFields, Mirror!At
  <2> HIDE DEF list
  <2> QED BY <2>1, <2>2, ActKeeps
<1>3. ASSUME NEW d \in entries, Mirror!UserEdits(d) PROVE CopiesInv'
  <2> DEFINE list == (Mirror!At(d.path) \ {d}) \cup {[d EXCEPT !.plain = FALSE]}
  <2>1. Mirror!UserActs(d.path, list) /\ made' = made \cup {d.line}
    BY <1>3 DEF Mirror!UserEdits
  <2>2. \A e \in list : UsersOrCopy(e)'
    BY <2>1 DEF CopiesInv, UsersOrCopy, EntryFields, Mirror!At
  <2> HIDE DEF list
  <2> QED BY <2>1, <2>2, ActKeeps
<1> QED
  BY <1>1, <1>2, <1>3

LEMMA ReadsKeep ==
    ASSUME CopiesInv, Mirror!EditorReads
    PROVE  CopiesInv'
<1>1. mirrorBps' = mirrorBps /\ up' = up /\ made' = made
  BY DEF Mirror!EditorReads
<1>2. \A e \in entries' : UsersOrCopy(e)
  <2> DEFINE m == Head(down)
  <2>1. CASE m.kind = "answer"
    <3>1. entries' = Mirror!Answered(m.ids)
      BY <2>1 DEF Mirror!EditorReads
    <3>2. \A e \in entries' : \E d \in entries : e = d \/ \E i : e = [d EXCEPT !.id = i]
      BY <3>1 DEF Mirror!Answered
    <3> QED
      BY <3>2 DEF CopiesInv, UsersOrCopy, EntryFields
  <2>2. CASE m.kind = "bye"
    BY <2>2 DEF CopiesInv, Mirror!EditorReads
  <2>3. CASE m.kind # "answer" /\ m.kind # "bye"
    <3>1. \A e \in entries' :
             \/ e \in entries
             \/ \E u, x : e = [uid |-> u, path |-> x.path, line |-> x.line,
                              marked |-> TRUE, plain |-> TRUE, id |-> x.id]
      BY <2>3, Zenon DEF Mirror!EditorReads
    <3> QED
      BY <3>1 DEF CopiesInv, UsersOrCopy, EntryFields
  <2> QED
    BY <2>1, <2>2, <2>3
<1> QED
  BY <1>1, <1>2 DEF CopiesInv, ListsSent, OwnAsked, BpFields, UsersOrCopy, EntryFields

\* Whatever crosses between an editor and its connection, a copy of another
\* client's breakpoint never becomes the client's own, as long as the client sets none
\* by a command (MCAdopted.cfg has what one does): what its lists set is on a line
\* where its user set or edited a breakpoint (mirrors.go's mark column, classify).
THEOREM CopiesStayOthers ==
    ASSUME "me" \notin Owners
    PROVE  Mirror!Spec => []Mirror!CopyNeverOwned
<1>1. Mirror!Init => CopiesInv
  BY DEF Mirror!Init, CopiesInv, OwnAsked, ListsSent
<1>2. CopiesInv /\ [Mirror!Next]_(Mirror!vars) => CopiesInv'
  <2>1. CopiesInv /\ Mirror!Next => CopiesInv'
    BY SetKeeps, TellKeeps, OthersKeep, UserKeeps, ReadsKeep DEF Mirror!Next
  <2>2. CopiesInv /\ UNCHANGED Mirror!vars => CopiesInv'
    BY DEF Mirror!vars, CopiesInv, OwnAsked, ListsSent, UsersOrCopy, BpFields, EntryFields
  <2> QED
    BY <2>1, <2>2
<1>3. CopiesInv => Mirror!CopyNeverOwned
  BY DEF CopiesInv, OwnAsked, Mirror!CopyNeverOwned
<1> QED
  BY <1>1, <1>2, <1>3, PTL DEF Mirror!Spec
=============================================================================
