----------------------------- MODULE Inspection -----------------------------
(***************************************************************************)
(* Reading a stopped program (session.go capture, Snapshot, stack;         *)
(* inspect.go; evalset.go; forward.go): requests that read variables       *)
(* straight from the adapter, requests that read the capture of the        *)
(* current stop, cached and diffed against an earlier one, and requests    *)
(* that change variables, while the program is continued and stops again,  *)
(* also at stops its filter hides.                                         *)
(*                                                                         *)
(* Values are one version number, which every change of the program's      *)
(* variables raises.  SessionExec has the states; here the program runs or *)
(* is stopped.                                                             *)
(***************************************************************************)
EXTENDS Naturals

CONSTANTS
    Readers,    \* requests that read
    None,
    MaxStops,   \* bound: stops, shown or hidden
    MaxSets     \* bound: requests that change variables

\* None is no request, and no capture.
ASSUME NoneAssumption == None \notin Readers /\ None \notin [stops : Nat, version : Nat]

VARIABLES
    \* the adapter and the program (external)
    halted,     \* is the program stopped in the adapter?
    epoch,      \* its stops; a frame id is good for one of them
    version,    \* of the program's variables
    \* the session
    stopped,    \* state = StateStopped
    stops,      \* the stops it showed
    cur, prev,  \* captures: [stops, version], or None
    curStale,
    captureMu, execMu,
    \* the requests
    rd,         \* rd[r]: a reader's kind, place and what it holds
    wr, sets,   \* the changing request's place, and how many there were
    known       \* the newest version an answer or a shown stop told of

inspectVars == <<halted, epoch, version, stopped, stops, cur, prev, curStale,
                 captureMu, execMu, rd, wr, sets, known>>
adapterState == <<halted, epoch, version>>
captures     == <<cur, prev, curStale>>

Idle == [kind |-> "none", at |-> "idle", stops |-> 0, frame |-> 0, version |-> 0,
         floor |-> 0, sawStop |-> FALSE]

InspectInit ==
    /\ halted = TRUE /\ epoch = 1 /\ version = 1
    /\ stopped = TRUE /\ stops = 1
    /\ cur = None /\ prev = None /\ curStale = FALSE
    /\ captureMu = None /\ execMu = FALSE
    /\ rd = [r \in Readers |-> Idle]
    /\ wr = "idle" /\ sets = 0 /\ known = 1

----------------------------------------------------------------------------
(***************************************************************************)
(* The program: continued by an execution request, stopped by itself.      *)
(***************************************************************************)

Continue ==
    /\ stopped /\ ~execMu /\ epoch < MaxStops
    /\ stopped' = FALSE /\ halted' = FALSE
    /\ UNCHANGED <<epoch, version, stops, captures, captureMu, execMu, rd, wr, sets, known>>

\* onStoppedLocked and applyStopLocked; a request that waits sees it.
StopShows ==
    /\ ~halted /\ epoch < MaxStops
    /\ halted' = TRUE /\ epoch' = epoch + 1 /\ version' = version + 1
    /\ stopped' = TRUE /\ stops' = stops + 1 /\ known' = version + 1
    /\ rd' = [r \in Readers |-> [rd[r] EXCEPT !.sawStop = @ \/ rd[r].at # "idle"]]
    /\ UNCHANGED <<captures, captureMu, execMu, wr, sets>>

\* A stop the filter continues: the adapter stops and resumes.
HiddenStop ==
    /\ ~halted /\ epoch + 1 < MaxStops
    /\ halted' = TRUE /\ epoch' = epoch + 1 /\ version' = version + 1
    /\ UNCHANGED <<stopped, stops, captures, captureMu, execMu, rd, wr, sets, known>>
HiddenContinue ==
    /\ halted /\ ~stopped
    /\ halted' = FALSE
    /\ UNCHANGED <<epoch, version, stopped, stops, captures, captureMu, execMu, rd, wr, sets, known>>

----------------------------------------------------------------------------
(***************************************************************************)
(* Readers.                                                                *)
(***************************************************************************)

SessionUnchanged == UNCHANGED <<adapterState, stopped, stops, execMu, wr, sets, known>>
Put(r, rec) == rd' = [rd EXCEPT ![r] = rec]

\* "changes": Changes; "snapshot": Snapshot with locals; "vars": Vars, Expand
\* and a read-only Eval.
NewRead(kind, frame) ==
    [Idle EXCEPT !.kind = kind, !.at = "asked", !.frame = frame, !.floor = known,
                 !.sawStop = stopped]
Ask(r, kind) ==
    /\ rd[r].at = "idle"
    /\ Put(r, NewRead(kind, 0))
    /\ UNCHANGED <<captures, captureMu>> /\ SessionUnchanged

\* requireStopped, and Snapshot's look at Info.
Fails(r) == [rd[r] EXCEPT !.at = "failed"]
RequireStopped(r) ==
    /\ rd[r].at = "asked" /\ rd[r].kind \in {"vars", "snapshot"}
    /\ Put(r, IF ~stopped THEN Fails(r)
              ELSE [rd[r] EXCEPT !.at = IF rd[r].kind = "vars" THEN "stack" ELSE "capture"])
    /\ UNCHANGED <<captures, captureMu>> /\ SessionUnchanged

\* A read an editor forwards, with the id of a frame it was shown, perhaps at
\* an earlier stop.  An expression that would change the program is refused.
Direct == {"vars", "forward"}
Forward(r, frame) ==
    /\ rd[r].at = "idle"
    /\ Put(r, NewRead("forward", frame))
    /\ UNCHANGED <<captures, captureMu>> /\ SessionUnchanged
ForwardGuarded(r) ==
    /\ rd[r].at = "asked" /\ rd[r].kind = "forward"
    /\ \/ Put(r, Fails(r))
       \/ stopped /\ Put(r, [rd[r] EXCEPT !.at = "locals"])
    /\ UNCHANGED <<captures, captureMu>> /\ SessionUnchanged

\* capture, under captureMu: the cached capture of the last stop shown, else
\* one is fetched.
Cached == cur # None /\ cur.stops = stops /\ ~curStale
AtCapture(r) ==
    \/ rd[r].at = "capture"
    \/ rd[r].at = "asked" /\ rd[r].kind = "changes"
Capture(r) ==
    /\ AtCapture(r) /\ captureMu = None
    /\ IF Cached
       THEN Put(r, [rd[r] EXCEPT !.at = "answered", !.version = cur.version]) /\ UNCHANGED captureMu
       ELSE IF ~stopped THEN Put(r, Fails(r)) /\ UNCHANGED captureMu
       ELSE Put(r, [rd[r] EXCEPT !.at = "stack", !.stops = stops]) /\ captureMu' = r
    /\ UNCHANGED captures /\ SessionUnchanged

Unlock(r) == captureMu' = IF captureMu = r THEN None ELSE captureMu

\* stack, then scopes and variables with its frame id: the adapter refuses
\* while the program runs, and an id from before a resume.
Stack(r) ==
    /\ rd[r].at = "stack"
    /\ IF halted
       THEN Put(r, [rd[r] EXCEPT !.at = "locals", !.frame = epoch]) /\ UNCHANGED captureMu
       ELSE Put(r, Fails(r)) /\ Unlock(r)
    /\ UNCHANGED captures /\ SessionUnchanged
FrameLocals(r) ==
    /\ rd[r].at = "locals"
    /\ IF ~halted \/ rd[r].frame # epoch THEN Put(r, Fails(r)) /\ Unlock(r)
       ELSE /\ Put(r, [rd[r] EXCEPT !.version = version,
                                    !.at = IF rd[r].kind \in Direct THEN "answered" ELSE "store"])
            /\ UNCHANGED captureMu
    /\ UNCHANGED captures /\ SessionUnchanged

\* The end of capture: kept unless the program stopped again meanwhile.
PrevAlways(at) == cur
PrevAt(at) == IF cur = None \/ cur.stops # at THEN cur ELSE prev
Store(r) ==
    /\ rd[r].at = "store"
    /\ IF stops # rd[r].stops THEN UNCHANGED captures
       ELSE /\ prev' = PrevAt(stops)
            /\ cur' = [stops |-> stops, version |-> rd[r].version]
            /\ curStale' = FALSE
    /\ Put(r, [rd[r] EXCEPT !.at = "answered"]) /\ Unlock(r)
    /\ SessionUnchanged

\* The client has its answer and may ask again.
Return(r) ==
    /\ rd[r].at \in {"answered", "failed"}
    /\ Put(r, Idle)
    /\ UNCHANGED <<captures, captureMu>> /\ SessionUnchanged

----------------------------------------------------------------------------
(***************************************************************************)
(* Set, Eval with side effects and forwardExecution, under execMu.         *)
(***************************************************************************)

Admit(next) ==
    /\ wr = "idle" /\ ~execMu /\ stopped /\ sets < MaxSets
    /\ execMu' = TRUE /\ wr' = next /\ sets' = sets + 1
    /\ UNCHANGED <<adapterState, stopped, stops, captures, captureMu, rd, known>>

\* Set and Eval look the frame up before they send; one who gives up there
\* marks the capture stale all the same.  An editor's request names a frame.
Set == Admit("frame")
Evaluate ==
    /\ wr = "frame" /\ wr' \in {"sent", "refused"}
    /\ UNCHANGED <<adapterState, stopped, stops, captures, captureMu, execMu, rd, sets, known>>
ForwardExecution == Admit("sent")

\* The adapter changes the variables, or refuses.
Applies ==
    /\ wr = "sent" /\ halted
    /\ \/ version' = version + 1 /\ wr' = "applied"
       \/ UNCHANGED version /\ wr' = "refused"
    /\ UNCHANGED <<halted, epoch, stopped, stops, captures, captureMu, execMu, rd, sets, known>>

\* markStale waits for a capture in flight.
WaitsForNone == TRUE
NoCapture == captureMu = None
MarkStale ==
    /\ wr \in {"applied", "refused"} /\ NoCapture
    /\ curStale' = TRUE /\ execMu' = FALSE
    /\ wr' = "idle"
    /\ known' = IF wr = "applied" THEN version ELSE known
    /\ UNCHANGED <<adapterState, stopped, stops, cur, prev, captureMu, rd, sets>>

InspectNext ==
    \/ Continue \/ StopShows \/ HiddenStop \/ HiddenContinue
    \/ Set \/ Evaluate \/ ForwardExecution \/ Applies \/ MarkStale
    \/ \E r \in Readers :
          \/ \E kind \in {"changes", "snapshot", "vars"} : Ask(r, kind)
          \/ \E frame \in 1 .. epoch : Forward(r, frame)
          \/ ForwardGuarded(r)
          \/ RequireStopped(r) \/ Capture(r) \/ Stack(r) \/ FrameLocals(r) \/ Store(r) \/ Return(r)

InspectSpec == InspectInit /\ [][InspectNext]_inspectVars

----------------------------------------------------------------------------
(***************************************************************************)
(* Properties.                                                             *)
(***************************************************************************)

\* An answer is never older than what its client could know when it asked:
\* a stop that was shown, or a set or eval that was answered, is in every
\* later read, though another's capture was in flight when it was made
\* (markStale: "so that one can't store values from before the change as
\* fresh").  And the capture others are diffed against is of an earlier stop.
ReadsFresh ==
    /\ \A r \in Readers : rd[r].at = "answered" => rd[r].version >= rd[r].floor
    /\ prev # None => prev.stops < cur.stops

\* "Needs a stopped program" (cli/session.go, vars), and locals are "cached
\* until the next resume" (DESIGN.md): no read is answered for a program that
\* ran from the request to its answer.
NeedsStopped ==
    \A r \in Readers : rd[r].at = "answered" => rd[r].sawStop
=============================================================================
