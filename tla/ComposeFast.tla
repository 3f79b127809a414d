---------------------------- MODULE ComposeFast ----------------------------
(***************************************************************************)
(* Fast mode of a compose project: `compose launch` and `compose restore`  *)
(* (internal/cli/compose_launch*.go, compose_restore.go, compose_stack.go) *)
(* over the project's containers, eyedbg's files for it (the override, the *)
(* services' build directories) and the daemon's sessions in them.         *)
(*                                                                         *)
(* One run works on the project at a time (ComposeLock is about its lock); *)
(* around it, users recreate and remove containers, attach and end         *)
(* sessions, docker and the daemon fail, a `compose up` that was given up  *)
(* on goes on, and the run is killed.  A step is one stage of the run, or  *)
(* one service's turn in a stage that changes something.                   *)
(*                                                                         *)
(* Left out: replicas, paused and stopped containers (refused), projects   *)
(* of several directories, other engines, what the builds are, exception   *)
(* modes (carried as the breakpoints are).                                 *)
(***************************************************************************)
EXTENDS Naturals, FiniteSets

CONSTANTS
    Services,
    MaxRuns,   \* bound: runs
    MaxFails,  \* bound: failures: of docker, a build, the daemon, the lease, a kill
    MaxUser,   \* bound: containers or source files users change
    NoBuilds   \* may a launch be with --no-build?  A set of Booleans

VARIABLES
    \* the engine (external): each service's container
    ctr,    \* "built", "fast" (with eyedbg's override) or "gone"
    app,    \* in a fast one: "none" or "session" (under the debugger)
    strays, \* where an app runs that lost its debugger
    late,   \* services whose recreate failed and may still be done
    \* eyedbg's directory for the project
    rec,    \* the services its override file records
    build,  \* services/<s>: "none", "half" (some of a build's files) or "ok"
    \* the daemon
    sess,   \* each service's session: "none", "attached" or "launched"
    bps,    \* does it have breakpoints of the caller?
    \* the run
    pc, run, live, todo, entry, seen, carry,
    listed, \* of the sessions in its list, those that have not ended
    had,    \* history: services whose listed session has breakpoints to be read
    runs, fails, user

engine == <<ctr, app, strays, late>>
files  == <<rec, build>>
daemon == <<sess, bps>>
stage  == <<live, todo, entry, seen, listed, carry, had>>
bounds == <<runs, fails, user>>
vars   == <<engine, files, daemon, pc, run, stage, bounds>>

NoRun == [kind |-> "none", noBuild |-> FALSE, all |-> FALSE, foundFast |-> FALSE,
          upFailed |-> FALSE, keepProject |-> FALSE, clean |-> TRUE, at |-> "none"]

\* FastContainers: the project's containers with eyedbg's labels.
FastContainers == {s \in Services : ctr[s] = "fast"}

\* ReadRecorded, Corroborates: the override records the service.
Recorded(s) == s \in rec

\* recordedFast: the labels are believed when the override records them.
RecordedFast(s) == ctr[s] = "fast" /\ Recorded(s)

\* InspectFast finds the container a run read earlier, by its id.
Inspectable(s) == s \in seen /\ ctr[s] # "gone"

\* One or more things fail: those services are out of the run.
Lose(lost) ==
    /\ lost # {} => fails < MaxFails
    /\ fails' = IF lost = {} THEN fails ELSE fails + 1
    /\ run' = [run EXCEPT !.clean = @ /\ lost = {}]

\* What takes services out of a run: a docker command that fails, is cut off
\* by its timeout or answers nonsense; an inspection refused by its checks; a
\* compose directory the labels do not corroborate; no project, or several, or
\* one a container may write; a publish; an adapter that can't be installed.
DockerFails(lost) == Lose(lost)
InspectFails(lost) == Lose(lost)
CorroborateFails(lost) == Lose(lost)
ProjectFails(lost) == Lose(lost)
MountsFail(lost) == Lose(lost)
PublishFails(lost) ==
    /\ lost # {} => fails < MaxFails
    /\ fails' = IF lost = {} THEN fails ELSE fails + 1
    /\ run' = [run EXCEPT !.clean = @ /\ lost = {}, !.keepProject = lost # {}]
AdapterFails(lost) == Lose(lost)

\* A container is made anew, or removed: what ran in it is over.
Recreate(S, to) ==
    /\ ctr' = [s \in Services |-> IF s \in S THEN to[s] ELSE ctr[s]]
    /\ app' = [s \in Services |-> IF s \in S THEN "none" ELSE app[s]]
    /\ sess' = [s \in Services |-> IF s \in S THEN "none" ELSE sess[s]]
    /\ bps' = [s \in Services |-> s \notin S /\ bps[s]]
    /\ listed' = [s \in Services |-> IF s \in S THEN "none" ELSE listed[s]]
    /\ strays' = strays \ S /\ seen' = seen \ S

Goto(next) == pc' = next

----------------------------------------------------------------------------
(***************************************************************************)
(* The surroundings.                                                       *)
(***************************************************************************)

\* docker compose up --force-recreate, or rm, by a user.
UserRecreates(s, to) ==
    /\ user < MaxUser /\ ctr[s] # to
    /\ user' = user + 1
    /\ Recreate({s}, [x \in {s} |-> to])
    /\ run' = [run EXCEPT !.clean = FALSE]
    /\ UNCHANGED <<late, files, pc, live, todo, entry, carry, had, runs, fails>>

\* A recreate that a run gave up on is done after all.
Land(s) ==
    /\ s \in late /\ ctr[s] # "fast"
    /\ late' = late \ {s}
    /\ Recreate({s}, [x \in {s} |-> "fast"])
    /\ UNCHANGED <<files, pc, run, live, todo, entry, carry, had, bounds>>

\* prepareContainerAttach: a container as built, whose process nobody debugs
\* (the claims refuse it otherwise).
Attachable(s) == ctr[s] = "built" /\ sess[s] = "none"

\* container.attach of the daemon, for one member.
AttachMember(s) == Attachable(s) /\ sess' = [sess EXCEPT ![s] = "attached"]

\* compose attach, with breakpoints or without.
Attach(s) ==
    /\ AttachMember(s)
    /\ \E b \in BOOLEAN : bps' = [bps EXCEPT ![s] = b]
    /\ UNCHANGED <<engine, files, pc, run, stage, bounds>>

\* groupMembers, liveMembers: the group's sessions that have not ended.
Members == {s \in Services : sess[s] # "none"}

\* compose bp add and rm: breakpoints of the caller, member by member.
BpAdd(s) ==
    /\ s \in Members /\ ~bps[s]
    /\ bps' = [bps EXCEPT ![s] = TRUE]
    /\ UNCHANGED <<engine, files, sess, pc, run, stage, bounds>>
BpRemove(s) ==
    /\ s \in Members /\ bps[s]
    /\ bps' = [bps EXCEPT ![s] = FALSE]
    /\ had' = IF pc \in {"stop", "stopping"} /\ s \in todo THEN had \ {s} ELSE had
    /\ UNCHANGED <<engine, files, sess, pc, run, live, todo, entry, seen, listed, carry, bounds>>

\* A session ends: a launched one's app with it, unless it is left behind.
EndSession(s, left) ==
    /\ sess' = [sess EXCEPT ![s] = "none"] /\ bps' = [bps EXCEPT ![s] = FALSE]
    /\ listed' = [listed EXCEPT ![s] = "none"]
    /\ app' = [app EXCEPT ![s] = "none"]
    /\ strays' = IF left THEN strays \cup {s} ELSE strays

\* compose stop, or a session that ends on its own; a stray app is left when
\* its debugger is lost.
SessionEnds(s, stray) ==
    /\ sess[s] # "none"
    /\ stray => sess[s] = "launched" /\ fails < MaxFails
    /\ EndSession(s, stray)
    /\ fails' = IF stray THEN fails + 1 ELSE fails
    /\ UNCHANGED <<ctr, late, files, pc, run, live, todo, entry, seen, carry, had, runs, user>>

----------------------------------------------------------------------------
(***************************************************************************)
(* A run.                                                                  *)
(***************************************************************************)

\* ComposePS: the project's containers.
ComposePS == {s \in Services : ctr[s] # "gone"}

\* selectServices: the named services, or all; those that run.
Selected(names) == names \cap ComposePS

\* takeLock: the run is the only one.  A recreate of an earlier run that was
\* given up on is taken to be over by then.
TakeLock ==
    /\ pc = "idle" /\ runs < MaxRuns
    /\ runs' = runs + 1
    /\ todo' = {} /\ entry' = {} /\ late' = {}
    /\ listed' = [s \in Services |-> "none"] /\ carry' = [s \in Services |-> FALSE] /\ had' = {}

\* composeLaunch, up to and with takeLock.
BeginLaunch(names, noBuild) ==
    /\ TakeLock /\ Selected(names) # {}
    /\ run' = [NoRun EXCEPT !.kind = "launch", !.noBuild = noBuild]
    /\ live' = Selected(names) /\ seen' = Selected(names)
    /\ Goto("classify")
    /\ UNCHANGED <<ctr, app, strays, files, daemon, fails, user>>

\* checkKind: in fast mode with this project's override, or as built.
Classifies(s) == Inspectable(s) /\ (ctr[s] = "built" \/ RecordedFast(s))

\* classify.  What can't be inspected, or is in fast mode without the
\* override to show for it, is refused; so is what fails its checks.
Classify ==
    /\ pc = "classify"
    /\ \E lost \in SUBSET live :
          /\ InspectFails(lost)
          /\ live' = {s \in live \ lost : Classifies(s)}
    /\ entry' = {s \in live' : ctr[s] = "built"}
    /\ Goto("settle")
    /\ UNCHANGED <<engine, files, daemon, todo, seen, listed, carry, had, runs, user>>

\* settle: another compose directory refuses a service; a bad breakpoint ends
\* the run.
Settle ==
    /\ pc = "settle"
    /\ \E lost \in {{}, live} : CorroborateFails(lost) /\ live' = live \ lost
    /\ Goto(IF live' = {} THEN "finish" ELSE "resolve")
    /\ UNCHANGED <<engine, files, daemon, todo, entry, seen, listed, carry, had, runs, user>>

\* resolveProjects: no project, or several, refuse a service.
ResolveProjects ==
    /\ pc = "resolve"
    /\ \E lost \in SUBSET live :
          /\ run.noBuild => lost = {}
          /\ ProjectFails(lost) \/ MountsFail(lost)
          /\ live' = live \ lost
    /\ Goto("build")
    /\ UNCHANGED <<engine, files, daemon, todo, entry, seen, listed, carry, had, runs, user>>

\* checkNoBuild: only a service in fast mode whose directory is not empty.
Relaunchable(s) == s \notin entry /\ build[s] # "none"

\* build, into the stage: nothing of the services changes.  Without a dotnet
\* host, a stage or a log there is none; the project directory is kept when a
\* build failed, for its log.
Build ==
    /\ pc = "build"
    /\ \E lost \in SUBSET live :
          /\ run.noBuild => lost = {}
          /\ PublishFails(lost) \/ (lost = live /\ Lose(live))
          /\ live' = {s \in live \ lost : run.noBuild => Relaunchable(s)}
    /\ Goto(IF live' = {} THEN "finish" ELSE "connect")
    /\ UNCHANGED <<engine, files, daemon, todo, entry, seen, listed, carry, had, runs, user>>

\* connect, and the list of the sessions.  From here on an interrupt no
\* longer stops the run.
Connect ==
    /\ pc = "connect"
    /\ \E lost \in {{}, live} : Lose(lost) /\ live' = live \ lost
    /\ listed' = sess /\ had' = {s \in live' : bps[s]}
    /\ todo' = live'
    /\ Goto(IF live' = {} THEN "finish" ELSE "stop")
    /\ UNCHANGED <<engine, files, daemon, entry, seen, carry, runs, user>>

\* capture: the caller's breakpoints; what can't be read is not carried.
CaptureNothing(s) == UNCHANGED <<carry, had, fails>>
Capture(s) ==
    \/ carry' = [carry EXCEPT ![s] = bps[s]] /\ UNCHANGED <<had, fails>>
    \/ /\ fails < MaxFails /\ fails' = fails + 1
       /\ had' = had \ {s} /\ UNCHANGED carry

\* carryAndStop, and stopSessions of a restore, which carries nothing: one
\* service, whose session is read and then stopped; one that has ended by
\* then is neither.
CarryAndStop(s) ==
    /\ pc = "stop" /\ s \in todo
    /\ todo' = todo \ {s}
    /\ IF s \in live /\ listed[s] # "none"
       THEN /\ IF run.kind = "launch" THEN Capture(s) ELSE UNCHANGED <<carry, had, fails>>
            /\ run' = [run EXCEPT !.at = s] /\ Goto("stopping")
       ELSE had' = had \ {s} /\ UNCHANGED <<carry, fails, run, pc>>
    /\ UNCHANGED <<engine, files, daemon, live, entry, seen, listed, runs, user>>

\* A session that refuses to end takes its service out of the run.
RefusedGoesOn(s) == live' = live
Refused(s) == live' = live \ {s}

\* stopSession: it ends, the app with it; one that is gone is fine.
StopSession ==
    /\ pc = "stopping"
    /\ Goto("stop")
    /\ \/ listed[run.at] # "none" /\ EndSession(run.at, FALSE) /\ UNCHANGED <<live, fails, run>>
       \/ listed[run.at] = "none" /\ UNCHANGED <<daemon, app, strays, live, listed, fails, run>>
       \/ /\ listed[run.at] # "none" /\ Refused(run.at) /\ Lose({run.at})
          /\ UNCHANGED <<daemon, app, strays, listed>>
    /\ UNCHANGED <<ctr, late, files, todo, entry, seen, carry, had, runs, user>>

Stopped ==
    /\ pc = "stop" /\ todo = {}
    /\ todo' = live
    /\ Goto(IF run.kind = "restore" THEN "restore" ELSE
            IF run.noBuild THEN "launch" ELSE "mirror")
    /\ UNCHANGED <<engine, files, daemon, run, live, entry, seen, listed, carry, had, bounds>>

\* mirror: Mirror scans the stage first, then removes and copies file by
\* file; one service after the other.
MirrorBegin(s) ==
    /\ pc = "mirror" /\ s \in todo
    /\ todo' = todo \ {s}
    /\ \/ /\ build' = [build EXCEPT ![s] = "half"]
          /\ run' = [run EXCEPT !.at = s] /\ Goto("mirroring")
          /\ UNCHANGED <<live, fails>>
       \/ /\ Lose({s}) /\ live' = live \ {s}
          /\ UNCHANGED <<build, pc>>
    /\ UNCHANGED <<engine, rec, daemon, entry, seen, listed, carry, had, runs, user>>

\* The copy is through, or failed half way: that service is never launched.
MirrorFailedGoesOn(s) == live' = live
MirrorFailed(s) == live' = live \ {s}

MirrorEnd ==
    /\ pc = "mirroring"
    /\ Goto("mirror")
    /\ \/ build' = [build EXCEPT ![run.at] = "ok"] /\ UNCHANGED <<live, fails, run>>
       \/ Lose({run.at}) /\ MirrorFailed(run.at) /\ UNCHANGED build
    /\ UNCHANGED <<engine, rec, daemon, todo, entry, seen, listed, carry, had, runs, user>>

Entering == live \cap entry

\* fragmentOf, stayingFragments: a service in fast mode stays recorded when
\* its labels are, and its build is there.
StayingNone(skip) == {}
StayingFragments(skip) ==
    {s \in FastContainers \ skip : RecordedFast(s) /\ build[s] # "none"}

\* recreate, as far as the override: the entering services' fragments and the
\* staying ones'.  Without the list, the entering ones are out; one whose
\* container can't be inspected has no fragment.
WriteOverride ==
    /\ pc = "mirror" /\ todo = {}
    /\ IF Entering = {}
       THEN /\ Goto("launch") /\ todo' = live
            /\ UNCHANGED <<rec, live, fails, run>>
       ELSE \/ \E lost \in SUBSET StayingFragments(Entering) :
                  /\ Lose(lost)
                  /\ rec' = Entering \cup (StayingFragments(Entering) \ lost)
                  /\ Goto("up") /\ UNCHANGED <<live, todo>>
            \/ /\ DockerFails(Entering) /\ live' = live \ Entering
               /\ Goto("launch") /\ todo' = live'
               /\ UNCHANGED rec
    /\ UNCHANGED <<engine, build, daemon, entry, seen, listed, carry, had, runs, user>>

\* ComposeUp: of those that fail, some are recreated or removed all the same.
ComposeUp(S, failed, kind) ==
    /\ failed # {} => fails < MaxFails
    /\ fails' = IF failed = {} THEN fails ELSE fails + 1
    /\ run' = [run EXCEPT !.clean = @ /\ failed = {}, !.upFailed = failed # {}]
    /\ live' = live \ failed
    /\ \E done \in SUBSET failed : \E to \in [done -> {kind, "gone"}] :
          Recreate(done \cup (S \ failed),
                   [s \in S |-> IF s \in done THEN to[s] ELSE kind])

\* up: one ComposeUp per list of compose files.  What failed may be recreated
\* yet.
Up ==
    /\ pc = "up"
    /\ \E failed \in SUBSET Entering :
          ComposeUp(Entering, failed, "fast") /\ late' = failed
    /\ Goto("refresh")
    /\ UNCHANGED <<files, todo, entry, carry, had, runs, user>>

\* refresh: the recreated services' new containers.
Refresh ==
    /\ pc = "refresh"
    /\ \E lost \in {{}, Entering} :
          /\ DockerFails(lost)
          /\ live' = {s \in live \ lost : s \in entry => RecordedFast(s)}
    /\ seen' = seen \cup Entering
    /\ todo' = live'
    /\ Goto("launch")
    /\ UNCHANGED <<engine, files, daemon, entry, listed, carry, had, runs, user>>

\* strayGuard: a container in which an app runs is refused; a docker top that
\* fails lets the launch proceed, with a warning.
StrayGuardOff(s, topFails) == TRUE
StrayGuard(s, topFails) == topFails \/ (s \notin strays /\ app[s] = "none")

\* container.launch of one member: the container this run inspected, in fast
\* mode, that no session has claimed and no app was found in.
Launchable(s, topFails) ==
    Inspectable(s) /\ ctr[s] = "fast" /\ sess[s] = "none" /\ StrayGuard(s, topFails)

\* breakpointsFor: what was carried, unless its file is gone by now.
LaunchMember(s, topFails) ==
    /\ Launchable(s, topFails)
    /\ topFails => fails < MaxFails
    /\ fails' = IF topFails THEN fails + 1 ELSE fails
    /\ sess' = [sess EXCEPT ![s] = "launched"]
    /\ app' = [app EXCEPT ![s] = "session"]
    /\ \/ bps' = [bps EXCEPT ![s] = carry[s]] /\ UNCHANGED user
       \/ /\ carry[s] /\ user < MaxUser /\ user' = user + 1
          /\ bps' = [bps EXCEPT ![s] = FALSE]

\* launch: the service's batch, with the breakpoints that were carried.
Launch(s) ==
    /\ pc = "launch" /\ s \in todo
    /\ todo' = todo \ {s}
    /\ \/ \E topFails \in BOOLEAN : LaunchMember(s, topFails) /\ UNCHANGED <<live, run>>
       \/ /\ ~Launchable(s, FALSE) /\ live' = live \ {s}
          /\ UNCHANGED <<daemon, app, fails, run, user>>
       \/ /\ Launchable(s, FALSE) /\ AdapterFails({s}) /\ live' = live \ {s}
          /\ UNCHANGED <<daemon, app, user>>
    /\ UNCHANGED <<ctr, strays, late, files, pc, entry, seen, listed, carry, had, runs>>

Launched ==
    /\ pc = "launch" /\ todo = {}
    /\ Goto("finish")
    /\ UNCHANGED <<engine, files, daemon, run, stage, bounds>>

----------------------------------------------------------------------------
(***************************************************************************)
(* compose restore.                                                        *)
(***************************************************************************)

\* composeRestore, pick: the named services in fast mode, or all of them.
BeginRestore(names) ==
    /\ TakeLock
    /\ \E found \in BOOLEAN :
          /\ ~found => fails < MaxFails
          /\ fails' = IF found THEN fails ELSE fails + 1
          /\ run' = [NoRun EXCEPT !.kind = "restore", !.all = names = Services, !.clean = found,
                                  !.foundFast = found /\ FastContainers # {}]
          /\ live' = IF found THEN names \cap FastContainers ELSE {}
          /\ Goto(IF found THEN "inspect" ELSE "finish")
    /\ seen' = live'
    /\ UNCHANGED <<ctr, app, strays, files, daemon, user>>

\* inspect, then stopSessions as far as the list: no daemon, no sessions.
InspectAndList ==
    /\ pc = "inspect"
    /\ \E lost \in SUBSET live :
          /\ InspectFails(lost)
          /\ live' = {s \in live \ lost : Inspectable(s)}
    /\ listed' = sess /\ todo' = live'
    /\ Goto("stop")
    /\ UNCHANGED <<engine, files, daemon, entry, seen, carry, had, runs, user>>

\* up, without the override and until they are healthy.
UpAsBuilt ==
    /\ pc = "restore"
    /\ \E failed \in SUBSET live : ComposeUp(live, failed, "built")
    /\ Goto("rewrite")
    /\ UNCHANGED <<late, files, todo, entry, carry, had, runs, user>>

\* rewriteOverride, when something was restored: an empty one is not written.
RewriteOverride ==
    /\ pc = "rewrite"
    /\ LET frags == StayingFragments({})
           due   == ~run.upFailed /\ live # {}
       IN  \E lost \in SUBSET frags :
              /\ ~due => lost = {}
              /\ Lose(lost)
              /\ rec' = IF due /\ frags # lost THEN frags \ lost ELSE rec
    /\ Goto("finish")
    /\ UNCHANGED <<engine, build, daemon, stage, runs, user>>

----------------------------------------------------------------------------

\* holdsMounted: something a container could have mounted.
HoldsMounted == rec # {} \/ \E s \in Services : build[s] # "none"

\* Does the run tidy eyedbg's files?  A launch always; a restore when it found
\* something in fast mode, or nothing is there to be mounted; neither after a
\* recreate that failed.
PruneDueRegardless ==
    run.kind = "restore" => run.foundFast \/ ~HoldsMounted
PruneDueNow ==
    ~run.upFailed /\ (run.kind = "restore" => FastContainers # {} \/ ~HoldsMounted)
PruneDue ==
    ~run.upFailed /\ (run.kind = "restore" => run.foundFast \/ ~HoldsMounted)

\* PruneServices: the builds of services not in fast mode go.
PruneServices == [s \in Services |-> IF s \in FastContainers THEN build[s] ELSE "none"]

\* prune, RemoveProjectDir and release.
Finish ==
    /\ pc = "finish"
    /\ \/ /\ PruneDue
          /\ build' = PruneServices
          /\ rec' = IF FastContainers = {} /\ ~run.keepProject THEN {} ELSE rec
          /\ UNCHANGED fails
       \/ ~PruneDue /\ UNCHANGED <<files, fails>>
       \/ /\ PruneDue /\ fails < MaxFails /\ fails' = fails + 1  \* the list can't be read
          /\ UNCHANGED files
    /\ Goto("idle") /\ run' = NoRun
    /\ UNCHANGED <<engine, daemon, stage, runs, user>>

\* The run is killed; what it asked docker for may go on.  Its lock is taken
\* over by the next run, once it is old.
Kill ==
    /\ pc # "idle" /\ fails < MaxFails
    /\ fails' = fails + 1
    /\ late' = IF pc = "up" THEN Entering ELSE late
    /\ Goto("idle") /\ run' = NoRun
    /\ UNCHANGED <<ctr, app, strays, files, daemon, stage, runs, user>>

Init ==
    /\ ctr = [s \in Services |-> "built"] /\ app = [s \in Services |-> "none"]
    /\ strays = {} /\ late = {}
    /\ rec = {} /\ build = [s \in Services |-> "none"]
    /\ sess = [s \in Services |-> "none"] /\ bps = [s \in Services |-> FALSE]
    /\ pc = "idle" /\ run = NoRun
    /\ live = {} /\ todo = {} /\ entry = {} /\ seen = {}
    /\ listed = [s \in Services |-> "none"] /\ carry = [s \in Services |-> FALSE]
    /\ had = {} /\ runs = 0 /\ fails = 0 /\ user = 0

Next ==
    \/ \E s \in Services :
          \/ \E to \in {"built", "gone"} : UserRecreates(s, to)
          \/ Land(s) \/ Attach(s) \/ BpAdd(s) \/ BpRemove(s)
          \/ \E stray \in BOOLEAN : SessionEnds(s, stray)
          \/ CarryAndStop(s) \/ MirrorBegin(s) \/ Launch(s)
    \/ \E names \in SUBSET Services \ {{}} :
          \/ \E noBuild \in NoBuilds : BeginLaunch(names, noBuild)
          \/ BeginRestore(names)
    \/ Classify \/ Settle \/ ResolveProjects \/ Build \/ Connect \/ StopSession \/ Stopped
    \/ MirrorEnd \/ WriteOverride \/ Up \/ Refresh \/ Launched
    \/ InspectAndList \/ UpAsBuilt \/ RewriteOverride \/ Finish \/ Kill

Spec == Init /\ [][Next]_vars

----------------------------------------------------------------------------
(***************************************************************************)
(* Properties.                                                             *)
(***************************************************************************)

\* "A service directory lives while some container of the project carries its
\* label" (ADR 0021, D17): whatever fails or is killed, a container in fast
\* mode has its build; and as long as nothing failed the override records it,
\* so that a later launch or restore believes its labels.
MountedKept ==
    \A s \in FastContainers : build[s] # "none" /\ (fails = 0 => s \in rec)

\* "The old app is stopped before its files are replaced" (execute): no run
\* touches the files a session's app runs from, whatever refused.  An app is
\* launched only where no other one runs, unless docker top failed in this
\* very launch; from a complete build, unless --no-build asked for the files
\* as they are; and with the breakpoints the service's session had when the
\* run listed it, unless it ended or they were removed before they were read,
\* the read failed, or their file is gone at this launch.
Starts(s) == app'[s] = "session" /\ app[s] # "session"
OldAppStopped ==
    [][ \A s \in Services :
          /\ build'[s] # build[s] => app[s] # "session"
          /\ Starts(s) => /\ s \notin strays \/ fails' # fails
                          /\ run.noBuild \/ build[s] = "ok"
                          /\ s \in had => bps'[s] \/ user' # user ]_vars

\* The same without an excuse: "a service whose files could not be replaced is
\* never launched" (execute), nor by a later run until they were.
NeverRunsHalf == [][ \A s \in Services : Starts(s) => build[s] = "ok" ]_vars

\* A restore of everything that meets no failure leaves nothing of fast mode.
RestoreComplete ==
    [][ (pc = "finish" /\ pc' = "idle" /\ fails' = fails
         /\ run.kind = "restore" /\ run.all /\ run.clean /\ run.foundFast)
        => /\ \A s \in Services : ctr'[s] # "fast" /\ build'[s] = "none"
           /\ rec' = {} ]_vars
=============================================================================
