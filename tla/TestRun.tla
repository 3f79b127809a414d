------------------------------ MODULE TestRun ------------------------------
(***************************************************************************)
(* A test session with a runner (internal/session/testrun.go, and what     *)
(* drivers/dotnet/testrun.go decides): `dotnet test` is started and its    *)
(* output pumped, the test host it names is attached to, and the session   *)
(* ends with the runner, while a client may stop it at any point of its    *)
(* start.  m.run, m.fail, terminate and shutdownAdapter are modelled as    *)
(* far as a test session takes them.                                       *)
(*                                                                         *)
(* Left out: execution and breakpoints (SessionExec, Breakpoints), later   *)
(* hosts of one run (told as not debugged), the output's text.             *)
(***************************************************************************)
EXTENDS Naturals, Sequences

CONSTANTS
    MaxLines,    \* bound: lines a runner prints
    MaxTrouble   \* bound: failures of a start, timeouts, an adapter that dies

Enders == {"stop", "fail"}   \* who calls terminate: a client, a failed start

VARIABLES
    \* the operating system (external)
    runner,    \* "none", "runs", "exited", "killed"
    pipe,      \* lines it printed that the pump has not read
    printed,
    adapter,   \* "none", "up", "down"
    said,      \* has the adapter output that is not handled yet?
    \* the session
    state, stopReason, reason, cmdSet, code, started, ended,
    hostPID,   \* the channel: "none", "sent" or "taken"
    missed,    \* was output logged after the session ended?
    \* the manager
    mapped, meta,
    \* the goroutines
    spc,       \* startTest
    wpc,       \* watchRunner
    tpc,       \* terminate, by each ender
    watching,  \* m.watch
    trouble, late

os      == <<runner, pipe, printed, adapter, said>>
session == <<state, stopReason, reason, cmdSet, code, started, ended, hostPID, missed>>
manager == <<mapped, meta>>
threads == <<spc, wpc, tpc, watching>>
vars    == <<os, session, manager, threads, trouble, late>>

Trouble == trouble < MaxTrouble /\ trouble' = trouble + 1

----------------------------------------------------------------------------
(***************************************************************************)
(* The runner, its host and the adapter (external).                        *)
(***************************************************************************)

Prints(l) ==
    /\ runner = "runs" /\ printed < MaxLines
    /\ printed' = printed + 1 /\ pipe' = Append(pipe, l)
    /\ UNCHANGED <<runner, adapter, said, session, manager, threads, trouble, late>>

RunnerExits ==
    /\ runner = "runs"
    /\ runner' = "exited"
    /\ UNCHANGED <<pipe, printed, adapter, said, session, manager, threads, trouble, late>>

AdapterSays ==
    /\ adapter = "up" /\ ~said /\ state = "running"
    /\ said' = TRUE
    /\ UNCHANGED <<runner, pipe, printed, adapter, session, manager, threads, trouble, late>>

\* The adapter goes away: it was disconnected from, its host is gone, or it
\* dies.  What it said comes before its end of stream.
AdapterGone ==
    /\ adapter = "up" /\ ~said
    /\ \/ ended \/ runner \in {"exited", "killed"}
       \/ Trouble
    /\ (ended \/ runner \in {"exited", "killed"}) => UNCHANGED trouble
    /\ adapter' = "down"
    /\ UNCHANGED <<runner, pipe, printed, said, session, manager, threads, late>>

----------------------------------------------------------------------------
(***************************************************************************)
(* The session.                                                            *)
(***************************************************************************)

\* endLocked: once; a stop's reason wins, and the adapter is shut down.
EndLocked(why) ==
    IF state = "exited" THEN UNCHANGED <<state, reason, ended>> ELSE
    /\ state' = "exited"
    /\ reason' = IF stopReason # "" THEN stopReason ELSE why
    /\ ended' = (ended \/ adapter # "none")

\* onEvent: output is logged.
Logs == missed' = (missed \/ state = "exited")

OnOutput ==
    /\ adapter = "up" /\ said
    /\ said' = FALSE /\ Logs
    /\ UNCHANGED <<runner, pipe, printed, adapter, state, stopReason, reason, cmdSet, code,
                   started, ended, hostPID, manager, threads, trouble, late>>

\* onEvent, a terminated host: its adapter is shut down, the session goes on.
OnTerminated ==
    /\ adapter = "up" /\ ~ended /\ runner # "none"
    /\ ended' = TRUE
    /\ UNCHANGED <<os, state, stopReason, reason, cmdSet, code, started, hostPID, missed,
                   manager, threads, trouble, late>>

\* pump: a line is logged, the first host's pid goes to the start.
Pump ==
    /\ wpc = "pumps" /\ pipe # <<>>
    /\ pipe' = Tail(pipe) /\ Logs
    /\ hostPID' = IF Head(pipe) = "pid" /\ hostPID = "none" THEN "sent" ELSE hostPID
    /\ UNCHANGED <<runner, printed, adapter, said, state, stopReason, reason, cmdSet, code,
                   started, ended, manager, threads, trouble, late>>

\* killRunner: a runner that was started and is not known to have exited.
KillRunner == runner' = IF cmdSet /\ code = "none" /\ runner = "runs" THEN "killed" ELSE runner

\* watchRunner: once all output is read and the runner is waited for.
PumpsDone == pipe = <<>>

WatchRunner ==
    /\ wpc = "pumps" /\ runner \in {"exited", "killed"} /\ PumpsDone
    /\ code' = runner
    /\ wpc' = IF started THEN "await" ELSE "done"
    /\ UNCHANGED <<os, state, stopReason, reason, cmdSet, started, ended, hostPID, missed,
                   manager, spc, tpc, watching, trouble, late>>

\* awaitAdapter, at most shutdownTimeout.
AwaitsNothing == UNCHANGED <<trouble, late>>
AwaitAdapter ==
    \/ adapter \in {"none", "down"} /\ UNCHANGED <<trouble, late>>
    \/ adapter = "up" /\ Trouble /\ late' = TRUE

\* finishRun: the runner's exit ends the session.
FinishRun == IF code = "none" THEN UNCHANGED <<state, reason, ended>> ELSE EndLocked("finished")

WatchAwaits ==
    /\ wpc = "await" /\ AwaitAdapter
    /\ wpc' = "finish"
    /\ UNCHANGED <<os, session, manager, spc, tpc, watching>>

WatchFinishes ==
    /\ wpc = "finish" /\ FinishRun
    /\ wpc' = "done"
    /\ UNCHANGED <<os, stopReason, cmdSet, code, started, hostPID, missed, manager,
                   spc, tpc, watching, trouble, late>>

----------------------------------------------------------------------------
(***************************************************************************)
(* terminate, by a client's stop or by the failure of the start.           *)
(***************************************************************************)

\* session.stop finds the session while it is in the manager's map.
StopBegins ==
    /\ tpc["stop"] = "idle" /\ mapped
    /\ tpc' = [tpc EXCEPT !["stop"] = "flag"]
    /\ UNCHANGED <<os, session, manager, spc, wpc, watching, trouble, late>>

\* m.fail, from the start's goroutine.
Fail == spc' = "failing" /\ tpc' = [tpc EXCEPT !["fail"] = "flag"]

Flag(e) ==
    /\ tpc[e] = "flag"
    /\ stopReason' = IF state # "exited" /\ stopReason = "" THEN e ELSE stopReason
    /\ tpc' = [tpc EXCEPT ![e] = "kill"]
    /\ UNCHANGED <<os, state, reason, cmdSet, code, started, ended, hostPID, missed,
                   manager, spc, wpc, watching, trouble, late>>

TerminateKills(e) ==
    /\ tpc[e] = "kill"
    /\ KillRunner
    /\ tpc' = [tpc EXCEPT ![e] = "shutdown"]
    /\ UNCHANGED <<pipe, printed, adapter, said, session, manager, spc, wpc, watching,
                   trouble, late>>

\* shutdownAdapter, by one caller only; it waits for the adapter to go, or
\* kills it.
ShutdownAdapter(e) ==
    /\ tpc[e] = "shutdown"
    /\ IF ended \/ adapter = "none"
       THEN UNCHANGED ended /\ tpc' = [tpc EXCEPT ![e] = "end"]
       ELSE ended' = TRUE /\ tpc' = [tpc EXCEPT ![e] = "closing"]
    /\ UNCHANGED <<os, state, stopReason, reason, cmdSet, code, started, hostPID, missed,
                   manager, spc, wpc, watching, trouble, late>>

ShutdownEnds(e) ==
    /\ tpc[e] = "closing" /\ adapter = "down"
    /\ tpc' = [tpc EXCEPT ![e] = "end"]
    /\ UNCHANGED <<os, session, manager, spc, wpc, watching, trouble, late>>

TerminateEnds(e) ==
    /\ tpc[e] = "end"
    /\ EndLocked(e)
    /\ tpc' = [tpc EXCEPT ![e] = "remove"]
    /\ UNCHANGED <<os, stopReason, cmdSet, code, started, hostPID, missed, manager,
                   spc, wpc, watching, trouble, late>>

\* stop forgets what it unmapped itself; fail removes and forgets.
Forgets(e) ==
    /\ tpc[e] = "remove"
    /\ mapped' = FALSE
    /\ meta' = IF mapped \/ e = "fail" THEN FALSE ELSE meta
    /\ tpc' = [tpc EXCEPT ![e] = "done"]
    /\ spc' = IF e = "fail" THEN "failed" ELSE spc
    /\ UNCHANGED <<os, session, wpc, watching, trouble, late>>

----------------------------------------------------------------------------
(***************************************************************************)
(* startTest.                                                              *)
(***************************************************************************)

\* What a project may have: "found", with an adapter and an SDK for it;
\* "vstest", that it uses VSTest; what detectLaunch looks for; and what its
\* build says of it.
Markers  == {"runner", "xunit", "property", "sdk", "tunit"}
Projects == SUBSET (Markers \cup {"found", "vstest", "built", "selfHosting"})

\* detectLaunch: a marker, before any build.
DetectLaunch(project) == \E m \in project \cap Markers : m = "sdk" => "vstest" \notin project

\* decideLaunchTarget: the build has an output, which hosts its own tests.
LaunchTarget(project) == {"built", "selfHosting"} \subseteq project

\* A self-hosting test app the build confirms is launched as any program.
TestCommand(project) ==
    IF "found" \notin project THEN "refused"
    ELSE IF ~DetectLaunch(project) THEN "runner"
    ELSE IF LaunchTarget(project) THEN "launch" ELSE "refused"

\* With a runner, arguments after "--" are refused; its session is shared
\* before anything runs.
StartTest(args) ==
    /\ spc = "begin"
    /\ \E how \in {TestCommand(project) : project \in Projects} :
          IF how = "runner" /\ ~args
          THEN spc' = "start" /\ mapped' = TRUE /\ meta' = TRUE
          ELSE /\ spc' = IF how = "launch" THEN "launched" ELSE "failed"
               /\ UNCHANGED manager
    /\ UNCHANGED <<os, session, wpc, tpc, watching, trouble, late>>

\* startRunner: the process ...
StartRunner ==
    /\ spc = "start"
    /\ \/ runner' = "runs" /\ spc' = "set" /\ UNCHANGED <<tpc, trouble>>
       \/ Trouble /\ Fail /\ UNCHANGED runner
    /\ UNCHANGED <<pipe, printed, adapter, said, session, manager, wpc, watching, late>>

\* ... then cmd, for those who kill it; a stop that came first found none.
KillIfStopped == state = "exited"
SetCmd ==
    /\ spc = "set"
    /\ cmdSet' = TRUE /\ wpc' = "pumps"
    /\ IF KillIfStopped
       THEN Fail /\ runner' = IF runner = "runs" THEN "killed" ELSE runner
       ELSE spc' = "wait" /\ UNCHANGED <<tpc, runner>>
    /\ UNCHANGED <<pipe, printed, adapter, said, state, stopReason, reason, code, started,
                   ended, hostPID, missed, manager, watching, trouble, late>>

\* waitHostPID: the host's pid, the runner's exit, the session's end or the
\* request's deadline.
WaitHostPID ==
    /\ spc = "wait"
    /\ \/ /\ hostPID = "sent" /\ state # "exited"
          /\ hostPID' = "taken" /\ spc' = "prepare" /\ UNCHANGED <<tpc, trouble>>
       \/ /\ code # "none" \/ state = "exited"
          /\ Fail /\ UNCHANGED <<hostPID, trouble>>
       \/ Trouble /\ Fail /\ UNCHANGED hostPID
    /\ UNCHANGED <<os, state, stopReason, reason, cmdSet, code, started, ended, missed,
                   manager, wpc, watching, late>>

\* prepareHost, and run's check of the breakpoints' paths.
PrepareHost ==
    /\ spc = "prepare"
    /\ \/ runner = "runs" /\ spc' = "adapter" /\ UNCHANGED <<tpc, trouble>>
       \/ runner # "runs" /\ Fail /\ UNCHANGED trouble
       \/ Trouble /\ Fail
    /\ UNCHANGED <<os, session, manager, wpc, watching, late>>

\* run: startAdapter ...
StartAdapter ==
    /\ spc = "adapter"
    /\ \/ adapter' = "up" /\ spc' = "check" /\ UNCHANGED <<tpc, trouble>>
       \/ Trouble /\ Fail /\ UNCHANGED adapter
    /\ UNCHANGED <<runner, pipe, printed, said, session, manager, wpc, watching, late>>

\* ... then a session that was stopped meanwhile fails ...
ChecksNothing == FALSE
StoppedMeanwhile == state = "exited"
CheckStopped ==
    /\ spc = "check"
    /\ IF StoppedMeanwhile THEN Fail ELSE spc' = "add" /\ UNCHANGED tpc
    /\ UNCHANGED <<os, session, manager, wpc, watching, trouble, late>>

\* ... is shared (again), saved ...
AddAgain ==
    /\ spc = "add"
    /\ mapped' = TRUE /\ meta' = TRUE
    /\ spc' = "configure"
    /\ UNCHANGED <<os, session, wpc, tpc, watching, trouble, late>>

\* ... and configured: the attach needs the host, ...
Configure ==
    /\ spc = "configure"
    /\ \/ adapter = "up" /\ runner = "runs" /\ spc' = "attached" /\ UNCHANGED <<tpc, trouble>>
       \/ (adapter = "down" \/ runner # "runs") /\ Fail /\ UNCHANGED trouble
       \/ Trouble /\ Fail
    /\ UNCHANGED <<os, session, manager, wpc, watching, late>>

\* ... the rest the adapter.
ConfigurationDone ==
    /\ spc = "attached"
    /\ \/ /\ adapter = "up" /\ spc' = "mark" /\ watching' = TRUE
          /\ state' = IF state = "starting" THEN "running" ELSE state
          /\ UNCHANGED <<tpc, trouble>>
       \/ /\ adapter = "down" /\ Fail /\ UNCHANGED <<state, watching, trouble>>
       \/ /\ Trouble /\ Fail /\ UNCHANGED <<state, watching>>
    /\ UNCHANGED <<os, stopReason, reason, cmdSet, code, started, ended, hostPID, missed,
                   manager, wpc, late>>

\* The start is through.  From here on watchRunner ends the session; when the
\* runner exited before, the start does.
FinishedNever == FALSE
FinishedMeanwhile == code # "none"
MarkStarted ==
    /\ spc = "mark"
    /\ started' = TRUE
    /\ spc' = IF FinishedMeanwhile THEN "await" ELSE "ok"
    /\ UNCHANGED <<os, state, stopReason, reason, cmdSet, code, ended, hostPID, missed,
                   manager, wpc, tpc, watching, trouble, late>>

StartAwaits ==
    /\ spc = "await" /\ AwaitAdapter
    /\ spc' = "finish"
    /\ UNCHANGED <<os, session, manager, wpc, tpc, watching>>

StartFinishes ==
    /\ spc = "finish" /\ FinishRun
    /\ spc' = "ok"
    /\ UNCHANGED <<os, stopReason, cmdSet, code, started, hostPID, missed, manager,
                   wpc, tpc, watching, trouble, late>>

\* m.watch: the final state of a session that is still mapped is saved.
Watch ==
    /\ watching /\ state = "exited"
    /\ watching' = FALSE
    /\ meta' = (meta \/ mapped)
    /\ UNCHANGED <<os, session, mapped, spc, wpc, tpc, trouble, late>>

----------------------------------------------------------------------------

Init ==
    /\ runner = "none" /\ pipe = <<>> /\ printed = 0 /\ adapter = "none" /\ said = FALSE
    /\ state = "starting" /\ stopReason = "" /\ reason = "" /\ cmdSet = FALSE
    /\ code = "none" /\ started = FALSE /\ ended = FALSE /\ hostPID = "none" /\ missed = FALSE
    /\ mapped = FALSE /\ meta = FALSE
    /\ spc = "begin" /\ wpc = "off" /\ tpc = [e \in Enders |-> "idle"] /\ watching = FALSE
    /\ trouble = 0 /\ late = FALSE

Start ==
    \/ \E args \in BOOLEAN : StartTest(args)
    \/ StartRunner \/ SetCmd \/ WaitHostPID \/ PrepareHost \/ StartAdapter
    \/ CheckStopped \/ AddAgain \/ Configure \/ ConfigurationDone
    \/ MarkStarted \/ StartAwaits \/ StartFinishes

Terminate(e) ==
    Flag(e) \/ TerminateKills(e) \/ ShutdownAdapter(e) \/ ShutdownEnds(e)
    \/ TerminateEnds(e) \/ Forgets(e)

Watcher == Pump \/ WatchRunner \/ WatchAwaits \/ WatchFinishes

Next ==
    \/ \E l \in {"pid", "text"} : Prints(l)
    \/ RunnerExits \/ AdapterSays \/ AdapterGone \/ OnOutput \/ OnTerminated
    \/ Watcher \/ StopBegins \/ Start \/ Watch
    \/ \E e \in Enders : Terminate(e)

\* Goroutines run, a request is answered or its deadline passes, an adapter
\* goes once its host did or it is told to, and a runner's output is read.
\* Nothing makes a runner exit.
Fairness ==
    /\ WF_vars(Start) /\ WF_vars(Watcher) /\ WF_vars(Watch)
    /\ \A e \in Enders : WF_vars(Terminate(e))
    /\ WF_vars((ended \/ runner \in {"exited", "killed"}) /\ AdapterGone)
    /\ WF_vars(OnOutput)

Spec == Init /\ [][Next]_vars /\ Fairness

----------------------------------------------------------------------------
(***************************************************************************)
(* Properties.                                                             *)
(***************************************************************************)

\* A session that ends by its runner's exit did start, and has all the output
\* of the runner and its host before its end, unless the adapter lingered
\* past shutdownTimeout (awaitAdapter, watchRunner).
FinishedComplete ==
    reason = "finished" =>
        /\ runner \in {"exited", "killed"} /\ started
        /\ late \/ (~said /\ pipe = <<>> /\ ~missed)

\* A failed start leaves nothing: no runner, no session, no metadata.  And of
\* a session that ended, by a stop at any point of its start or otherwise, no
\* adapter is left that nobody shuts down (run's check, endLocked).
NothingLeft ==
    /\ spc = "failed" => runner # "runs" /\ ~mapped /\ ~meta
    /\ state = "exited" /\ spc \in {"ok", "failed"} /\ adapter = "up" => ended

\* However a test run ends, by itself, by a stop or in the middle of its
\* start, it tells all it said and leaves nothing (testrun.go).
RunComplete == FinishedComplete /\ NothingLeft

\* A started test session ends once its runner exited, whichever of them came
\* first, and a failed start is over.
RunEnds ==
    /\ (started /\ runner = "exited") ~> state = "exited"
    /\ spc = "failing" ~> spc = "failed"
=============================================================================
