---------------------------- MODULE FacadeLaunch ----------------------------
(***************************************************************************)
(* A launch connection (internal/facade/launch.go, terminal.go): an editor *)
(* whose DAP launch starts a session through Manager.Launch, with the      *)
(* hooks that bind the session, wait for the editor's configuration and    *)
(* run the program in its terminal (session/launch.go, session.configure). *)
(*                                                                         *)
(* The goroutines are the reader, the ordered worker, the launch           *)
(* goroutine, one per terminate that stops a running launch, and the one   *)
(* that serves the adapter's runInTerminal.                                *)
(***************************************************************************)
EXTENDS Naturals, Sequences

CONSTANTS
    MaxBps,        \* bound: setBreakpoints requests
    MaxTerminates  \* bound: terminate requests

ASSUME LaunchAssumption == MaxBps \in Nat /\ MaxTerminates \in Nat

VARIABLES
    launchPhase,  \* connection.phase, from initialized on
    launchReader, \* "read", "done" (returned), "closed" (Serve has returned)
    launchQueue,  \* the ordered worker's requests
    leaving,      \* view.leaving
    lpc,          \* the launch goroutine
    ok,           \* Manager.Launch is returning a session
    lcancel,      \* launchState.cancel was called
    startFail,    \* the start's context was ended by a failed terminal
    launched,     \* launchState.launched is set
    configured,   \* launchState.configured is closed
    stop,         \* a terminate's goroutine
    terminates,   \* terminate requests taken
    term,         \* the start's terminal: its route and its one request
    sess,         \* the session, as the manager knows it
    leaseLost,    \* another client took the session's lease
    bpsAsked,     \* setBreakpoints requests taken
    placed,       \* and how many of them the session has
    wanted,       \* history: asked, when the first configurationDone came
    answers       \* history: the last answer to launch and to terminate

connVars == <<launchPhase, launchReader, launchQueue, leaving>>
launchVars == <<lpc, ok, lcancel, startFail, launched, configured>>
sessVars == <<sess, leaseLost, placed>>
histVars == <<wanted, answers>>
launchConnVars ==
    <<connVars, launchVars, stop, terminates, term, sessVars, bpsAsked, histVars>>

Known == sess \in {"starting", "running", "exited"}
\* The launch's context, and the start's: a terminate's cancel, the
\* connection's end, and for the start a failed terminal.
LctxDone == lcancel \/ launchReader # "read"
StartDone == LctxDone \/ startFail

----------------------------------------------------------------------------
(***************************************************************************)
(* The reader.                                                             *)
(***************************************************************************)

\* startLaunch, with arguments launchParams took; once.
StartLaunch(terminal) ==
    /\ launchReader = "read" /\ launchPhase = "initialized" /\ lpc = "none"
    /\ launchPhase' = "launching"
    /\ lpc' = "prepare"
    /\ term' = IF terminal THEN "open" ELSE "off"
    /\ answers' = [answers EXCEPT !.terminate = "none"]
    /\ UNCHANGED <<launchReader, launchQueue, leaving, ok, lcancel, startFail, launched,
                   configured, stop, terminates, sessVars, bpsAsked, wanted>>

SetBreakpoints ==
    /\ launchReader = "read" /\ launchPhase \in {"attached", "configured"} /\ bpsAsked < MaxBps
    /\ bpsAsked' = bpsAsked + 1
    /\ launchQueue' = Append(launchQueue, "bps")
    /\ UNCHANGED <<launchPhase, launchReader, leaving, launchVars, stop, terminates, term,
                   sessVars, histVars>>

\* Mutant: configurationDone is answered at once, past the worker.
LaunchConfigurationDoneNow ==
    /\ launchReader = "read" /\ launchPhase = "attached"
    /\ wanted' = IF configured THEN wanted ELSE bpsAsked
    /\ configured' = TRUE
    /\ UNCHANGED <<connVars, lpc, ok, lcancel, startFail, launched, stop,
                   terminates, term, sessVars, bpsAsked, answers>>

\* launchConfigurationDone: behind every earlier breakpoint request.
LaunchConfigurationDone ==
    /\ launchReader = "read" /\ launchPhase = "attached" /\ wanted > MaxBps
    /\ launchQueue' = Append(launchQueue, "conf")
    /\ wanted' = bpsAsked
    /\ UNCHANGED <<launchPhase, launchReader, leaving, launchVars, stop, terminates, term,
                   sessVars, bpsAsked, answers>>

\* terminate: nothing launched, answered; while the launch runs, its own
\* goroutine (launchTerminate); after that the worker.
Terminate ==
    /\ launchReader = "read" /\ terminates < MaxTerminates /\ stop = "none"
    /\ terminates' = terminates + 1
    /\ \/ /\ lpc = "none" \/ (lpc = "done" /\ ~launched)
          /\ answers' = [answers EXCEPT !.terminate = "ok"]
          /\ UNCHANGED <<launchQueue, stop, lcancel>>
       \/ /\ lpc \notin {"none", "done"}
          /\ stop' = "waits"
          /\ lcancel' = TRUE
          /\ answers' = [answers EXCEPT !.terminate = "none"]
          /\ UNCHANGED launchQueue
       \/ /\ lpc = "done" /\ launched
          /\ launchQueue' = Append(launchQueue, "stop")
          /\ answers' = [answers EXCEPT !.terminate = "none"]
          /\ UNCHANGED <<stop, lcancel>>
    /\ UNCHANGED <<launchPhase, launchReader, leaving, lpc, ok, startFail, launched,
                   configured, term, sessVars, bpsAsked, wanted>>

\* terminalAnswered: the editor's answer to the pending request, valid or
\* not; deliver takes it once.
TerminalAnswered(valid) ==
    /\ launchReader = "read" /\ term = "asked"
    /\ term' = IF valid THEN "started" ELSE "refused"
    /\ UNCHANGED <<connVars, launchVars, stop, terminates, sessVars, bpsAsked, histVars>>

\* forgetExited: an exited session's stop needs no lease.
Forgotten == IF launched /\ sess = "exited" THEN "gone" ELSE sess

LaunchDisconnect ==
    /\ launchReader = "read"
    /\ sess' = Forgotten
    /\ leaving' = TRUE
    /\ launchReader' = "done"
    /\ UNCHANGED <<launchPhase, launchQueue, launchVars, stop, terminates, term, leaseLost,
                   placed, bpsAsked, histVars>>

StreamEnds ==
    /\ launchReader = "read"
    /\ launchReader' = "done"
    /\ UNCHANGED <<launchPhase, launchQueue, leaving, launchVars, stop, terminates, term,
                   sessVars, bpsAsked, histVars>>

LaunchServeEnds ==
    /\ launchReader = "done" /\ launchQueue = <<>> /\ lpc \in {"none", "done"} /\ stop = "none"
    /\ launchReader' = "closed"
    /\ sess' = Forgotten
    /\ UNCHANGED <<launchPhase, launchQueue, leaving, launchVars, stop, terminates, term,
                   leaseLost, placed, bpsAsked, histVars>>

----------------------------------------------------------------------------
(***************************************************************************)
(* The worker, and a terminate that stops a running launch.                *)
(***************************************************************************)

\* stopLaunched: StopSession, under the lease but for an exited session.
Stoppable == ~leaseLost \/ sess \in {"exited", "gone"}

Worker ==
    /\ launchQueue # <<>>
    /\ launchQueue' = Tail(launchQueue)
    /\ \/ /\ Head(launchQueue) = "bps"
          /\ placed' = IF Known THEN placed + 1 ELSE placed
          /\ UNCHANGED <<configured, sess, answers>>
       \/ /\ Head(launchQueue) = "conf"
          /\ configured' = TRUE
          /\ UNCHANGED <<placed, sess, answers>>
       \/ /\ Head(launchQueue) = "stop"
          /\ \/ Stoppable /\ sess' = "gone"
             \/ ~Stoppable /\ UNCHANGED sess
          /\ answers' = [answers EXCEPT !.terminate = IF Stoppable THEN "ok" ELSE "failed"]
          /\ UNCHANGED <<configured, placed>>
    /\ UNCHANGED <<launchPhase, launchReader, leaving, lpc, ok, lcancel, startFail, launched,
                   stop, terminates, term, leaseLost, bpsAsked, wanted>>

\* Mutant: the launch's success is not looked at.
StopLaunchedNot == UNCHANGED sess

StopLaunched == sess' = IF launched /\ Stoppable THEN "gone" ELSE sess

\* terminateLaunch once the launch goroutine is done, or the connection is.
TerminateLaunch ==
    /\ stop = "waits"
    /\ \/ /\ lpc = "done"
          /\ \/ leaving /\ UNCHANGED <<sess, answers>>
             \/ /\ ~leaving
                /\ StopLaunched
                /\ answers' = [answers EXCEPT !.terminate =
                                  IF launched /\ ~Stoppable THEN "failed" ELSE "ok"]
       \/ launchReader # "read" /\ UNCHANGED <<sess, answers>>
    /\ stop' = "none"
    /\ UNCHANGED <<connVars, launchVars, terminates, term, leaseLost, placed, bpsAsked, wanted>>

----------------------------------------------------------------------------
(***************************************************************************)
(* The launch goroutine: Manager.Launch with its hooks, then runLaunch.    *)
(***************************************************************************)

Goto(p) == lpc' = p /\ UNCHANGED <<lcancel, startFail, launched>>

\* A start that fails: Manager.fail ends the session and forgets it.
FailStart ==
    /\ Goto("over")
    /\ ok' = FALSE
    /\ sess' = IF Known THEN "gone" ELSE sess

\* The driver's Prepare (a build), then the adapter: the session is shared.
Prepare ==
    /\ lpc = "prepare"
    /\ \/ /\ Goto("adapter") /\ ~StartDone
          /\ sess' = "starting"
          /\ UNCHANGED ok
       \/ FailStart
    /\ UNCHANGED <<connVars, configured, stop, terminates, term, leaseLost,
                   placed, bpsAsked, histVars>>

\* configure up to the hook: the adapter is initialized.
Configure ==
    /\ lpc = "adapter"
    /\ \/ Goto("bind") /\ UNCHANGED <<ok, sess>>
       \/ FailStart
    /\ UNCHANGED <<connVars, configured, stop, terminates, term, leaseLost,
                   placed, bpsAsked, histVars>>

\* bind: the connection takes the session, unless its editor has left.
Bind ==
    /\ lpc = "bind"
    /\ \/ leaving /\ FailStart /\ UNCHANGED launchPhase
       \/ ~leaving /\ Goto("wait") /\ launchPhase' = "attached" /\ UNCHANGED <<ok, sess>>
    /\ UNCHANGED <<launchReader, launchQueue, leaving, configured, stop, terminates, term,
                   leaseLost, placed, bpsAsked, histVars>>

\* Mutant: bind waits for configurationDone whatever happens.
WaitedOnly ==
    /\ lpc = "wait" /\ configured
    /\ \/ ~StartDone /\ Goto("go") /\ UNCHANGED <<ok, sess>>
       \/ StartDone /\ FailStart
    /\ UNCHANGED <<connVars, configured, stop, terminates, term, leaseLost,
                   placed, bpsAsked, histVars>>

\* bind's wait ends: configurationDone was handled, or the context is done.
Waited ==
    /\ lpc = "wait"
    /\ \/ configured /\ ~StartDone /\ Goto("go") /\ UNCHANGED <<ok, sess>>
       \/ StartDone /\ FailStart
    /\ UNCHANGED <<connVars, configured, stop, terminates, term, leaseLost,
                   placed, bpsAsked, histVars>>

\* configurationDone is sent and launch answered: the program runs.  It may
\* fail, time out (startTimeout), or be cut short by the context.
Run ==
    /\ lpc = "go"
    /\ \/ /\ Goto("over") /\ ok' = TRUE
          /\ sess' = IF sess = "starting" THEN "running" ELSE sess
       \/ FailStart
    /\ UNCHANGED <<connVars, configured, stop, terminates, term, leaseLost,
                   placed, bpsAsked, histVars>>

\* Mutant: the error of the terminal is forgotten once the start is done.
CloseRouteOk ==
    /\ lpc = "over" /\ term \notin {"started", "refused"}
    /\ lpc' = "returned"
    /\ term' = "closed"
    /\ UNCHANGED <<connVars, ok, lcancel, startFail, launched, configured, stop,
                   terminates, sessVars, bpsAsked, histVars>>

\* runWithTerminal's end: the route is closed, its server has ended, and a
\* terminal that failed fails the start, also one that was done.
CloseRoute ==
    /\ lpc = "over" /\ term \notin {"started", "refused"}
    /\ lpc' = "returned"
    /\ term' = "closed"
    /\ ok' = (ok /\ ~startFail)
    /\ sess' = IF startFail /\ Known THEN "gone" ELSE sess
    /\ UNCHANGED <<connVars, lcancel, startFail, launched, configured, stop,
                   terminates, leaseLost, placed, bpsAsked, histVars>>

\* runLaunch after Launch: a launch stopped as it succeeded is abandoned.
Returned ==
    /\ lpc = "returned"
    /\ \/ ok /\ LctxDone /\ Goto("abandon")
       \/ ~(ok /\ LctxDone) /\ Goto("answer")
    /\ UNCHANGED <<connVars, ok, configured, stop, terminates, term, sessVars,
                   bpsAsked, histVars>>

StopAbandoned ==
    /\ lpc = "abandon"
    /\ lpc' = "answer"
    /\ ok' = FALSE
    /\ sess' = IF Stoppable THEN "gone" ELSE sess
    /\ UNCHANGED <<connVars, lcancel, startFail, launched, configured, stop,
                   terminates, term, leaseLost, placed, bpsAsked, histVars>>

\* runLaunch's end, under the gate: the answer, and for a success the join.
Answer ==
    /\ lpc = "answer"
    /\ lpc' = "done"
    /\ launched' = ok
    /\ launchPhase' = IF ok THEN "configured" ELSE "failed"
    /\ answers' = IF leaving \/ (~ok /\ launchReader # "read") THEN answers
                  ELSE [answers EXCEPT !.launch = IF ok THEN "ok" ELSE "failed"]
    /\ UNCHANGED <<launchReader, launchQueue, leaving, ok, lcancel, startFail, configured,
                   stop, terminates, term, sessVars, bpsAsked, wanted>>

----------------------------------------------------------------------------
(***************************************************************************)
(* The adapter's runInTerminal: onReverse, serveTerminal, runInTerminal.   *)
(***************************************************************************)

Starting == lpc \in {"adapter", "bind", "wait", "go"}

\* onReverse takes the first request while the route is open.
AdapterAsks ==
    /\ Starting /\ term = "open"
    /\ term' = "taken"
    /\ UNCHANGED <<connVars, launchVars, stop, terminates, sessVars, bpsAsked, histVars>>

\* runInTerminal: a request checkTerminal refuses, or with the editor gone,
\* fails; else the editor is asked.
RunInTerminal ==
    /\ term = "taken" /\ ~StartDone /\ lpc # "over"
    /\ \/ ~leaving /\ term' = "asked" /\ UNCHANGED startFail
       \/ term' = "failed" /\ startFail' = TRUE
    /\ UNCHANGED <<connVars, lpc, ok, lcancel, launched, configured, stop,
                   terminates, sessVars, bpsAsked, histVars>>

\* serveTerminal's end: the answer came, the wait timed out, or the start's
\* context ended; the first end of that context is its cause.
ServeTerminal ==
    /\ \/ term = "started" /\ term' = "replied" /\ UNCHANGED startFail
       \/ term = "refused" /\ term' = "failed" /\ startFail' = ~LctxDone
       \/ term = "asked" /\ ~StartDone /\ lpc # "over" /\ term' = "failed" /\ startFail' = TRUE
       \/ term = "asked" /\ (StartDone \/ lpc = "over") /\ term' = "failed" /\ UNCHANGED startFail
    /\ UNCHANGED <<connVars, lpc, ok, lcancel, launched, configured, stop,
                   terminates, sessVars, bpsAsked, histVars>>

----------------------------------------------------------------------------
\* The program ends; another client takes the lease.
ProgramEnds ==
    /\ sess \in {"starting", "running"}
    /\ sess' = "exited"
    /\ UNCHANGED <<connVars, launchVars, stop, terminates, term, leaseLost,
                   placed, bpsAsked, histVars>>

LeaseTaken ==
    /\ Known /\ ~leaseLost
    /\ leaseLost' = TRUE
    /\ UNCHANGED <<connVars, launchVars, stop, terminates, term, sess, placed,
                   bpsAsked, histVars>>

LaunchInit ==
    /\ launchPhase = "initialized" /\ launchReader = "read" /\ launchQueue = <<>> /\ leaving = FALSE
    /\ lpc = "none" /\ ok = FALSE /\ lcancel = FALSE /\ startFail = FALSE
    /\ launched = FALSE /\ configured = FALSE
    /\ stop = "none" /\ terminates = 0 /\ term = "off"
    /\ sess = "none" /\ leaseLost = FALSE
    /\ bpsAsked = 0 /\ placed = 0 /\ wanted = MaxBps + 1
    /\ answers = [launch |-> "none", terminate |-> "none"]

\* runLaunch, one step after the other.
LaunchGoroutine ==
    \/ Prepare \/ Configure \/ Bind \/ Waited \/ Run \/ CloseRoute \/ Returned
    \/ StopAbandoned \/ Answer

LaunchNext ==
    \/ \E t \in BOOLEAN : StartLaunch(t) \/ TerminalAnswered(t)
    \/ SetBreakpoints \/ LaunchConfigurationDone \/ Terminate \/ LaunchDisconnect
    \/ StreamEnds \/ LaunchServeEnds \/ Worker \/ TerminateLaunch
    \/ LaunchGoroutine
    \/ AdapterAsks \/ RunInTerminal \/ ServeTerminal
    \/ ProgramEnds \/ LeaseTaken

\* Goroutines go on; the adapter and the driver return, at the latest when
\* startTimeout or terminalTimeout is over.  The editor owes nothing.
LaunchFairness ==
    /\ WF_launchConnVars(Worker) /\ WF_launchConnVars(TerminateLaunch)
    /\ WF_launchConnVars(LaunchServeEnds) /\ WF_launchConnVars(LaunchGoroutine)
    /\ WF_launchConnVars(ServeTerminal)

LaunchSpec == LaunchInit /\ [][LaunchNext]_launchConnVars /\ LaunchFairness

----------------------------------------------------------------------------
(***************************************************************************)
(* Properties.                                                             *)
(***************************************************************************)

\* The program runs only once every breakpoint request that came before
\* configurationDone was handled (launchConfigurationDone's queueing),
\* unless the session ended before they could be.
BreakpointsFirst ==
    (lpc \in {"over", "returned", "answer"} /\ ok /\ sess = "running")
    => placed >= wanted

\* A terminate that was answered leaves nothing of the launch it stopped or
\* ended, unless another client holds the lease.
TerminateStops ==
    (answers.terminate = "ok" /\ lpc = "done" /\ ~leaseLost) => ~Known

\* A launch whose terminal failed never succeeds, however late it fails
\* (runWithTerminal: it ends a start that was done as the terminal failed).
TerminalDecides == ~(launched /\ startFail)

\* A launched program runs only with the breakpoints the editor had asked for
\* before configurationDone; an answered terminate leaves nothing of the
\* launch, and a launch whose terminal failed never succeeds
\* (facade/launch.go's hooks against the reader and the terminate request).
LaunchObeys == BreakpointsFirst /\ TerminateStops /\ TerminalDecides

\* Once the editor is gone the launch is over and the connection closes: no
\* hook waits for a configurationDone or a terminal that will not come.
LaunchEnds == (launchReader = "done") ~> (launchReader = "closed")

\* A terminate is answered, while the editor stays.
TerminateAnswered ==
    (stop = "waits") ~> (answers.terminate # "none" \/ launchReader # "read")

\* A launch that was not answered as a success leaves no session, unless
\* another client holds its lease (runLaunch: "nothing launched stays").
NothingAbandoned ==
    (launchReader = "closed" /\ answers.launch # "ok" /\ ~leaseLost) => ~Known
=============================================================================
