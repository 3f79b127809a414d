---------------------------- MODULE SessionExec ----------------------------
(***************************************************************************)
(* One debug session driving one program through one DAP adapter:          *)
(* execution requests, the adapter's events, the stop filter and the end   *)
(* of the session (internal/session/session.go and emulate.go).            *)
(*                                                                         *)
(* Threads and their atomicity                                             *)
(*                                                                         *)
(*  - The DAP read goroutine takes the adapter's messages one by one       *)
(*    (onEvent under mu; a response only reaches its waiting caller).      *)
(*  - An execution request, a terminate and the stop filter each hold      *)
(*    execMu from start to end, so at most one is in progress: "job".      *)
(*    What they do under mu is one action; between two such sections the   *)
(*    read goroutine may run.                                              *)
(*  - terminate by the daemon (StopAll, a failed start), shutdownAdapter   *)
(*    and watchAdapter run without execMu.                                 *)
(*                                                                         *)
(* A request the state or the lease refuses changes nothing; the lease is  *)
(* ControlLease's subject, so the requests here are those it admitted.     *)
(*                                                                         *)
(* The adapter and the program are external.  Requests reach the adapter   *)
(* and its messages reach the session in order; in between, the program    *)
(* may stop, resume by itself, exit, or the adapter may die.               *)
(***************************************************************************)
EXTENDS Naturals, Sequences, FiniteSets

CONSTANTS
    MaxExec,      \* bound: client requests (execution and terminate)
    MaxStops,     \* bound: stops the program makes by itself
    MaxSurprises, \* bound: news of a stopped program nobody asked for
    MaxTimeouts,  \* bound: requests that run into requestTimeout
    ThreadStops,  \* may a second thread of a stopped program report its stop?
    Announces,    \* may an adapter send "continued" for our own requests?
    Lingers,      \* may an adapter outlive shutdownTimeout?
    DaemonStops   \* may the daemon end the session, without execMu?

ASSUME BoundsAssumption ==
    /\ MaxExec \in Nat /\ MaxStops \in Nat /\ MaxSurprises \in Nat
    /\ MaxTimeouts \in Nat
    /\ Announces \subseteq BOOLEAN /\ Announces # {}
    /\ ThreadStops \in BOOLEAN /\ Lingers \in BOOLEAN /\ DaemonStops \in BOOLEAN

VARIABLES
    \* Session, under mu
    state,           \* Session.state
    stops,           \* Session.stops: stops applied so far
    stopGen,         \* Session.stopGen: stopped and continued events so far
    stepping,        \* Session.stepping
    pauseRequested,  \* Session.pauseRequested
    execInFlight,    \* Session.execInFlight
    endings,         \* ended events logged
    news,            \* continued events logged
    configuring,     \* configure has not finished yet
    \* threads
    job,             \* what the holder of execMu is doing
    filters,         \* generations of filterStop goroutines waiting for execMu
    shutdown,        \* shutdownAdapter: "no" (ended unset), "asked", "over"
    daemon,          \* terminate without execMu: "idle", "waits", "done"
    watching,        \* watchAdapter has not seen the adapter's end yet
    \* the DAP client and the adapter (external)
    done,            \* dap.Client.Done: the read loop has ended
    inbox,           \* requests the adapter has not taken yet
    owed,            \* the answer it still owes, or NoAnswer
    stream,          \* its messages the read loop has not taken yet
    conn,            \* TRUE while the adapter can write
    prog,            \* the program: "running", "stopped" or "exited"
    announces,       \* this adapter sends "continued" for our requests too
    \* bounds
    execs, ownStops, surprises, timeouts, sent

sessionVars == <<state, stops, stopGen, stepping, pauseRequested,
                 execInFlight, endings, news, configuring>>
threadVars  == <<job, filters, shutdown, daemon, watching>>
adapterVars == <<done, inbox, owed, stream, conn, prog, announces>>
boundVars   == <<execs, ownStops, surprises, timeouts, sent>>
vars        == <<sessionVars, threadVars, adapterVars, boundVars>>

States   == {"starting", "running", "stopped", "exited"}
Resumes  == {"continue", "step"}
Idle     == [kind |-> "none", pc |-> "idle", before |-> 0, gen |-> 0, id |-> 0, answer |-> "none"]
NoAnswer == [id |-> 0, ok |-> FALSE]

Event(name)      == [msg |-> name, id |-> 0, ok |-> TRUE]
Response(id, ok) == [msg |-> "response", id |-> id, ok |-> ok]

----------------------------------------------------------------------------
(***************************************************************************)
(* State changes made under mu, shared by several actions.                 *)
(***************************************************************************)

\* applyStopLocked.
ApplyStop ==
    /\ stops' = stops + 1
    /\ state' = "stopped"
    /\ stepping' = FALSE
    /\ pauseRequested' = FALSE

\* Mutant: a stop stays pending after the session's end.
PendingAfterEnd(gen) == stopGen = gen

\* pendingLocked: the stop of generation gen is still the latest news.
Pending(gen) == stopGen = gen /\ state # "exited"

\* publish: the held stop becomes the session's, if it is still pending.
Publish(gen) ==
    IF Pending(gen)
    THEN ApplyStop
    ELSE UNCHANGED <<stops, state, stepping, pauseRequested>>

\* endLocked: once; the adapter is torn down by a goroutine of its own,
\* unless that has begun already (ended).
End ==
    IF state = "exited"
    THEN UNCHANGED <<state, endings, shutdown>>
    ELSE /\ state' = "exited"
         /\ endings' = endings + 1
         /\ shutdown' = IF shutdown = "no" THEN "asked" ELSE shutdown

----------------------------------------------------------------------------
(***************************************************************************)
(* Execution requests: execute, admit, send.                               *)
(***************************************************************************)

\* A pause that names no thread first asks the adapter for its threads
\* (pauseReady, pauseThread), holding execMu.
PauseThreads ==
    /\ job = Idle
    /\ execs < MaxExec
    /\ state = "running"
    /\ job' = [Idle EXCEPT !.kind = "pause", !.pc = "threads"]
    /\ execs' = execs + 1
    /\ UNCHANGED <<sessionVars, filters, shutdown, daemon, watching, adapterVars,
                   ownStops, surprises, timeouts, sent>>

\* admit after the threads answer: the state is checked again.
PauseAdmit ==
    /\ job.pc = "threads"
    /\ job' = IF state = "running"
              THEN [job EXCEPT !.pc = "admitted", !.before = stops]
              ELSE Idle
    /\ UNCHANGED <<sessionVars, filters, shutdown, daemon, watching, adapterVars, boundVars>>

\* admit: continue and steps need a stopped program, pause a running one.
Admit(kind) ==
    /\ job = Idle
    /\ execs < MaxExec
    /\ state = IF kind = "pause" THEN "running" ELSE "stopped"
    /\ job' = [Idle EXCEPT !.kind = kind, !.pc = "admitted", !.before = stops]
    /\ execs' = execs + 1
    /\ UNCHANGED <<sessionVars, filters, shutdown, daemon, watching, adapterVars,
                   ownStops, surprises, timeouts, sent>>

\* Between admit and send: removing temporary breakpoints or placing
\* run-until's failed.
Abandon ==
    /\ job.pc = "admitted"
    /\ job.kind \in Resumes
    /\ job' = Idle
    /\ UNCHANGED <<sessionVars, filters, shutdown, daemon, watching, adapterVars, boundVars>>

\* dap.Client.Do writes the request; after the read loop ended it fails.
Request(kind) ==
    /\ sent' = sent + 1
    /\ inbox' = IF conn THEN Append(inbox, [kind |-> kind, id |-> sent + 1]) ELSE inbox

\* send's first section, then the request goes out.
Send ==
    /\ job.pc = "admitted"
    /\ stepping' = IF job.kind = "pause" THEN stepping ELSE job.kind = "step"
    /\ pauseRequested' = (job.kind = "pause")
    /\ execInFlight' = TRUE
    /\ Request(job.kind)
    /\ job' = [job EXCEPT !.pc = "sent", !.id = sent + 1,
                          !.answer = IF done THEN "err" ELSE "none"]
    /\ UNCHANGED <<state, stops, stopGen, endings, news, configuring, filters, shutdown,
                   daemon, watching, done, owed, stream, conn, prog, announces,
                   execs, ownStops, surprises, timeouts>>

\* The request's context ends first (requestTimeout): the caller stops waiting,
\* but the request is with the adapter and may still take effect.
RequestTimeout ==
    /\ job.pc = "sent"
    /\ job.answer = "none"
    /\ timeouts < MaxTimeouts
    /\ timeouts' = timeouts + 1
    /\ job' = [job EXCEPT !.answer = "err"]
    /\ UNCHANGED <<sessionVars, filters, shutdown, daemon, watching, adapterVars,
                   execs, ownStops, surprises, sent>>

\* Mutant: a resume always marks a stopped session running.
SendDoneAlways ==
    /\ job.pc = "sent"
    /\ job.kind # "filter"
    /\ job.answer # "none"
    /\ LET ok    == job.answer = "ok"
           pause == job.kind = "pause"
       IN  /\ pauseRequested' = (pauseRequested /\ (ok \/ ~pause))
           /\ stepping' = (stepping /\ (ok \/ pause))
           /\ state' = IF ok /\ ~pause /\ state = "stopped" THEN "running" ELSE state
    /\ execInFlight' = FALSE
    /\ job' = Idle
    /\ UNCHANGED <<stops, stopGen, endings, news, configuring, filters, shutdown,
                   daemon, watching, adapterVars, boundVars>>

\* send's second section: a resume marks the program running, unless it
\* stopped again since it was admitted.
SendDone ==
    /\ job.pc = "sent"
    /\ job.kind # "filter"
    /\ job.answer # "none"
    /\ LET ok    == job.answer = "ok"
           pause == job.kind = "pause"
       IN  /\ pauseRequested' = (pauseRequested /\ (ok \/ ~pause))
           /\ stepping' = (stepping /\ (ok \/ pause))
           /\ state' = IF ok /\ ~pause /\ state = "stopped" /\ stops = job.before
                       THEN "running" ELSE state
    /\ execInFlight' = FALSE
    /\ job' = Idle
    /\ UNCHANGED <<stops, stopGen, endings, news, configuring, filters, shutdown,
                   daemon, watching, adapterVars, boundVars>>

----------------------------------------------------------------------------
(***************************************************************************)
(* The stop filter (filterStop): hit counts, logpoints and conditions that *)
(* the adapter does not check.                                             *)
(***************************************************************************)

\* The goroutine gets execMu; a stop that is not pending any more is dropped.
FilterStart(gen) ==
    /\ job = Idle
    /\ gen \in filters
    /\ filters' = filters \ {gen}
    /\ job' = IF Pending(gen)
              THEN [Idle EXCEPT !.kind = "filter", !.pc = "inspect", !.gen = gen]
              ELSE Idle
    /\ UNCHANGED <<sessionVars, shutdown, daemon, watching, adapterVars, boundVars>>

\* Mutant: an outstanding pause is forgotten.
PublishReasonStepOnly == stepping

\* publishReasonLocked: a step or a pause ended at a stop no breakpoint wants.
PublishReason == stepping \/ pauseRequested

\* decide, and the section under mu that follows it: a breakpoint wants the
\* stop, or the stop cannot be read (fail open); or none wants it.
FilterDecide(wanted) ==
    /\ job.pc = "inspect"
    /\ job' = [job EXCEPT !.pc = IF wanted \/ PublishReason THEN "publish" ELSE "pass"]
    /\ UNCHANGED <<sessionVars, filters, shutdown, daemon, watching, adapterVars, boundVars>>

FilterPublish ==
    /\ job.pc = "publish"
    /\ Publish(job.gen)
    /\ job' = Idle
    /\ UNCHANGED <<stopGen, execInFlight, endings, news, configuring, filters, shutdown,
                   daemon, watching, adapterVars, boundVars>>

\* autoContinue: the program continues if the stop is still pending.
FilterContinue ==
    /\ job.pc = "pass"
    /\ IF Pending(job.gen)
       THEN /\ execInFlight' = TRUE
            /\ Request("continue")
            /\ job' = [job EXCEPT !.pc = "sent", !.id = sent + 1,
                                  !.answer = IF done THEN "err" ELSE "none"]
       ELSE /\ job' = Idle
            /\ UNCHANGED <<execInFlight, sent, inbox>>
    /\ UNCHANGED <<state, stops, stopGen, stepping, pauseRequested, endings, news,
                   configuring, filters, shutdown, daemon, watching, done, owed,
                   stream, conn, prog, announces,
                   execs, ownStops, surprises, timeouts>>

\* autoContinue's end: an adapter error publishes the stop, if it is still
\* pending then.
FilterDone ==
    /\ job.pc = "sent"
    /\ job.kind = "filter"
    /\ job.answer # "none"
    /\ execInFlight' = FALSE
    /\ job' = IF job.answer = "err" THEN [job EXCEPT !.pc = "publish"] ELSE Idle
    /\ UNCHANGED <<state, stops, stopGen, stepping, pauseRequested, endings, news, configuring,
                   filters, shutdown, daemon, watching, adapterVars, boundVars>>

----------------------------------------------------------------------------
(***************************************************************************)
(* The read goroutine: one message of the adapter at a time.               *)
(***************************************************************************)

\* Mutant: the filter is handed the generation before this stop's.
OnStoppedStaleGen(needsFilter) ==
    /\ stopGen' = stopGen + 1
    /\ IF Head(stream).msg = "stopBreakpoint" /\ needsFilter
       THEN /\ filters' = filters \cup {stopGen}
            /\ UNCHANGED <<stops, state, stepping, pauseRequested>>
       ELSE /\ ApplyStop
            /\ UNCHANGED filters
    /\ UNCHANGED <<execInFlight, endings, news, configuring, job, shutdown>>

\* onStoppedLocked.  needsFilter is needsFilterLocked at this moment: which
\* breakpoints clients have set is not part of this module.
OnStopped(needsFilter) ==
    /\ stopGen' = stopGen + 1
    /\ IF Head(stream).msg = "stopBreakpoint" /\ needsFilter
       THEN /\ filters' = filters \cup {stopGen + 1}
            /\ UNCHANGED <<stops, state, stepping, pauseRequested>>
       ELSE /\ ApplyStop
            /\ UNCHANGED filters
    /\ UNCHANGED <<execInFlight, endings, news, configuring, job, shutdown>>

\* Mutant: every resume is news.
OnContinuedLogsAll ==
    /\ stopGen' = stopGen + 1
    /\ state' = IF state = "stopped" THEN "running" ELSE state
    /\ news' = news + 1
    /\ UNCHANGED <<stops, stepping, pauseRequested, execInFlight, endings,
                   configuring, job, filters, shutdown>>

\* Mutant: only the answer of a request marks the program running.
OnContinuedKeepsState ==
    /\ stopGen' = stopGen + 1
    /\ news' = IF execInFlight THEN news ELSE news + 1
    /\ UNCHANGED <<state, stops, stepping, pauseRequested, execInFlight, endings,
                   configuring, job, filters, shutdown>>

\* onContinuedLocked.
OnContinued ==
    /\ stopGen' = stopGen + 1
    /\ state' = IF state = "stopped" THEN "running" ELSE state
    /\ news' = IF execInFlight THEN news ELSE news + 1
    /\ UNCHANGED <<stops, stepping, pauseRequested, execInFlight, endings,
                   configuring, job, filters, shutdown>>

\* TerminatedEvent (no test runner).
OnTerminated ==
    /\ End
    /\ UNCHANGED <<stops, stopGen, stepping, pauseRequested, execInFlight, news,
                   configuring, job, filters>>

\* dap.Client.deliver: the answer reaches its caller, if it still waits.
OnResponse ==
    /\ job' = IF job.pc = "sent" /\ job.id = Head(stream).id /\ job.answer = "none"
              THEN [job EXCEPT !.answer = IF Head(stream).ok THEN "ok" ELSE "err"]
              ELSE job
    /\ UNCHANGED <<sessionVars, filters, shutdown>>

Dispatch ==
    LET msg == Head(stream).msg
    IN  \/ msg \in {"stopBreakpoint", "stopOther"} /\ \E f \in BOOLEAN : OnStopped(f)
        \/ msg = "continued" /\ OnContinued
        \/ msg = "terminated" /\ OnTerminated
        \/ msg = "response" /\ OnResponse

\* Mutant: the read goroutine needs execMu.
DeliverUnderExecMu ==
    /\ ~done /\ stream # <<>> /\ job = Idle
    /\ Dispatch
    /\ stream' = Tail(stream)
    /\ UNCHANGED <<daemon, watching, done, inbox, owed, conn, prog, announces, boundVars>>

Deliver ==
    /\ ~done /\ stream # <<>>
    /\ Dispatch
    /\ stream' = Tail(stream)
    /\ UNCHANGED <<daemon, watching, done, inbox, owed, conn, prog, announces, boundVars>>

\* The read loop ends: every caller still waiting gets an error.
ReadEOF ==
    /\ ~done /\ stream = <<>> /\ ~conn
    /\ done' = TRUE
    /\ job' = IF job.pc = "sent" /\ job.answer = "none"
              THEN [job EXCEPT !.answer = "err"] ELSE job
    /\ UNCHANGED <<sessionVars, filters, shutdown, daemon, watching, inbox, owed, stream,
                   conn, prog, announces, boundVars>>

----------------------------------------------------------------------------
(***************************************************************************)
(* Start and end of the session.                                           *)
(***************************************************************************)

\* configure's last section.
ConfigureEnd ==
    /\ configuring
    /\ configuring' = FALSE
    /\ state' = IF state = "starting" THEN "running" ELSE state
    /\ UNCHANGED <<stops, stopGen, stepping, pauseRequested, execInFlight, endings, news,
                   threadVars, adapterVars, boundVars>>

\* shutdownAdapter's first section: only the first caller disconnects.
StartShutdown == shutdown' = IF shutdown = "no" THEN "asked" ELSE shutdown

\* Terminate by a client, under execMu; Detach of an attached session is the
\* same with another reason.  A second shutdownAdapter returns at once.
Terminate ==
    /\ job = Idle
    /\ execs < MaxExec
    /\ execs' = execs + 1
    /\ StartShutdown
    /\ job' = [Idle EXCEPT !.kind = "terminate",
                           !.pc = IF shutdown = "no" THEN "disconnect" ELSE "end"]
    /\ UNCHANGED <<sessionVars, filters, daemon, watching, adapterVars,
                   ownStops, surprises, timeouts, sent>>

TerminateWaited ==
    /\ job.pc = "disconnect"
    /\ shutdown = "over"
    /\ job' = [job EXCEPT !.pc = "end"]
    /\ UNCHANGED <<sessionVars, filters, shutdown, daemon, watching, adapterVars, boundVars>>

TerminateEnd ==
    /\ job.pc = "end"
    /\ End
    /\ job' = Idle
    /\ UNCHANGED <<stops, stopGen, stepping, pauseRequested, execInFlight, news, configuring,
                   filters, daemon, watching, adapterVars, boundVars>>

\* terminate by the daemon: StopAll or a failed start; no execMu.
DaemonTerminate ==
    /\ DaemonStops
    /\ daemon = "idle"
    /\ StartShutdown
    /\ daemon' = IF shutdown = "no" THEN "waits" ELSE "ends"
    /\ UNCHANGED <<sessionVars, job, filters, watching, adapterVars, boundVars>>

DaemonWaited ==
    /\ daemon = "waits"
    /\ shutdown = "over"
    /\ daemon' = "ends"
    /\ UNCHANGED <<sessionVars, job, filters, shutdown, watching, adapterVars, boundVars>>

DaemonEnd ==
    /\ daemon = "ends"
    /\ End
    /\ daemon' = "done"
    /\ UNCHANGED <<stops, stopGen, stepping, pauseRequested, execInFlight, news, configuring,
                   job, filters, watching, adapterVars, boundVars>>

\* shutdownAdapter: the adapter closed its stream in time ...
ShutdownDone ==
    /\ shutdown = "asked"
    /\ done
    /\ shutdown' = "over"
    /\ UNCHANGED <<sessionVars, job, filters, daemon, watching, adapterVars, boundVars>>

\* ... or it lingers and is killed; what it wrote is still in the pipe.
ShutdownTimeout ==
    /\ Lingers
    /\ shutdown = "asked"
    /\ ~done
    /\ shutdown' = "over"
    /\ conn' = FALSE
    /\ prog' = "exited"
    /\ UNCHANGED <<sessionVars, job, filters, daemon, watching, done, inbox, owed, stream,
                   announces, boundVars>>

\* watchAdapter.
AdapterGone ==
    /\ watching
    /\ done
    /\ watching' = FALSE
    /\ End
    /\ UNCHANGED <<stops, stopGen, stepping, pauseRequested, execInFlight, news, configuring,
                   job, filters, daemon, adapterVars, boundVars>>

----------------------------------------------------------------------------
(***************************************************************************)
(* The adapter and the program (external).                                 *)
(***************************************************************************)
Emit(m) == stream' = Append(stream, m)

\* Takes a request: a resume of a stopped program, a pause of a running one;
\* a pause of a stopped program is a no-op; anything may be refused.
AdapterTakes ==
    /\ conn /\ owed = NoAnswer /\ inbox # <<>>
    /\ inbox' = Tail(inbox)
    /\ LET req == Head(inbox)
       IN  \/ /\ req.kind \in {"continue", "step"} /\ prog = "stopped"
              /\ prog' = "running"
              /\ IF announces THEN Emit(Event("continued")) ELSE UNCHANGED stream
              /\ owed' = [id |-> req.id, ok |-> TRUE]
           \/ /\ req.kind = "pause" /\ prog = "running"
              /\ prog' = "stopped"
              /\ Emit(Event("stopOther"))
              /\ owed' = [id |-> req.id, ok |-> TRUE]
           \/ /\ req.kind = "pause" /\ prog = "stopped"
              /\ owed' = [id |-> req.id, ok |-> TRUE]
              /\ UNCHANGED <<prog, stream>>
           \/ /\ owed' = [id |-> req.id, ok |-> FALSE]
              /\ UNCHANGED <<prog, stream>>
    /\ UNCHANGED <<sessionVars, threadVars, done, conn, announces, boundVars>>

AdapterAnswers ==
    /\ conn /\ owed # NoAnswer
    /\ Emit(Response(owed.id, owed.ok))
    /\ owed' = NoAnswer
    /\ UNCHANGED <<sessionVars, threadVars, done, inbox, conn, prog, announces, boundVars>>

ProgramStops ==
    /\ conn /\ prog = "running" /\ ownStops < MaxStops
    /\ ownStops' = ownStops + 1
    /\ prog' = "stopped"
    /\ \E m \in {"stopBreakpoint", "stopOther"} : Emit(Event(m))
    /\ UNCHANGED <<sessionVars, threadVars, done, inbox, owed, conn, announces,
                   execs, surprises, timeouts, sent>>

\* Without a request, a stopped program resumes, or (lldb-dap) another of its
\* threads that stopped at the same time reports its own stop.
ProgramSurprises ==
    /\ conn /\ prog = "stopped" /\ surprises < MaxSurprises
    /\ surprises' = surprises + 1
    /\ \/ prog' = "running" /\ Emit(Event("continued"))
       \/ /\ ThreadStops
          /\ \E m \in {"stopBreakpoint", "stopOther"} : Emit(Event(m))
          /\ UNCHANGED prog
    /\ UNCHANGED <<sessionVars, threadVars, done, inbox, owed, conn, announces,
                   execs, ownStops, timeouts, sent>>

ProgramExits ==
    /\ conn /\ prog # "exited"
    /\ prog' = "exited"
    /\ Emit(Event("terminated"))
    /\ UNCHANGED <<sessionVars, threadVars, done, inbox, owed, conn, announces, boundVars>>

\* It obeys disconnect, or dies by itself: the stream ends after what it wrote.
AdapterCloses ==
    /\ conn
    /\ conn' = FALSE
    /\ prog' = "exited"
    /\ UNCHANGED <<sessionVars, threadVars, done, inbox, owed, stream, announces, boundVars>>

----------------------------------------------------------------------------
Init ==
    /\ state = "starting" /\ stops = 0 /\ stopGen = 0
    /\ stepping = FALSE /\ pauseRequested = FALSE /\ execInFlight = FALSE
    /\ endings = 0 /\ news = 0 /\ configuring = TRUE
    /\ job = Idle /\ filters = {} /\ shutdown = "no" /\ daemon = "idle" /\ watching = TRUE
    /\ done = FALSE /\ inbox = <<>> /\ owed = NoAnswer /\ stream = <<>>
    /\ conn = TRUE /\ prog = "running" /\ announces \in Announces
    /\ execs = 0 /\ ownStops = 0 /\ surprises = 0 /\ timeouts = 0 /\ sent = 0

Exec == \/ PauseThreads \/ PauseAdmit \/ Abandon \/ Send \/ RequestTimeout \/ SendDone
        \/ \E kind \in Resumes \cup {"pause"} : Admit(kind)

Filter == \/ \E gen \in filters : FilterStart(gen)
          \/ \E wanted \in BOOLEAN : FilterDecide(wanted)
          \/ FilterPublish \/ FilterContinue \/ FilterDone

Read == Deliver \/ ReadEOF

Ending == \/ Terminate \/ TerminateWaited \/ TerminateEnd
          \/ DaemonTerminate \/ DaemonWaited \/ DaemonEnd
          \/ ShutdownDone \/ ShutdownTimeout \/ AdapterGone

Adapter == \/ AdapterTakes \/ AdapterAnswers \/ ProgramStops \/ ProgramSurprises
           \/ ProgramExits \/ AdapterCloses

Next == Exec \/ Filter \/ Read \/ ConfigureEnd \/ Ending \/ Adapter

Spec == Init /\ [][Next]_vars

(***************************************************************************)
(* Fairness.  The daemon's goroutines run (Go schedules every runnable     *)
(* goroutine and sync.Mutex starves none), the adapter takes and answers   *)
(* requests, and it closes its stream when asked to disconnect or is       *)
(* killed.  Neither a client nor the program has to do anything.           *)
(***************************************************************************)
Working == \/ PauseAdmit \/ Send \/ SendDone
           \/ \E wanted \in BOOLEAN : FilterDecide(wanted)
           \/ FilterPublish \/ FilterContinue \/ FilterDone
           \/ TerminateWaited \/ TerminateEnd

Fairness ==
    /\ WF_vars(Working)
    /\ WF_vars(\E gen \in filters : FilterStart(gen))
    /\ WF_vars(Deliver) /\ WF_vars(ReadEOF)
    /\ WF_vars(ConfigureEnd)
    /\ WF_vars(DaemonWaited) /\ WF_vars(DaemonEnd)
    /\ WF_vars(ShutdownDone) /\ WF_vars(AdapterGone)
    /\ WF_vars(AdapterTakes) /\ WF_vars(AdapterAnswers)
    /\ WF_vars(shutdown = "asked" /\ AdapterCloses)

FairSpec == Spec /\ Fairness

----------------------------------------------------------------------------
(***************************************************************************)
(* Properties.                                                             *)
(***************************************************************************)
Kinds == {"none", "pause", "continue", "step", "filter", "terminate"}
Pcs   == {"idle", "threads", "admitted", "sent", "inspect", "publish", "pass",
          "disconnect", "end"}
Msgs  == {"stopBreakpoint", "stopOther", "continued", "terminated", "response"}
Jobs     == [kind : Kinds, pc : Pcs, before : Nat, gen : Nat, id : Nat,
             answer : {"none", "ok", "err"}]
Requests == [kind : {"pause", "continue", "step"}, id : Nat]
Answers  == [id : Nat, ok : BOOLEAN]
Messages == [msg : Msgs, id : Nat, ok : BOOLEAN]

\* The variables' types; a held stop has a generation already counted.
TypeOK ==
    /\ state \in States
    /\ stops \in Nat /\ stopGen \in Nat /\ endings \in Nat /\ news \in Nat
    /\ stepping \in BOOLEAN /\ pauseRequested \in BOOLEAN /\ execInFlight \in BOOLEAN
    /\ configuring \in BOOLEAN /\ watching \in BOOLEAN /\ done \in BOOLEAN
    /\ job \in Jobs
    /\ filters \subseteq 1 .. stopGen
    /\ shutdown \in {"no", "asked", "over"}
    /\ daemon \in {"idle", "waits", "ends", "done"}
    /\ inbox \in Seq(Requests)
    /\ owed \in Answers
    /\ stream \in Seq(Messages)
    /\ conn \in BOOLEAN /\ announces \in BOOLEAN
    /\ prog \in {"running", "stopped", "exited"}
    /\ execs \in Nat /\ ownStops \in Nat /\ surprises \in Nat
    /\ timeouts \in Nat /\ sent \in Nat

\* Nothing is on its way between the session and its live adapter.
Quiet ==
    /\ job = Idle /\ filters = {} /\ ~configuring /\ shutdown = "no"
    /\ conn /\ inbox = <<>> /\ owed = NoAnswer /\ stream = <<>>

\* No resume was given up on, and no stopped program made news by itself; an
\* adapter that announces every resume makes up for both.
Plain == announces \/ (timeouts = 0 /\ surprises = 0)

\* The session's state is the program's whenever nothing is in flight: no
\* order of answers, stops that beat the answer of the resume before them,
\* held stops, fail-open publishing, timeouts or refused requests leaves a
\* session "stopped" over a running program or the reverse (send's check of
\* stops against before, onContinuedLocked, publish).  And only news is
\* logged: the continued events are resumes the adapter made by itself, never
\* the echo of the session's own requests or of the filter's continue
\* (execInFlight), unless a request was given up on.
StateAgrees ==
    /\ Quiet /\ Plain => state = prog
    /\ timeouts = 0 => news <= surprises

\* "While the filter runs, the session still looks running to clients"
\* (emulate.go): no client sees a stop that the filter may yet continue, and
\* the filter never continues a program clients see as stopped.
FilterLooksRunning ==
    (job.kind = "filter" /\ Pending(job.gen) /\ Plain /\ ~done) => state # "stopped"

\* What clients see of the program is right: its state when all is quiet, and
\* no stop that the filter may still undo.
ShowsProgram == StateAgrees /\ FilterLooksRunning

\* A session ends once: one ended event, and exited for good.
EndedOnce == endings <= 1 /\ (endings = 1 => state = "exited")

\* The adapter accepted the pause that is being sent; or refused it.
PauseAccepted == job.kind = "pause" /\ job.pc = "sent" /\ job.answer = "ok"
PauseRefused  == job.kind = "pause" /\ job.pc = "sent" /\ job.answer = "err"

\* A pause the adapter accepted shows: the program is seen stopped or exited,
\* also when the pause reached a program that the filter held at a stop no
\* breakpoint wants, where the adapter does nothing (pauseRequested); unless
\* another pause is refused meanwhile.
PauseShows == PauseAccepted ~> (state \in {"stopped", "exited"} \/ PauseRefused)

\* The same without the exception: pauseRequested "is set from sending a pause
\* until the next applied stop" (session.go), so that no accepted pause is lost.
PauseNeverLost == PauseAccepted ~> (state \in {"stopped", "exited"})

\* execMu is always let go: every admitted request, filtered stop and
\* terminate finishes, whatever the adapter does meanwhile; the read goroutine
\* never waits for one of them.
ExecReturns == (job # Idle) ~> (job = Idle)

\* Once its teardown began, a session is exited for good in the end, whoever
\* began it and whatever was still in the adapter's pipe.
EndsForGood == (shutdown # "no") ~> [](state = "exited")
=============================================================================
