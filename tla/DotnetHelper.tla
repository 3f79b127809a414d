---------------------------- MODULE DotnetHelper ----------------------------
(***************************************************************************)
(* One 'eyedbg dotnet' command and its side helper (internal/helper): the  *)
(* command starts the helper, says hello, makes one call, possibly with    *)
(* notifications (counters), and closes it, while a goroutine reads the    *)
(* helper's output, another waits for its exit, and the helper may answer  *)
(* late, break the protocol, exit or hang.                                 *)
(***************************************************************************)
EXTENDS Naturals, Sequences, FiniteSets

CONSTANTS
    MaxNotes,   \* how many notifications a call brings at most
    NoLine      \* nothing held by the reader

VARIABLES
    bounded,    \* the command has a --timeout (counters --watch has none)
    ctx,        \* "live" or "done": the timeout, or the user's interrupt
    stdin,      \* "open" or "closed"
    inbox,      \* requests the helper has not read
    helper,     \* "up", "gone": the helper's process
    exited,     \* cmd.Wait has returned
    stdout,       \* lines written by the helper and not read
    reader,     \* "reads", "holds" or "ended"
    held,       \* the line the reader delivers, or NoLine
    closing,    \* Close has begun
    at,         \* where the command is
    id,         \* the request of the call it is in
    notes,      \* the notifications handed to the call, in order
    result,     \* how the call, or hello, ended
    written     \* the lines the helper wrote, in order

helperVars == <<bounded, ctx, stdin, inbox, helper, exited, stdout, reader, held,
                closing, at, id, notes, result, written>>

Line(kind, n) == [kind |-> kind, id |-> n]

\* spawn, and hello's request.
HelperInit ==
    /\ bounded \in BOOLEAN
    /\ ctx = "live" /\ stdin = "open" /\ inbox = <<1>>
    /\ helper = "up" /\ exited = FALSE
    /\ stdout = <<>> /\ reader = "reads" /\ held = NoLine /\ closing = FALSE
    /\ at = "hello" /\ id = 1 /\ notes = <<>> /\ result = "none" /\ written = <<>>

----------------------------------------------------------------------------
(***************************************************************************)
(* The helper's process, as its protocol lets it behave or misbehave.      *)
(***************************************************************************)

Writes(l) == stdout' = Append(stdout, l) /\ written' = Append(written, l)
CommandUnchanged == UNCHANGED <<closing, at, id, notes, result, ctx, bounded>>

\* "bad" is a line that is no answer, or a hello of another protocol.
Answers ==
    /\ helper = "up" /\ inbox # <<>>
    /\ \E kind \in {"answer", "error", "bad"} : Writes(Line(kind, Head(inbox)))
    /\ inbox' = Tail(inbox)
    /\ UNCHANGED <<stdin, helper, exited, reader, held>> /\ CommandUnchanged

Noted == Cardinality({i \in DOMAIN written : written[i].kind = "note"})
Notifies ==
    /\ helper = "up" /\ inbox = <<2>> /\ Noted < MaxNotes
    /\ Writes(Line("note", Noted + 1))
    /\ UNCHANGED <<stdin, inbox, helper, exited, reader, held>> /\ CommandUnchanged

\* It exits by itself, or because its stdin closed; nothing forces it to.
Exits ==
    /\ helper = "up" /\ helper' = "gone" /\ inbox' = <<>>
    /\ UNCHANGED <<stdin, exited, stdout, reader, held, written>> /\ CommandUnchanged

----------------------------------------------------------------------------
(***************************************************************************)
(* The goroutines of Helper and of exec.Cmd.                               *)
(***************************************************************************)

\* wait.  The output is a stdout of its own, which Wait does not close.
WaitsAndCloses ==
    /\ helper = "gone" /\ ~exited /\ exited' = TRUE /\ stdout' = <<>>
    /\ UNCHANGED <<stdin, inbox, helper, reader, held, written>> /\ CommandUnchanged
Waits ==
    /\ helper = "gone" /\ ~exited /\ exited' = TRUE
    /\ UNCHANGED <<stdin, inbox, helper, stdout, reader, held, written>> /\ CommandUnchanged

\* read: a line, or the end of the output, is offered on an unbuffered
\* channel; Close ends the reader.
Reads ==
    /\ reader = "reads" /\ (stdout # <<>> \/ helper = "gone")
    /\ stdout' = (IF stdout = <<>> THEN stdout ELSE Tail(stdout))
    /\ IF closing
       THEN reader' = "ended" /\ held' = NoLine
       ELSE /\ reader' = "holds"
            /\ held' = (IF stdout = <<>> THEN Line("eof", 0) ELSE Head(stdout))
    /\ UNCHANGED <<stdin, inbox, helper, exited, written>> /\ CommandUnchanged
ReaderStops ==
    /\ reader = "holds" /\ closing
    /\ reader' = "ended" /\ held' = NoLine
    /\ UNCHANGED <<stdin, inbox, helper, exited, stdout, written>> /\ CommandUnchanged

\* --timeout passes, or the user interrupts; exec then closes stdin, and
\* kills the process WaitDelay later.
CtxDone ==
    /\ ctx = "live" /\ at # "done" /\ ctx' = "done"
    /\ UNCHANGED <<bounded, stdin, inbox, helper, exited, stdout, reader, held, closing,
                   at, id, notes, result, written>>
Cancel ==
    /\ ctx = "done" /\ stdin = "open" /\ ~exited /\ stdin' = "closed"
    /\ UNCHANGED <<inbox, helper, exited, stdout, reader, held, written>> /\ CommandUnchanged
WaitDelayPasses ==
    /\ ctx = "done" /\ stdin = "closed" /\ helper = "up"
    /\ helper' = "gone" /\ inbox' = <<>>
    /\ UNCHANGED <<stdin, exited, stdout, reader, held, written>> /\ CommandUnchanged

----------------------------------------------------------------------------
(***************************************************************************)
(* The command: Start, Stream and Close (withHelper).                      *)
(***************************************************************************)

ProcessUnchanged == UNCHANGED <<bounded, ctx, helper, exited, stdout, written>>

\* Start makes the caller's call once hello was answered; every other end of
\* hello, and every end of the call, is followed by Close.
Ends(how) ==
    /\ result' = how
    /\ IF at = "hello" /\ how = "answer"
       THEN /\ at' = "call" /\ id' = id + 1
            /\ inbox' = (IF helper = "up" /\ stdin = "open" THEN Append(inbox, id + 1) ELSE inbox)
       ELSE at' = "close" /\ UNCHANGED <<id, inbox>>
    /\ UNCHANGED <<stdin, closing>>

InCall == at \in {"hello", "call"}

\* Stream's ctx.Done, and the hello timeout.
CallGivenUp ==
    /\ InCall /\ ctx = "done"
    /\ Ends("ctx") /\ ProcessUnchanged /\ UNCHANGED <<reader, held, notes>>
HelloTimeout ==
    /\ at = "hello"
    /\ Ends("failed") /\ ProcessUnchanged /\ UNCHANGED <<reader, held, notes>>

\* handle: what one line means to the call; the end of the output is
\* exitedEarly's failure, whatever the exit status says.
EndOfOutput == IF ctx = "done" THEN "ctx" ELSE "failed"
Means(l) ==
    IF l.kind \in {"answer", "error"} /\ l.id = id THEN l.kind
    ELSE IF l.kind = "eof" THEN EndOfOutput ELSE "failed"

\* counterCollector: the first sample is checked against --counters.
NoteAccepted(l) ==
    /\ notes' = Append(notes, l.id)
    /\ UNCHANGED <<result, at, id, inbox, stdin, closing>>
NoteRefused == Ends("error") /\ UNCHANGED notes

Handle ==
    /\ InCall /\ reader = "holds"
    /\ reader' = (IF held.kind = "eof" THEN "ended" ELSE "reads")
    /\ held' = NoLine
    /\ IF held.kind = "note" /\ at = "call"
       THEN NoteAccepted(held) \/ (notes = <<>> /\ NoteRefused)
       ELSE Ends(Means(held)) /\ UNCHANGED notes
    /\ ProcessUnchanged

\* Close: stdin closes, the helper gets WaitDelay to exit, then its process
\* group is killed; Close waits for the reader.
CloseBegins ==
    /\ at = "close"
    /\ closing' = TRUE /\ stdin' = "closed" /\ at' = "waits"
    /\ UNCHANGED <<inbox, id, notes, result, reader, held>> /\ ProcessUnchanged
KillGroup ==
    /\ at = "waits" /\ helper = "up"
    /\ helper' = "gone" /\ inbox' = <<>>
    /\ UNCHANGED <<bounded, ctx, stdin, exited, stdout, reader, held, closing, at, id,
                   notes, result, written>>
JoinsNothing ==
    /\ at = "waits" /\ at' = "done"
    /\ UNCHANGED <<inbox, id, notes, result, reader, held, stdin, closing>> /\ ProcessUnchanged
CloseReturns ==
    /\ at = "waits" /\ exited /\ reader = "ended" /\ at' = "done"
    /\ UNCHANGED <<inbox, id, notes, result, reader, held, stdin, closing>> /\ ProcessUnchanged

Command == CallGivenUp \/ Handle \/ CloseBegins \/ CloseReturns

HelperNext ==
    \/ Answers \/ Notifies \/ Exits
    \/ Waits \/ Reads \/ ReaderStops
    \/ CtxDone \/ Cancel \/ WaitDelayPasses
    \/ HelloTimeout \/ KillGroup \/ Command

\* Goroutines are scheduled and timers fire; the helper owes nothing.
HelperFairness ==
    /\ WF_helperVars(Command) /\ WF_helperVars(Waits)
    /\ WF_helperVars(Reads) /\ WF_helperVars(ReaderStops)
    /\ WF_helperVars(HelloTimeout) /\ WF_helperVars(KillGroup)
    /\ WF_helperVars(bounded /\ CtxDone)
    /\ WF_helperVars(Cancel) /\ WF_helperVars(WaitDelayPasses)

HelperSpec == HelperInit /\ [][HelperNext]_helperVars /\ HelperFairness

----------------------------------------------------------------------------
(***************************************************************************)
(* Properties.                                                             *)
(***************************************************************************)

WroteBefore(kinds, n) ==
    \E i \in DOMAIN written : written[i].kind \in kinds /\ written[i].id = n

\* A call's outcome is the helper's own: an answer or an error of the helper
\* is the one to this very request, with every notification before it handed
\* over once and in order; and a helper that answers and exits at once is
\* not reported as failed ("possibly before its last line is read", spawn).
AnswersKept ==
    /\ result = "answer" /\ at # "call" => WroteBefore({"answer"}, id)
    /\ result = "answer" /\ at # "hello" /\ id = 2 /\ at # "call" => Len(notes) = Noted
    /\ notes = [i \in 1..Len(notes) |-> i]
    /\ result = "failed" /\ id = 2 /\ at \notin {"hello", "call"} =>
          \/ WroteBefore({"bad"}, id)
          \/ helper = "gone" /\ ~WroteBefore({"answer", "error"}, id)

\* A command with a --timeout, or one the user interrupts, returns, and then
\* neither the helper's process nor the reader is left, even when the helper
\* hangs ("It returns once the helper has exited and every goroutine Start
\* began has returned", Close).
HelperEnds ==
    (bounded \/ ctx = "done") ~> (at = "done" /\ helper = "gone" /\ reader = "ended")
=============================================================================
