------------------------- MODULE SessionExecProofs -------------------------
(***************************************************************************)
(* What clients see of the program is right: ShowsProgram of SessionExec,  *)
(* for every bound and every adapter the module allows.                    *)
(*                                                                         *)
(* ShowsProgram speaks of moments when nothing is in flight; its inductive *)
(* form says what is on its way meanwhile.  An adapter that announces      *)
(* resumes tells the truth in the order of its stream: the last stop or    *)
(* resume in it is the program's state, and when none is left the session  *)
(* has applied it or the filter holds it (Follows, Looks), because the     *)
(* resume is read before the answer of the request that made it            *)
(* (Announced).  An adapter that announces nothing tells only through its  *)
(* answers: with no request given up on, the one request on its way is the *)
(* one its sender waits for (OneRequest), and a granted answer, wherever   *)
(* it is, already counts as the program running (Silent).  A logged resume *)
(* is one nobody asked for, or is still in the stream ahead of the answer  *)
(* that execInFlight waits for (Echoes).                                   *)
(***************************************************************************)
EXTENDS SessionExec, FiniteSetTheorems, FunctionTheorems, TLAPS

----------------------------------------------------------------------------
(***************************************************************************)
(* Positions in a list, and what becomes of them when the first of the     *)
(* list is taken or one is added at the end.                               *)
(***************************************************************************)
\* Positions; those in s of the members of M; positions after the first is taken.
Pos         == Nat \ {0}
Where(s, M) == {i \in 1 .. Len(s) : s[i] \in M}
Down(X)     == {i \in Pos : i + 1 \in X}

\* The last of X and Y is in X; the first is; some X is after some Y; between
\* two of X is one of Y; all of X are below t.
Last(X, Y)  == \E i \in X : \A j \in Y : j < i
First(X, Y) == \E i \in X : \A j \in Y : i < j
After(X, Y) == \E i \in X : \E j \in Y : j < i
Apart(X, Y) == \A i, j \in X : i < j => \E k \in Y : i < k /\ k < j

Below(X, t) == X \in SUBSET Nat /\ \A i \in X : i < t

\* The first is taken: every position moves down by one.
LEMMA WhereTail ==
    ASSUME NEW S, NEW s \in Seq(S), s # <<>>, NEW M
    PROVE  /\ Where(Tail(s), M) = Down(Where(s, M))
           /\ 1 \in Where(s, M) <=> Head(s) \in M
           /\ Where(s, M) \in SUBSET Pos
<1>1. /\ Len(s) \in Nat /\ Len(s) >= 1 /\ Len(Tail(s)) = Len(s) - 1 /\ Head(s) = s[1]
      /\ \A i \in 1 .. Len(s) - 1 : Tail(s)[i] = s[i + 1]
  OBVIOUS
<1>2. ASSUME NEW i \in Where(Tail(s), M) PROVE i \in Down(Where(s, M))
  BY <1>1, <1>2 DEF Where, Down, Pos
<1>3. ASSUME NEW i \in Down(Where(s, M)) PROVE i \in Where(Tail(s), M)
  BY <1>1, <1>3 DEF Where, Down, Pos
<1>4. Where(s, M) \in SUBSET Pos /\ (1 \in Where(s, M) <=> Head(s) \in M)
  BY <1>1 DEF Where, Pos
<1> QED
  BY <1>2, <1>3, <1>4

\* One is added at the end.
LEMMA WhereAppend ==
    ASSUME NEW S, NEW s \in Seq(S), NEW m \in S, NEW M
    PROVE  /\ Below(Where(s, M), Len(s) + 1)
           /\ m \in M => Where(Append(s, m), M) = Where(s, M) \cup {Len(s) + 1}
           /\ m \notin M => Where(Append(s, m), M) = Where(s, M)
<1>1. /\ Len(s) \in Nat /\ Len(Append(s, m)) = Len(s) + 1
      /\ \A i \in 1 .. Len(s) : Append(s, m)[i] = s[i]
      /\ Append(s, m)[Len(s) + 1] = m
  OBVIOUS
<1> QED
  BY <1>1 DEF Where, Below

\* The last of two kinds stays the last, unless it was taken.
LEMMA DownLast ==
    ASSUME NEW X \in SUBSET Pos, NEW Y \in SUBSET Pos, Last(X, Y)
    PROVE  Last(Down(X), Down(Y)) \/ (1 \in X /\ Down(Y) = {})
<1>1. PICK i \in X : \A j \in Y : j < i
  BY DEF Last
<1>2. CASE i = 1
  BY <1>1, <1>2 DEF Down, Pos
<1>3. CASE i # 1
  <2>1. i - 1 \in Down(X)
    BY <1>3 DEF Down, Pos
  <2>2. \A j \in Down(Y) : j < i - 1
    BY <1>1 DEF Down, Pos
  <2> QED
    BY <2>1, <2>2 DEF Last
<1> QED
  BY <1>2, <1>3

\* The first of two kinds was the first, if none was taken.
LEMMA DownFirst ==
    ASSUME NEW X \in SUBSET Pos, NEW Y \in SUBSET Pos, First(Down(X), Down(Y)), 1 \notin Y
    PROVE  First(X, Y)
<1>1. PICK i \in Down(X) : \A j \in Down(Y) : i < j
  BY DEF First
<1>2. i + 1 \in X
  BY DEF Down
<1>3. ASSUME NEW j \in Y PROVE i + 1 < j
  <2>1. j - 1 \in Down(Y)
    BY DEF Down, Pos
  <2> QED
    BY <1>1, <2>1 DEF Down, Pos
<1> QED
  BY <1>2, <1>3 DEF First

\* Positions kept apart stay apart; and when one of them was taken, what parted
\* it from the next is now first.
LEMMA DownApart ==
    ASSUME NEW X \in SUBSET Pos, NEW Y \in SUBSET Pos, Apart(X, Y)
    PROVE  Apart(Down(X), Down(Y)) /\ (1 \in X => ~First(Down(X), Down(Y)))
<1>1. ASSUME NEW i \in Down(X), NEW j \in Down(X), i < j
      PROVE  \E k \in Down(Y) : i < k /\ k < j
  <2>1. i + 1 \in X /\ j + 1 \in X /\ i + 1 < j + 1 /\ i \in Pos /\ j \in Pos
    BY <1>1 DEF Down, Pos
  <2>2. PICK k \in Y : i + 1 < k /\ k < j + 1
    BY <2>1 DEF Apart
  <2>3. k - 1 \in Down(Y) /\ i < k - 1 /\ k - 1 < j
    BY <2>1, <2>2 DEF Down, Pos
  <2> QED
    BY <2>3
<1>2. ASSUME 1 \in X, NEW i \in Down(X)
      PROVE  \E j \in Down(Y) : ~(i < j)
  <2>1. i + 1 \in X /\ 1 < i + 1 /\ i \in Pos
    BY DEF Down, Pos
  <2>2. PICK k \in Y : 1 < k /\ k < i + 1
    BY <1>2, <2>1 DEF Apart
  <2>3. k - 1 \in Down(Y) /\ ~(i < k - 1)
    BY <2>1, <2>2 DEF Down, Pos
  <2> QED
    BY <2>3
<1> QED
  BY <1>1, <1>2 DEF Apart, First

\* One that comes after another still does, unless that was the one taken.
LEMMA DownAfter ==
    ASSUME NEW X \in SUBSET Pos, NEW Y \in SUBSET Pos
    PROVE  /\ After(Down(X), Down(Y)) => After(X, Y)
           /\ After(X, Y) /\ 1 \notin Y => After(Down(X), Down(Y))
<1>1. ASSUME NEW i \in Down(X), NEW j \in Down(Y), j < i PROVE After(X, Y)
  <2>1. i + 1 \in X /\ j + 1 \in Y /\ j + 1 < i + 1
    BY <1>1 DEF Down, Pos
  <2> QED
    BY <2>1 DEF After
<1>2. ASSUME NEW i \in X, NEW j \in Y, j < i, 1 \notin Y PROVE After(Down(X), Down(Y))
  <2>1. i - 1 \in Down(X) /\ j - 1 \in Down(Y) /\ j - 1 < i - 1
    BY <1>2 DEF Down, Pos
  <2> QED
    BY <2>1 DEF After
<1> QED
  BY <1>1, <1>2 DEF After

\* Nothing is left only of nothing or of the one taken.
LEMMA DownEmpty ==
    ASSUME NEW X \in SUBSET Pos
    PROVE  /\ 1 \notin X => (Down(X) = {} <=> X = {})
           /\ X = {} => Down(X) = {}
           /\ (\A i, j \in X : i = j) => \A i, j \in Down(X) : i = j
           /\ 1 \in X /\ (\A i, j \in X : i = j) => Down(X) = {}
<1>1. ASSUME NEW i \in X, i # 1 PROVE i - 1 \in Down(X)
  BY <1>1 DEF Down, Pos
<1>2. ASSUME NEW i \in Down(X) PROVE i + 1 \in X /\ i \in Nat /\ i + 1 # 1
  BY DEF Down, Pos
<1>3. ASSUME \A i, j \in X : i = j, NEW i \in Down(X), NEW j \in Down(X) PROVE i = j
  BY <1>2, <1>3
<1>4. ASSUME 1 \in X, \A i, j \in X : i = j PROVE Down(X) = {}
  BY <1>2, <1>4
<1> QED
  BY <1>1, <1>2, <1>3, <1>4

\* What is added at the end is the last.
LEMMA AddedLast ==
    ASSUME NEW t \in Nat, NEW X, NEW Y, Below(X, t), Below(Y, t)
    PROVE  Last(X \cup {t}, Y)
BY DEF Last, Below

\* What is added at the end is not before anything, so the first stays first.
LEMMA AddedFirst ==
    ASSUME NEW t \in Nat, NEW X, NEW Y, Below(X, t), Below(Y, t)
    PROVE  /\ First(X \cup {t}, Y) => First(X, Y) \/ Y = {}
           /\ First(X, Y \cup {t}) <=> First(X, Y)
BY DEF First, Below

\* Adding one keeps them apart, if something came after the last of them.
LEMMA AddedApart ==
    ASSUME NEW t \in Nat, NEW X, NEW Y, Below(X, t), Below(Y, t)
    PROVE  /\ Apart(X, Y) => Apart(X, Y \cup {t})
           /\ Apart(X, Y) /\ (Last(Y, X) \/ X = {}) => Apart(X \cup {t}, Y)
BY DEF Apart, Last, Below

\* What is added at the end comes after all that was there.
LEMMA AddedAfter ==
    ASSUME NEW t \in Nat, NEW X, NEW Y, Below(X, t), Below(Y, t)
    PROVE  /\ After(X \cup {t}, Y) <=> After(X, Y) \/ Y # {}
           /\ After(X, Y \cup {t}) <=> After(X, Y)
<1>1. \A j \in Y : j < t
  BY DEF Below
<1>2. After(X \cup {t}, Y) <=> After(X, Y) \/ Y # {}
  BY <1>1, Zenon DEF After
<1>3. After(X, Y \cup {t}) <=> After(X, Y)
  BY DEF After, Below
<1> QED
  BY <1>2, <1>3

\* Taking the first lowers the number of positions by one or by none.
LEMMA DownCount ==
    ASSUME NEW X \in SUBSET Pos, IsFiniteSet(X)
    PROVE  /\ IsFiniteSet(Down(X))
           /\ Cardinality(Down(X)) = IF 1 \in X THEN Cardinality(X) - 1 ELSE Cardinality(X)
<1> DEFINE f == [i \in X \ {1} |-> i - 1]
<1>1. IsFiniteSet(X \ {1}) /\ Cardinality(X) \in Nat
      /\ Cardinality(X \ {1}) = IF 1 \in X THEN Cardinality(X) - 1 ELSE Cardinality(X)
  BY FS_RemoveElement, FS_CardinalityType, FS_Subset
<1>2. f \in Bijection(X \ {1}, Down(X))
  <2>1. \A i \in X \ {1} : i - 1 \in Down(X)
    BY DEF Down, Pos
  <2>2. \A i, j \in X \ {1} : f[i] = f[j] => i = j
    BY DEF Pos
  <2>3. ASSUME NEW k \in Down(X) PROVE \E i \in X \ {1} : f[i] = k
    <3>1. k + 1 \in X \ {1} /\ f[k + 1] = k
      BY DEF Down, Pos
    <3> QED
      BY <3>1
  <2>4. f \in [X \ {1} -> Down(X)]
    BY <2>1
  <2> HIDE DEF f
  <2> QED
    BY <2>2, <2>3, <2>4, Fun_IsBij
<1> QED
  BY <1>1, <1>2, FS_Bijection DEF ExistsBijection
----------------------------------------------------------------------------
(***************************************************************************)
(* What is on its way to the session.                                      *)
(***************************************************************************)
\* Messages by name: stops, and answers that grant what was asked.
Of(name)  == {m \in Messages : m.msg = name}
StopMsgs  == Of("stopBreakpoint") \cup Of("stopOther")
YesMsgs   == {m \in Of("response") : m.ok}

\* Where in the stream: stops, resumes, the end, answers; answers that grant,
\* those to request n, answers to another request, to one past the n-th.
StopsAt   == Where(stream, StopMsgs)
ContsAt   == Where(stream, Of("continued"))
TermsAt   == Where(stream, Of("terminated"))
RepliesAt == Where(stream, Of("response"))
YesAt     == Where(stream, YesMsgs)
YesTo(n)  == Where(stream, {m \in YesMsgs : m.id = n})
NotTo(n)  == Where(stream, {m \in Of("response") : m.id # n})
Beyond(n) == Where(stream, {m \in Of("response") : m.id \notin 1 .. n})

\* The end is on its way; no stop is; no resume is.
HasTerm == TermsAt # {}
NoStop  == StopsAt = {}
NoCont  == ContsAt = {}

\* The last thing on its way is a stop; a resume.  The first one is a stop.
LatestStop == Last(StopsAt, ContsAt)
LatestCont == Last(ContsAt, StopsAt)
NextStop   == First(StopsAt, ContsAt)

\* Between two stops is a resume.
Alternating == Apart(StopsAt, ContsAt)

\* Answers: none; at most one, to request n; a yes; a yes to request n before
\* any resume; a yes after a resume; all to the first n requests.
NoReply      == RepliesAt = {}
OnlyReply(n) == NotTo(n) = {} /\ \A i, j \in RepliesAt : i = j
Yes          == YesAt # {}
EarlyYes(n)  == First(YesTo(n), ContsAt)
LateYes      == After(YesAt, ContsAt)
RepliesTo(n) == Beyond(n) = {}

----------------------------------------------------------------------------
\* The holder of execMu waits for an answer; what it asked for; the holders
\* that ask for a resume.
Awaits      == job.pc = "sent" /\ job.answer = "none"
RequestKind == IF job.kind = "filter" THEN "continue" ELSE job.kind
Resuming    == Resumes \cup {"filter"}

\* The steps of each kind of holder of execMu, and what each has set by then.
JobShape ==
    /\ job.kind = "none" => job = Idle
    /\ job.pc = "idle" => job = Idle
    /\ job.kind = "terminate" <=> job.pc \in {"disconnect", "end"}
    /\ job.pc = "threads" => job.kind = "pause"
    /\ job.kind = "pause" => job.pc \in {"threads", "admitted", "sent"}
    /\ job.kind \in Resumes => job.pc \in {"admitted", "sent"}
    /\ job.kind = "filter" => job.pc \in {"inspect", "publish", "pass", "sent"}
    /\ job.kind = "filter" => job.gen \notin filters /\ job.gen \in 1 .. stopGen
    /\ job.before <= stops
    /\ job.id <= sent
    /\ job.answer # "none" => job.pc \in {"sent", "publish"}
    /\ job.answer = "ok" => job.pc = "sent"
    /\ execInFlight <=> job.pc = "sent"

\* The read loop ends after the adapter has, and the program exits with it; an
\* exit that nobody asked for is still to be read.
Ends ==
    /\ done => ~conn /\ stream = <<>>
    /\ ~conn => prog = "exited"
    /\ state = "exited" => shutdown # "no"
    /\ state = "starting" => configuring
    /\ prog = "exited" /\ conn /\ shutdown = "no" => HasTerm

\* Requests have the ids that were given, and the one waited for is what its
\* sender asked.
InboxIds ==
    \A i \in 1 .. Len(inbox) :
        /\ inbox[i].id \in 1 .. sent
        /\ Awaits /\ inbox[i].id = job.id => inbox[i].kind = RequestKind

\* Answers are to requests that were sent.
AnswerIds ==
    /\ owed.id <= sent
    /\ owed.id = 0 => owed = NoAnswer
    /\ RepliesTo(sent)

\* While nothing was given up on, the one request, or its answer, that is under
\* way is the one its sender waits for.
OneRequest ==
  timeouts = 0 /\ ~done =>
    /\ inbox # <<>> =>
        /\ Awaits /\ Len(inbox) = 1 /\ inbox[1].id = job.id
        /\ owed = NoAnswer /\ NoReply
    /\ owed # NoAnswer => Awaits /\ owed.id = job.id /\ NoReply
    /\ NoReply \/ (Awaits /\ OnlyReply(job.id))

\* The filter holds the latest stop; a stop is shown; news was read since the
\* holder of execMu looked.
Held  == stopGen \in filters \/ (job.kind = "filter" /\ job.gen = stopGen)
Shown == state = "stopped"
Moved == IF job.kind = "filter" THEN job.gen # stopGen
         ELSE state # "stopped" \/ stops # job.before

\* An announced resume reaches the session before the answer to its request.
Announced ==
  announces =>
    /\ job.kind \in Resuming /\ Awaits /\ ~Moved =>
         (owed.id = job.id /\ owed.ok => ~NoCont) /\ ~EarlyYes(job.id)
    /\ job.kind \in Resuming /\ job.answer = "ok" => Moved

\* With an announcing adapter, the last stop or resume on its way is the
\* program's state; when there is none the session has it, held or shown.
Follows ==
  announces =>
    /\ prog = "stopped" /\ shutdown = "no" => LatestStop \/ (NoCont /\ (Held \/ Shown))
    /\ prog = "running" => LatestCont \/ (NoStop /\ ~Held /\ ~Shown)

\* With an announcing adapter whose threads stop together, a stop is not read
\* while another is held or shown.
Looks ==
  announces /\ ~ThreadStops =>
    ~(Held /\ Shown) /\ Alternating /\ (Held \/ Shown => ~NextStop)

\* The request under way was granted, wherever the answer is; so what is held,
\* or shown, is about to move on.
Granted == owed.ok \/ job.answer = "ok" \/ Yes
HeldNow == stopGen \in filters \/ (job.kind = "filter" /\ job.gen = stopGen /\ ~Granted)
ShownNow == state = "stopped" /\ ~(job.kind \in Resumes /\ stops = job.before /\ Granted)

\* With an adapter that announces nothing, the stops on their way and the
\* requests it granted make the program's state.
Silent ==
  ~announces /\ timeouts = 0 /\ surprises = 0 /\ ~done =>
    /\ NoCont /\ Alternating
    /\ HeldNow \/ ShownNow => NoStop
    /\ ~(Held /\ ShownNow)
    /\ prog = "running" => NoStop /\ ~HeldNow /\ ~ShownNow
    /\ prog = "stopped" /\ shutdown = "no" => ~NoStop \/ HeldNow \/ ShownNow
    /\ job.kind \in Resumes /\ ~Granted =>
        /\ prog # "running" /\ NoStop /\ stopGen \notin filters
        /\ state \in {"stopped", "exited"}
        /\ state = "stopped" => stops = job.before
    /\ job.kind = "filter" /\ ~Granted => job.gen = stopGen

\* The resumes logged or still on their way are surprises, but for one that the
\* request under way has caused and whose answer is behind it.
Echoes ==
  timeouts = 0 =>
    \/ news + Cardinality(ContsAt) <= surprises
    \/ /\ news + Cardinality(ContsAt) <= surprises + 1
       /\ execInFlight /\ ((owed.ok /\ ~NoCont) \/ LateYes)

----------------------------------------------------------------------------
(***************************************************************************)
(* Types, in the parts that a step can be shown to keep by itself.         *)
(***************************************************************************)
\* The Boolean variables.
Flags ==
    /\ stepping \in BOOLEAN /\ pauseRequested \in BOOLEAN /\ execInFlight \in BOOLEAN
    /\ configuring \in BOOLEAN /\ watching \in BOOLEAN /\ done \in BOOLEAN
    /\ conn \in BOOLEAN /\ announces \in BOOLEAN

\* The variables with a few named values.
Phases ==
    /\ state \in States
    /\ shutdown \in {"no", "asked", "over"}
    /\ daemon \in {"idle", "waits", "ends", "done"}
    /\ prog \in {"running", "stopped", "exited"}

\* The counters.
Counts ==
    /\ stops \in Nat /\ endings \in Nat /\ news \in Nat
    /\ execs \in Nat /\ ownStops \in Nat /\ surprises \in Nat
    /\ timeouts \in Nat /\ sent \in Nat

\* Generations of stops.
Gens == stopGen \in Nat /\ filters \subseteq 1 .. stopGen

\* What is on its way.
Queues == inbox \in Seq(Requests) /\ stream \in Seq(Messages) /\ owed \in Answers

\* The request the holder of execMu sent keeps it well formed.
LEMMA SentJob ==
    ASSUME NEW j \in Jobs, NEW n \in Nat
    PROVE  [j EXCEPT !.pc = "sent", !.id = n,
                     !.answer = IF done THEN "err" ELSE "none"] \in Jobs
BY DEF Jobs, Pcs

\* Every event is a message.
LEMMA EventTyped ==
    ASSUME NEW m \in Msgs
    PROVE  Event(m) \in Messages
BY DEF Event, Messages

\* The kinds of request a holder of execMu sends.
LEMMA SentKind ==
    ASSUME job \in Jobs, JobShape, job.pc = "admitted"
    PROVE  job.kind \in {"pause", "continue", "step"}
BY DEF JobShape, Jobs, Kinds, Resumes, Idle

\* The flags stay Boolean.
LEMMA FlagsKept ==
    ASSUME Flags, [Next]_vars
    PROVE  (Flags)'
<1> USE DEF Flags, sessionVars, threadVars, adapterVars, boundVars
<1>1. CASE Exec
  <2>1. CASE PauseThreads
    BY <2>1 DEF PauseThreads
  <2>2. CASE PauseAdmit
    BY <2>2 DEF PauseAdmit
  <2>3. CASE Abandon
    BY <2>3 DEF Abandon
  <2>4. CASE Send
    BY <2>4 DEF Send, Request
  <2>5. CASE RequestTimeout
    BY <2>5 DEF RequestTimeout
  <2>6. CASE SendDone
    BY <2>6 DEF SendDone
  <2>7. ASSUME NEW k \in Resumes \cup {"pause"}, Admit(k) PROVE (Flags)'
    BY <2>7 DEF Admit
  <2> QED
    BY <1>1, <2>1, <2>2, <2>3, <2>4, <2>5, <2>6, <2>7 DEF Exec
<1>2. CASE Filter
  <2>1. ASSUME NEW g \in filters, FilterStart(g) PROVE (Flags)'
    BY <2>1 DEF FilterStart
  <2>2. ASSUME NEW w \in BOOLEAN, FilterDecide(w) PROVE (Flags)'
    BY <2>2 DEF FilterDecide
  <2>3. CASE FilterPublish
    BY <2>3 DEF FilterPublish, Publish, ApplyStop
  <2>4. CASE FilterContinue
    BY <2>4 DEF FilterContinue, Request
  <2>5. CASE FilterDone
    BY <2>5 DEF FilterDone
  <2> QED
    BY <1>2, <2>1, <2>2, <2>3, <2>4, <2>5 DEF Filter
<1>3. CASE Read
  BY <1>3 DEF Read, Deliver, ReadEOF, Dispatch, OnStopped, OnContinued, OnTerminated,
     OnResponse, ApplyStop, End
<1>4. CASE ConfigureEnd
  BY <1>4 DEF ConfigureEnd
<1>5. CASE Ending
  <2>1. CASE Terminate
    BY <2>1 DEF Terminate, StartShutdown
  <2>2. CASE TerminateWaited
    BY <2>2 DEF TerminateWaited
  <2>3. CASE TerminateEnd
    BY <2>3 DEF TerminateEnd, End
  <2>4. CASE DaemonTerminate
    BY <2>4 DEF DaemonTerminate, StartShutdown
  <2>5. CASE DaemonWaited
    BY <2>5 DEF DaemonWaited
  <2>6. CASE DaemonEnd
    BY <2>6 DEF DaemonEnd, End
  <2>7. CASE ShutdownDone
    BY <2>7 DEF ShutdownDone
  <2>8. CASE ShutdownTimeout
    BY <2>8 DEF ShutdownTimeout
  <2>9. CASE AdapterGone
    BY <2>9 DEF AdapterGone, End
  <2> QED
    BY <1>5, <2>1, <2>2, <2>3, <2>4, <2>5, <2>6, <2>7, <2>8, <2>9 DEF Ending
<1>6. CASE Adapter
  <2>1. CASE AdapterTakes
    BY <2>1 DEF AdapterTakes
  <2>2. CASE AdapterAnswers
    BY <2>2 DEF AdapterAnswers
  <2>3. CASE ProgramStops
    BY <2>3 DEF ProgramStops
  <2>4. CASE ProgramSurprises
    BY <2>4 DEF ProgramSurprises
  <2>5. CASE ProgramExits
    BY <2>5 DEF ProgramExits
  <2>6. CASE AdapterCloses
    BY <2>6 DEF AdapterCloses
  <2> QED
    BY <1>6, <2>1, <2>2, <2>3, <2>4, <2>5, <2>6 DEF Adapter
<1>7. CASE UNCHANGED vars
  BY <1>7 DEF vars
<1> QED
  BY <1>1, <1>2, <1>3, <1>4, <1>5, <1>6, <1>7 DEF Next

\* States and phases stay among the known ones.
LEMMA PhasesKept ==
    ASSUME Phases, [Next]_vars
    PROVE  (Phases)'
<1> USE DEF Phases, States, sessionVars, threadVars, adapterVars, boundVars
<1>1. CASE Exec
  BY <1>1 DEF Exec, PauseThreads, PauseAdmit, Abandon, Send, RequestTimeout, SendDone,
     Admit, Request
<1>2. CASE Filter
  BY <1>2 DEF Filter, FilterStart, FilterDecide, FilterPublish, FilterContinue,
     FilterDone, Publish, ApplyStop, Request
<1>3. CASE Read
  BY <1>3 DEF Read, Deliver, ReadEOF, Dispatch, OnStopped, OnContinued, OnTerminated,
     OnResponse, ApplyStop, End
<1>4. CASE ConfigureEnd
  BY <1>4 DEF ConfigureEnd
<1>5. CASE Ending
  BY <1>5 DEF Ending, Terminate, TerminateWaited, TerminateEnd, DaemonTerminate,
     DaemonWaited, DaemonEnd, ShutdownDone, ShutdownTimeout, AdapterGone, StartShutdown,
     End
<1>6. CASE Adapter
  BY <1>6 DEF Adapter, AdapterTakes, AdapterAnswers, ProgramStops, ProgramSurprises,
     ProgramExits, AdapterCloses
<1>7. CASE UNCHANGED vars
  BY <1>7 DEF vars
<1> QED
  BY <1>1, <1>2, <1>3, <1>4, <1>5, <1>6, <1>7 DEF Next

\* The counters stay natural numbers.
LEMMA CountsKept ==
    ASSUME Counts, [Next]_vars
    PROVE  (Counts)'
<1> USE DEF Counts, sessionVars, threadVars, adapterVars, boundVars
<1>1. CASE Exec
  <2>1. CASE PauseThreads
    BY <2>1 DEF PauseThreads
  <2>2. CASE PauseAdmit
    BY <2>2 DEF PauseAdmit
  <2>3. CASE Abandon
    BY <2>3 DEF Abandon
  <2>4. CASE Send
    BY <2>4 DEF Send, Request
  <2>5. CASE RequestTimeout
    BY <2>5 DEF RequestTimeout
  <2>6. CASE SendDone
    BY <2>6 DEF SendDone
  <2>7. ASSUME NEW k \in Resumes \cup {"pause"}, Admit(k) PROVE (Counts)'
    BY <2>7 DEF Admit
  <2> QED
    BY <1>1, <2>1, <2>2, <2>3, <2>4, <2>5, <2>6, <2>7 DEF Exec
<1>2. CASE Filter
  <2>1. ASSUME NEW g \in filters, FilterStart(g) PROVE (Counts)'
    BY <2>1 DEF FilterStart
  <2>2. ASSUME NEW w \in BOOLEAN, FilterDecide(w) PROVE (Counts)'
    BY <2>2 DEF FilterDecide
  <2>3. CASE FilterPublish
    BY <2>3 DEF FilterPublish, Publish, ApplyStop
  <2>4. CASE FilterContinue
    BY <2>4 DEF FilterContinue, Request
  <2>5. CASE FilterDone
    BY <2>5 DEF FilterDone
  <2> QED
    BY <1>2, <2>1, <2>2, <2>3, <2>4, <2>5 DEF Filter
<1>3. CASE Read
  BY <1>3 DEF Read, Deliver, ReadEOF, Dispatch, OnStopped, OnContinued, OnTerminated,
     OnResponse, ApplyStop, End
<1>4. CASE ConfigureEnd
  BY <1>4 DEF ConfigureEnd
<1>5. CASE Ending
  BY <1>5 DEF Ending, Terminate, TerminateWaited, TerminateEnd, DaemonTerminate,
     DaemonWaited, DaemonEnd, ShutdownDone, ShutdownTimeout, AdapterGone, StartShutdown,
     End
<1>6. CASE Adapter
  <2>1. CASE AdapterTakes
    BY <2>1 DEF AdapterTakes
  <2>2. CASE AdapterAnswers
    BY <2>2 DEF AdapterAnswers
  <2>3. CASE ProgramStops
    BY <2>3 DEF ProgramStops
  <2>4. CASE ProgramSurprises
    BY <2>4 DEF ProgramSurprises
  <2>5. CASE ProgramExits
    BY <2>5 DEF ProgramExits
  <2>6. CASE AdapterCloses
    BY <2>6 DEF AdapterCloses
  <2> QED
    BY <1>6, <2>1, <2>2, <2>3, <2>4, <2>5, <2>6 DEF Adapter
<1>7. CASE UNCHANGED vars
  BY <1>7 DEF vars
<1> QED
  BY <1>1, <1>2, <1>3, <1>4, <1>5, <1>6, <1>7 DEF Next

\* A held stop has a generation already counted.
LEMMA GensKept ==
    ASSUME Gens, [Next]_vars
    PROVE  (Gens)'
<1> USE DEF Gens, sessionVars, threadVars, adapterVars, boundVars
<1>1. CASE Exec
  BY <1>1 DEF Exec, PauseThreads, PauseAdmit, Abandon, Send, RequestTimeout, SendDone,
     Admit, Request
<1>2. CASE Filter
  BY <1>2 DEF Filter, FilterStart, FilterDecide, FilterPublish, FilterContinue,
     FilterDone, Publish, ApplyStop, Request
<1>3. CASE Read
  BY <1>3 DEF Read, Deliver, ReadEOF, Dispatch, OnStopped, OnContinued, OnTerminated,
     OnResponse, ApplyStop, End
<1>4. CASE ConfigureEnd
  BY <1>4 DEF ConfigureEnd
<1>5. CASE Ending
  BY <1>5 DEF Ending, Terminate, TerminateWaited, TerminateEnd, DaemonTerminate,
     DaemonWaited, DaemonEnd, ShutdownDone, ShutdownTimeout, AdapterGone, StartShutdown,
     End
<1>6. CASE Adapter
  BY <1>6 DEF Adapter, AdapterTakes, AdapterAnswers, ProgramStops, ProgramSurprises,
     ProgramExits, AdapterCloses
<1>7. CASE UNCHANGED vars
  BY <1>7 DEF vars
<1> QED
  BY <1>1, <1>2, <1>3, <1>4, <1>5, <1>6, <1>7 DEF Next

\* What the holder of execMu does stays well formed.
LEMMA JobKept ==
    ASSUME job \in Jobs, JobShape, stops \in Nat, sent \in Nat, Gens, [Next]_vars
    PROVE  (job \in Jobs)'
<1> USE DEF Gens, Jobs, Kinds, Pcs, Resumes, Idle, sessionVars, threadVars, adapterVars,
   boundVars
<1>1. CASE Exec
  <2>1. CASE PauseThreads
    BY <2>1 DEF PauseThreads
  <2>2. CASE PauseAdmit
    BY <2>2 DEF PauseAdmit
  <2>3. CASE Abandon
    BY <2>3 DEF Abandon
  <2>4. CASE Send
    <3>1. sent + 1 \in Nat
      OBVIOUS
    <3>2. job' = [job EXCEPT !.pc = "sent", !.id = sent + 1,
                            !.answer = IF done THEN "err" ELSE "none"]
      BY <2>4 DEF Send
    <3> HIDE DEF Jobs, Kinds, Pcs
    <3> QED
      BY <3>1, <3>2, SentJob
  <2>5. CASE RequestTimeout
    BY <2>5 DEF RequestTimeout
  <2>6. CASE SendDone
    BY <2>6 DEF SendDone
  <2>7. ASSUME NEW k \in Resumes \cup {"pause"}, Admit(k) PROVE (job \in Jobs)'
    BY <2>7 DEF Admit
  <2> QED
    BY <1>1, <2>1, <2>2, <2>3, <2>4, <2>5, <2>6, <2>7 DEF Exec
<1>2. CASE Filter
  <2>1. ASSUME NEW g \in filters, FilterStart(g) PROVE (job \in Jobs)'
    <3>1. g \in Nat
      BY <2>1
    <3> QED
      BY <2>1, <3>1 DEF FilterStart
  <2>2. ASSUME NEW w \in BOOLEAN, FilterDecide(w) PROVE (job \in Jobs)'
    BY <2>2 DEF FilterDecide
  <2>3. CASE FilterPublish
    BY <2>3 DEF FilterPublish, Publish, ApplyStop
  <2>4. CASE FilterContinue
    <3>1. sent + 1 \in Nat /\ Idle \in Jobs
      OBVIOUS
    <3>2. CASE Pending(job.gen)
      <4>1. job' = [job EXCEPT !.pc = "sent", !.id = sent + 1,
                              !.answer = IF done THEN "err" ELSE "none"]
        BY <2>4, <3>2 DEF FilterContinue
      <4> HIDE DEF Jobs, Kinds, Pcs
      <4> QED
        BY <3>1, <4>1, SentJob
    <3>3. CASE ~Pending(job.gen)
      BY <2>4, <3>1, <3>3 DEF FilterContinue
    <3> QED
      BY <3>2, <3>3
  <2>5. CASE FilterDone
    BY <2>5 DEF FilterDone
  <2> QED
    BY <1>2, <2>1, <2>2, <2>3, <2>4, <2>5 DEF Filter
<1>3. CASE Read
  BY <1>3 DEF Read, Deliver, ReadEOF, Dispatch, OnStopped, OnContinued, OnTerminated,
     OnResponse, ApplyStop, End
<1>4. CASE ConfigureEnd
  BY <1>4 DEF ConfigureEnd
<1>5. CASE Ending
  <2>1. CASE Terminate
    BY <2>1 DEF Terminate, StartShutdown
  <2>2. CASE TerminateWaited
    BY <2>2 DEF TerminateWaited
  <2>3. CASE TerminateEnd
    BY <2>3 DEF TerminateEnd, End
  <2>4. CASE DaemonTerminate
    BY <2>4 DEF DaemonTerminate, StartShutdown
  <2>5. CASE DaemonWaited
    BY <2>5 DEF DaemonWaited
  <2>6. CASE DaemonEnd
    BY <2>6 DEF DaemonEnd, End
  <2>7. CASE ShutdownDone
    BY <2>7 DEF ShutdownDone
  <2>8. CASE ShutdownTimeout
    BY <2>8 DEF ShutdownTimeout
  <2>9. CASE AdapterGone
    BY <2>9 DEF AdapterGone, End
  <2> QED
    BY <1>5, <2>1, <2>2, <2>3, <2>4, <2>5, <2>6, <2>7, <2>8, <2>9 DEF Ending
<1>6. CASE Adapter
  BY <1>6 DEF Adapter, AdapterTakes, AdapterAnswers, ProgramStops, ProgramSurprises,
     ProgramExits, AdapterCloses
<1>7. CASE UNCHANGED vars
  BY <1>7 DEF vars
<1> QED
  BY <1>1, <1>2, <1>3, <1>4, <1>5, <1>6, <1>7 DEF Next

\* What is on its way stays requests, answers and messages.
LEMMA QueuesKept ==
    ASSUME Queues, job \in Jobs, JobShape, sent \in Nat, conn \in BOOLEAN, [Next]_vars
    PROVE  (Queues)'
<1> USE DEF Queues, sessionVars, threadVars, adapterVars, boundVars
<1>1. CASE Exec
  <2>1. CASE PauseThreads
    BY <2>1 DEF PauseThreads
  <2>2. CASE PauseAdmit
    BY <2>2 DEF PauseAdmit
  <2>3. CASE Abandon
    BY <2>3 DEF Abandon
  <2>4. CASE Send
    <3>1. [kind |-> job.kind, id |-> sent + 1] \in Requests
      BY <2>4, SentKind DEF Send, Requests
    <3> QED
      BY <2>4, <3>1 DEF Send, Request
  <2>5. CASE RequestTimeout
    BY <2>5 DEF RequestTimeout
  <2>6. CASE SendDone
    BY <2>6 DEF SendDone
  <2>7. ASSUME NEW k \in Resumes \cup {"pause"}, Admit(k) PROVE (Queues)'
    BY <2>7 DEF Admit
  <2> QED
    BY <1>1, <2>1, <2>2, <2>3, <2>4, <2>5, <2>6, <2>7 DEF Exec
<1>2. CASE Filter
  <2>1. ASSUME NEW g \in filters, FilterStart(g) PROVE (Queues)'
    BY <2>1 DEF FilterStart
  <2>2. ASSUME NEW w \in BOOLEAN, FilterDecide(w) PROVE (Queues)'
    BY <2>2 DEF FilterDecide
  <2>3. CASE FilterPublish
    BY <2>3 DEF FilterPublish, Publish, ApplyStop
  <2>4. CASE FilterContinue
    <3>1. [kind |-> "continue", id |-> sent + 1] \in Requests
      BY DEF Requests
    <3>2. CASE Pending(job.gen)
      <4>1. Request("continue") /\ UNCHANGED <<owed, stream>>
        BY <2>4, <3>2 DEF FilterContinue
      <4> QED
        BY <3>1, <4>1 DEF Request
    <3>3. CASE ~Pending(job.gen)
      BY <2>4, <3>3 DEF FilterContinue
    <3> QED
      BY <3>2, <3>3
  <2>5. CASE FilterDone
    BY <2>5 DEF FilterDone
  <2> QED
    BY <1>2, <2>1, <2>2, <2>3, <2>4, <2>5 DEF Filter
<1>3. CASE Read
  <2>1. CASE Deliver
    BY <2>1 DEF Deliver, Dispatch, OnStopped, OnContinued, OnTerminated, OnResponse,
       ApplyStop, End
  <2>2. CASE ReadEOF
    BY <2>2 DEF ReadEOF
  <2> QED
    BY <1>3, <2>1, <2>2 DEF Read
<1>4. CASE ConfigureEnd
  BY <1>4 DEF ConfigureEnd
<1>5. CASE Ending
  BY <1>5 DEF Ending, Terminate, TerminateWaited, TerminateEnd, DaemonTerminate,
     DaemonWaited, DaemonEnd, ShutdownDone, ShutdownTimeout, AdapterGone, StartShutdown,
     End
<1>6. CASE Adapter
  <2>1. CASE AdapterTakes
    <3>1. Head(inbox) \in Requests /\ Tail(inbox) \in Seq(Requests)
      BY <2>1 DEF AdapterTakes
    <3>2. Event("continued") \in Messages /\ Event("stopOther") \in Messages
      BY EventTyped DEF Msgs
    <3>3. \A b \in BOOLEAN : [id |-> Head(inbox).id, ok |-> b] \in Answers
      BY <3>1 DEF Requests, Answers
    <3>4. inbox' \in Seq(Requests) /\ owed' \in Answers
      BY <2>1, <3>1, <3>3 DEF AdapterTakes
    <3>5. \/ Emit(Event("continued")) \/ Emit(Event("stopOther")) \/ UNCHANGED stream
      BY <2>1 DEF AdapterTakes
    <3>6. \A m \in Messages : Append(stream, m) \in Seq(Messages)
      OBVIOUS
    <3> QED
      BY <3>2, <3>4, <3>5, <3>6 DEF Emit
  <2>2. CASE AdapterAnswers
    <3>1. Response(owed.id, owed.ok) \in Messages /\ NoAnswer \in Answers
      BY DEF Response, Messages, Msgs, Answers, NoAnswer
    <3> QED
      BY <2>2, <3>1 DEF AdapterAnswers, Emit
  <2>3. CASE ProgramStops
    BY <2>3, EventTyped DEF ProgramStops, Emit, Msgs
  <2>4. CASE ProgramSurprises
    <3>1. PICK m \in Msgs : Emit(Event(m))
      BY <2>4 DEF ProgramSurprises, Msgs
    <3> QED
      BY <2>4, <3>1, EventTyped DEF ProgramSurprises, Emit
  <2>5. CASE ProgramExits
    BY <2>5, EventTyped DEF ProgramExits, Emit, Msgs
  <2>6. CASE AdapterCloses
    BY <2>6 DEF AdapterCloses
  <2> QED
    BY <1>6, <2>1, <2>2, <2>3, <2>4, <2>5, <2>6 DEF Adapter
<1>7. CASE UNCHANGED vars
  BY <1>7 DEF vars
<1> QED
  BY <1>1, <1>2, <1>3, <1>4, <1>5, <1>6, <1>7 DEF Next

\* What the holder of execMu does, by the step it is at.
LEMMA JobShapeKept ==
    ASSUME TypeOK, JobShape, [Next]_vars
    PROVE  (JobShape)'
<1> USE DEF TypeOK, Jobs, JobShape, Resumes, Kinds, Pcs, Idle, sessionVars, threadVars,
   adapterVars, boundVars
<1>1. CASE Exec
  <2>1. CASE PauseThreads
    BY <2>1 DEF PauseThreads
  <2>2. CASE PauseAdmit
    BY <2>2 DEF PauseAdmit
  <2>3. CASE Abandon
    BY <2>3 DEF Abandon
  <2>4. CASE Send
    <3>1. /\ job' = [job EXCEPT !.pc = "sent", !.id = sent + 1,
                               !.answer = IF done THEN "err" ELSE "none"]
          /\ job.pc = "admitted" /\ execInFlight' = TRUE /\ sent' = sent + 1
          /\ UNCHANGED <<stops, stopGen, filters>>
      BY <2>4 DEF Send, Request
    <3> QED
      BY <3>1, SMTT(30)
  <2>5. CASE RequestTimeout
    BY <2>5, SMTT(30) DEF RequestTimeout
  <2>6. CASE SendDone
    BY <2>6 DEF SendDone
  <2>7. ASSUME NEW k \in Resumes \cup {"pause"}, Admit(k) PROVE (JobShape)'
    BY <2>7 DEF Admit
  <2> QED
    BY <1>1, <2>1, <2>2, <2>3, <2>4, <2>5, <2>6, <2>7 DEF Exec
<1>2. CASE Filter
  <2>1. ASSUME NEW g \in filters, FilterStart(g) PROVE (JobShape)'
    BY <2>1 DEF FilterStart
  <2>2. ASSUME NEW w \in BOOLEAN, FilterDecide(w) PROVE (JobShape)'
    BY <2>2 DEF FilterDecide
  <2>3. CASE FilterPublish
    BY <2>3 DEF FilterPublish, Publish, ApplyStop
  <2>4. CASE FilterContinue
    <3>1. CASE Pending(job.gen)
      <4>1. /\ job' = [job EXCEPT !.pc = "sent", !.id = sent + 1,
                                 !.answer = IF done THEN "err" ELSE "none"]
            /\ job.kind = "filter" /\ execInFlight' = TRUE /\ sent' = sent + 1
            /\ UNCHANGED <<stops, stopGen, filters>>
        BY <2>4, <3>1 DEF FilterContinue, Request
      <4> QED
        BY <4>1, SMTT(30)
    <3>2. CASE ~Pending(job.gen)
      BY <2>4, <3>2 DEF FilterContinue
    <3> QED
      BY <3>1, <3>2
  <2>5. CASE FilterDone
    BY <2>5 DEF FilterDone
  <2> QED
    BY <1>2, <2>1, <2>2, <2>3, <2>4, <2>5 DEF Filter
<1>3. CASE Read
  <2>1. CASE Deliver
    <3>1. ASSUME NEW f \in BOOLEAN, OnStopped(f) PROVE JobShape'
      BY <2>1, <3>1 DEF Deliver, OnStopped, ApplyStop
    <3>2. CASE OnContinued
      BY <2>1, <3>2 DEF Deliver, OnContinued
    <3>3. CASE OnTerminated
      BY <2>1, <3>3 DEF Deliver, OnTerminated
    <3>4. CASE OnResponse
      BY <2>1, <3>4 DEF Deliver, OnResponse
    <3> QED
      BY <2>1, <3>1, <3>2, <3>3, <3>4 DEF Deliver, Dispatch
  <2>2. CASE ReadEOF
    BY <2>2 DEF ReadEOF
  <2> QED
    BY <1>3, <2>1, <2>2 DEF Read
<1>4. CASE ConfigureEnd
  BY <1>4 DEF ConfigureEnd
<1>5. CASE Ending
  <2>1. CASE Terminate
    BY <2>1 DEF Terminate, StartShutdown
  <2>2. CASE TerminateWaited
    BY <2>2 DEF TerminateWaited
  <2>3. CASE TerminateEnd
    BY <2>3 DEF TerminateEnd, End
  <2>4. CASE DaemonTerminate
    BY <2>4 DEF DaemonTerminate, StartShutdown
  <2>5. CASE DaemonWaited
    BY <2>5 DEF DaemonWaited
  <2>6. CASE DaemonEnd
    BY <2>6 DEF DaemonEnd, End
  <2>7. CASE ShutdownDone
    BY <2>7 DEF ShutdownDone
  <2>8. CASE ShutdownTimeout
    BY <2>8 DEF ShutdownTimeout
  <2>9. CASE AdapterGone
    BY <2>9 DEF AdapterGone, End
  <2> QED
    BY <1>5, <2>1, <2>2, <2>3, <2>4, <2>5, <2>6, <2>7, <2>8, <2>9 DEF Ending
<1>6. CASE Adapter
  <2>1. CASE AdapterTakes
    BY <2>1 DEF AdapterTakes
  <2>2. CASE AdapterAnswers
    BY <2>2 DEF AdapterAnswers
  <2>3. CASE ProgramStops
    BY <2>3 DEF ProgramStops
  <2>4. CASE ProgramSurprises
    BY <2>4 DEF ProgramSurprises
  <2>5. CASE ProgramExits
    BY <2>5 DEF ProgramExits
  <2>6. CASE AdapterCloses
    BY <2>6 DEF AdapterCloses
  <2> QED
    BY <1>6, <2>1, <2>2, <2>3, <2>4, <2>5, <2>6 DEF Adapter
<1>7. CASE UNCHANGED vars
  BY <1>7 DEF vars
<1> QED
  BY <1>1, <1>2, <1>3, <1>4, <1>5, <1>6, <1>7 DEF Next

----------------------------------------------------------------------------
\* Positions X become Y as the first message, in X if b, is read.
ReadFrom(X, Y, b) == X \in SUBSET Pos /\ Y = Down(X) /\ (1 \in X <=> b)

\* What a read does to every set of positions.
LEMMA ReadAll ==
    ASSUME TypeOK, stream # <<>>, stream' = Tail(stream)
    PROVE  LET h == Head(stream)
           IN  /\ h \in Messages
               /\ ReadFrom(StopsAt, StopsAt', h.msg \in {"stopBreakpoint", "stopOther"})
               /\ ReadFrom(ContsAt, ContsAt', h.msg = "continued")
               /\ ReadFrom(TermsAt, TermsAt', h.msg = "terminated")
               /\ ReadFrom(RepliesAt, RepliesAt', h.msg = "response")
               /\ ReadFrom(YesAt, YesAt', h.msg = "response" /\ h.ok)
               /\ \A n : ReadFrom(YesTo(n), YesTo(n)', h.msg = "response" /\ h.ok /\ h.id = n)
               /\ \A n : ReadFrom(NotTo(n), NotTo(n)', h.msg = "response" /\ h.id # n)
               /\ \A n : ReadFrom(Beyond(n), Beyond(n)', h.msg = "response" /\ h.id \notin 1 .. n)
<1> DEFINE h == Head(stream)
<1>1. stream \in Seq(Messages) /\ h \in Messages
  BY DEF TypeOK
<1>2. ASSUME NEW M PROVE ReadFrom(Where(stream, M), Where(stream', M), h \in M)
  BY <1>1, WhereTail DEF ReadFrom
<1> HIDE DEF h
<1>3. ReadFrom(StopsAt, StopsAt', h.msg \in {"stopBreakpoint", "stopOther"})
  <2>1. h \in StopMsgs <=> h.msg \in {"stopBreakpoint", "stopOther"}
    BY <1>1 DEF Of, StopMsgs, YesMsgs
  <2> QED
    BY <1>2, <2>1 DEF StopsAt, ReadFrom
<1>4. ReadFrom(ContsAt, ContsAt', h.msg = "continued")
  <2>1. h \in Of("continued") <=> h.msg = "continued"
    BY <1>1 DEF Of, StopMsgs, YesMsgs
  <2> QED
    BY <1>2, <2>1 DEF ContsAt, ReadFrom
<1>5. ReadFrom(TermsAt, TermsAt', h.msg = "terminated")
  <2>1. h \in Of("terminated") <=> h.msg = "terminated"
    BY <1>1 DEF Of, StopMsgs, YesMsgs
  <2> QED
    BY <1>2, <2>1 DEF TermsAt, ReadFrom
<1>6. ReadFrom(RepliesAt, RepliesAt', h.msg = "response")
  <2>1. h \in Of("response") <=> h.msg = "response"
    BY <1>1 DEF Of, StopMsgs, YesMsgs
  <2> QED
    BY <1>2, <2>1 DEF RepliesAt, ReadFrom
<1>7. ReadFrom(YesAt, YesAt', h.msg = "response" /\ h.ok)
  <2>1. h \in YesMsgs <=> h.msg = "response" /\ h.ok
    BY <1>1 DEF Of, StopMsgs, YesMsgs
  <2> QED
    BY <1>2, <2>1 DEF YesAt, ReadFrom
<1>8. ASSUME NEW n PROVE ReadFrom(YesTo(n), YesTo(n)', h.msg = "response" /\ h.ok /\ h.id = n)
  <2>1. h \in {m \in YesMsgs : m.id = n} <=> h.msg = "response" /\ h.ok /\ h.id = n
    BY <1>1 DEF Of, YesMsgs
  <2> QED
    BY <1>2, <2>1 DEF YesTo, ReadFrom
<1>9. ASSUME NEW n PROVE ReadFrom(NotTo(n), NotTo(n)', h.msg = "response" /\ h.id # n)
  <2>1. h \in {m \in Of("response") : m.id # n} <=> h.msg = "response" /\ h.id # n
    BY <1>1 DEF Of, YesMsgs
  <2> QED
    BY <1>2, <2>1 DEF NotTo, ReadFrom
<1>10. ASSUME NEW n
      PROVE  ReadFrom(Beyond(n), Beyond(n)', h.msg = "response" /\ h.id \notin 1 .. n)
  <2>1. h \in {m \in Of("response") : m.id \notin 1 .. n}
      <=> h.msg = "response" /\ h.id \notin 1 .. n
    BY <1>1 DEF Of, YesMsgs
  <2> QED
    BY <1>2, <2>1 DEF Beyond, ReadFrom
<1> QED
  BY <1>1, <1>3, <1>4, <1>5, <1>6, <1>7, <1>8, <1>9, <1>10 DEF h

\* Where the next message goes; positions X become Y as it is sent, in Y if b.
Top == Len(stream) + 1
Added(X, Y, b) ==
    /\ Below(X, Top)
    /\ b => Y = X \cup {Top}
    /\ ~b => Y = X

\* What a message sent does to every set of positions.
LEMMA EmitAll ==
    ASSUME TypeOK, NEW h \in Messages, Emit(h)
    PROVE  /\ Top \in Nat
           /\ Added(StopsAt, StopsAt', h.msg \in {"stopBreakpoint", "stopOther"})
           /\ Added(ContsAt, ContsAt', h.msg = "continued")
           /\ Added(TermsAt, TermsAt', h.msg = "terminated")
           /\ Added(RepliesAt, RepliesAt', h.msg = "response")
           /\ Added(YesAt, YesAt', h.msg = "response" /\ h.ok)
           /\ \A n : Added(YesTo(n), YesTo(n)', h.msg = "response" /\ h.ok /\ h.id = n)
           /\ \A n : Added(NotTo(n), NotTo(n)', h.msg = "response" /\ h.id # n)
           /\ \A n : Added(Beyond(n), Beyond(n)', h.msg = "response" /\ h.id \notin 1 .. n)
<1>1. stream \in Seq(Messages) /\ stream' = Append(stream, h)
  BY DEF TypeOK, Emit
<1>2. ASSUME NEW M PROVE Added(Where(stream, M), Where(stream', M), h \in M)
  BY <1>1, WhereAppend DEF Added, Top
<1>3. Added(StopsAt, StopsAt', h.msg \in {"stopBreakpoint", "stopOther"})
  <2>1. h \in StopMsgs <=> h.msg \in {"stopBreakpoint", "stopOther"}
    BY DEF Of, StopMsgs, YesMsgs
  <2> QED
    BY <1>2, <2>1 DEF StopsAt, Added
<1>4. Added(ContsAt, ContsAt', h.msg = "continued")
  <2>1. h \in Of("continued") <=> h.msg = "continued"
    BY DEF Of, StopMsgs, YesMsgs
  <2> QED
    BY <1>2, <2>1 DEF ContsAt, Added
<1>5. Added(TermsAt, TermsAt', h.msg = "terminated")
  <2>1. h \in Of("terminated") <=> h.msg = "terminated"
    BY DEF Of, StopMsgs, YesMsgs
  <2> QED
    BY <1>2, <2>1 DEF TermsAt, Added
<1>6. Added(RepliesAt, RepliesAt', h.msg = "response")
  <2>1. h \in Of("response") <=> h.msg = "response"
    BY DEF Of, StopMsgs, YesMsgs
  <2> QED
    BY <1>2, <2>1 DEF RepliesAt, Added
<1>7. Added(YesAt, YesAt', h.msg = "response" /\ h.ok)
  <2>1. h \in YesMsgs <=> h.msg = "response" /\ h.ok
    BY DEF Of, StopMsgs, YesMsgs
  <2> QED
    BY <1>2, <2>1 DEF YesAt, Added
<1>8. ASSUME NEW n PROVE Added(YesTo(n), YesTo(n)', h.msg = "response" /\ h.ok /\ h.id = n)
  <2>1. h \in {m \in YesMsgs : m.id = n} <=> h.msg = "response" /\ h.ok /\ h.id = n
    BY DEF Of, YesMsgs
  <2> QED
    BY <1>2, <2>1 DEF YesTo, Added
<1>9. ASSUME NEW n PROVE Added(NotTo(n), NotTo(n)', h.msg = "response" /\ h.id # n)
  <2>1. h \in {m \in Of("response") : m.id # n} <=> h.msg = "response" /\ h.id # n
    BY DEF Of, YesMsgs
  <2> QED
    BY <1>2, <2>1 DEF NotTo, Added
<1>10. ASSUME NEW n PROVE Added(Beyond(n), Beyond(n)', h.msg = "response" /\ h.id \notin 1 .. n)
  <2>1. h \in {m \in Of("response") : m.id \notin 1 .. n}
      <=> h.msg = "response" /\ h.id \notin 1 .. n
    BY DEF Of, YesMsgs
  <2> QED
    BY <1>2, <2>1 DEF Beyond, Added
<1>11. Top \in Nat
  BY <1>1 DEF Top
<1> QED
  BY <1>3, <1>4, <1>5, <1>6, <1>7, <1>8, <1>9, <1>10, <1>11

\* Every yes is an answer.
LEMMA YesAreReplies == YesAt \subseteq RepliesAt
BY DEF YesAt, RepliesAt, Where, YesMsgs

\* And so is every answer to another request.
LEMMA NotToAreReplies == \A n : NotTo(n) \subseteq RepliesAt
BY DEF NotTo, RepliesAt, Where

\* A stop is read.
LEMMA ReadStop ==
    ASSUME TypeOK, stream # <<>>, stream' = Tail(stream),
           Head(stream).msg \in {"stopBreakpoint", "stopOther"}
    PROVE  /\ HasTerm' <=> HasTerm
           /\ NoCont' <=> NoCont
           /\ NoReply' <=> NoReply
           /\ Yes' <=> Yes
           /\ LateYes' <=> LateYes
           /\ \A n : OnlyReply(n) => OnlyReply(n)'
           /\ \A n : RepliesTo(n) => RepliesTo(n)'
           /\ \A n : EarlyYes(n)' => EarlyYes(n)
           /\ Alternating => Alternating'
           /\ LatestStop => LatestStop' \/ NoCont'
           /\ LatestCont => LatestCont'
           /\ NextStop
           /\ ~NoStop
           /\ Alternating => ~NextStop'
           /\ Alternating /\ NoCont => NoStop'
<1> DEFINE h == Head(stream)
<1>0. h \in Messages
  BY ReadAll
<1>1. ReadFrom(TermsAt, TermsAt', h.msg = "terminated")
  BY ReadAll
<1>2. ReadFrom(ContsAt, ContsAt', h.msg = "continued")
  BY ReadAll
<1>3. ReadFrom(RepliesAt, RepliesAt', h.msg = "response")
  BY ReadAll
<1>4. ReadFrom(YesAt, YesAt', h.msg = "response" /\ h.ok)
  BY ReadAll
<1>5. \A n : ReadFrom(NotTo(n), NotTo(n)', h.msg = "response" /\ h.id # n)
  BY ReadAll
<1>6. \A n : ReadFrom(Beyond(n), Beyond(n)', h.msg = "response" /\ h.id \notin 1 .. n)
  BY ReadAll
<1>7. \A n : ReadFrom(YesTo(n), YesTo(n)', h.msg = "response" /\ h.ok /\ h.id = n)
  BY ReadAll
<1>8. ReadFrom(StopsAt, StopsAt', h.msg \in {"stopBreakpoint", "stopOther"})
  BY ReadAll
<1>9. HasTerm' <=> HasTerm
  BY <1>0, <1>1, DownEmpty DEF ReadFrom, HasTerm
<1>10. NoCont' <=> NoCont
  BY <1>0, <1>2, DownEmpty DEF ReadFrom, NoCont
<1>11. NoReply' <=> NoReply
  BY <1>0, <1>3, DownEmpty DEF ReadFrom, NoReply
<1>12. Yes' <=> Yes
  BY <1>0, <1>4, DownEmpty DEF ReadFrom, Yes
<1>13. LateYes' <=> LateYes
  BY <1>0, <1>4, <1>2, DownAfter DEF ReadFrom, LateYes
<1>14. \A n : OnlyReply(n) => OnlyReply(n)'
  BY <1>0, <1>3, <1>5, DownEmpty DEF ReadFrom, OnlyReply
<1>15. \A n : RepliesTo(n) => RepliesTo(n)'
  BY <1>0, <1>6, DownEmpty DEF ReadFrom, RepliesTo
<1>16. \A n : EarlyYes(n)' => EarlyYes(n)
  BY <1>0, <1>7, <1>2, DownFirst DEF ReadFrom, EarlyYes
<1>17. Alternating => Alternating'
  BY <1>0, <1>8, <1>2, DownApart DEF ReadFrom, Alternating
<1>18. LatestStop => LatestStop' \/ NoCont'
  BY <1>0, <1>8, <1>2, DownLast DEF ReadFrom, LatestStop, NoCont
<1>19. LatestCont => LatestCont'
  BY <1>0, <1>8, <1>2, DownLast DEF ReadFrom, LatestCont, NoStop
<1>20. NextStop
  BY <1>0, <1>8, <1>2 DEF ReadFrom, NextStop, First, Pos
<1>21. ~NoStop
  BY <1>0, <1>8 DEF ReadFrom, NoStop
<1>22. Alternating => ~NextStop'
  BY <1>0, <1>8, <1>2, DownApart DEF ReadFrom, Alternating, NextStop
<1>23. Alternating /\ NoCont => NoStop'
  BY <1>0, <1>8, <1>2, DownApart, DownEmpty DEF ReadFrom, Alternating, NoCont, NoStop, First
<1> QED
  BY <1>9, <1>10, <1>11, <1>12, <1>13, <1>14, <1>15, <1>16, <1>17, <1>18, <1>19, <1>20,
     <1>21, <1>22, <1>23

\* A resume is read.
LEMMA ReadContinued ==
    ASSUME TypeOK, stream # <<>>, stream' = Tail(stream), Head(stream).msg = "continued"
    PROVE  /\ HasTerm' <=> HasTerm
           /\ NoStop' <=> NoStop
           /\ NoReply' <=> NoReply
           /\ Yes' <=> Yes
           /\ \A n : OnlyReply(n) => OnlyReply(n)'
           /\ \A n : RepliesTo(n) => RepliesTo(n)'
           /\ Alternating => Alternating'
           /\ ~NoCont
           /\ LatestStop => LatestStop'
           /\ LatestCont => LatestCont' \/ NoStop'
           /\ LateYes' => LateYes
<1> DEFINE h == Head(stream)
<1>0. h \in Messages
  BY ReadAll
<1>1. ReadFrom(TermsAt, TermsAt', h.msg = "terminated")
  BY ReadAll
<1>2. ReadFrom(StopsAt, StopsAt', h.msg \in {"stopBreakpoint", "stopOther"})
  BY ReadAll
<1>3. ReadFrom(RepliesAt, RepliesAt', h.msg = "response")
  BY ReadAll
<1>4. ReadFrom(YesAt, YesAt', h.msg = "response" /\ h.ok)
  BY ReadAll
<1>5. \A n : ReadFrom(NotTo(n), NotTo(n)', h.msg = "response" /\ h.id # n)
  BY ReadAll
<1>6. \A n : ReadFrom(Beyond(n), Beyond(n)', h.msg = "response" /\ h.id \notin 1 .. n)
  BY ReadAll
<1>7. ReadFrom(ContsAt, ContsAt', h.msg = "continued")
  BY ReadAll
<1>8. HasTerm' <=> HasTerm
  BY <1>0, <1>1, DownEmpty DEF ReadFrom, HasTerm
<1>9. NoStop' <=> NoStop
  BY <1>0, <1>2, DownEmpty DEF ReadFrom, NoStop
<1>10. NoReply' <=> NoReply
  BY <1>0, <1>3, DownEmpty DEF ReadFrom, NoReply
<1>11. Yes' <=> Yes
  BY <1>0, <1>4, DownEmpty DEF ReadFrom, Yes
<1>12. \A n : OnlyReply(n) => OnlyReply(n)'
  BY <1>0, <1>3, <1>5, DownEmpty DEF ReadFrom, OnlyReply
<1>13. \A n : RepliesTo(n) => RepliesTo(n)'
  BY <1>0, <1>6, DownEmpty DEF ReadFrom, RepliesTo
<1>14. Alternating => Alternating'
  BY <1>0, <1>2, <1>7, DownApart DEF ReadFrom, Alternating
<1>15. ~NoCont
  BY <1>0, <1>7 DEF ReadFrom, NoCont
<1>16. LatestStop => LatestStop'
  BY <1>0, <1>2, <1>7, DownLast DEF ReadFrom, LatestStop, NoCont
<1>17. LatestCont => LatestCont' \/ NoStop'
  BY <1>0, <1>2, <1>7, DownLast DEF ReadFrom, LatestCont, NoStop
<1>18. LateYes' => LateYes
  BY <1>0, <1>4, <1>7, DownAfter DEF ReadFrom, LateYes
<1> QED
  BY <1>8, <1>9, <1>10, <1>11, <1>12, <1>13, <1>14, <1>15, <1>16, <1>17, <1>18

\* The program's end is read.
LEMMA ReadTerminated ==
    ASSUME TypeOK, stream # <<>>, stream' = Tail(stream), Head(stream).msg = "terminated"
    PROVE  /\ NoStop' <=> NoStop
           /\ NoCont' <=> NoCont
           /\ NoReply' <=> NoReply
           /\ Yes' <=> Yes
           /\ LateYes' <=> LateYes
           /\ \A n : OnlyReply(n) => OnlyReply(n)'
           /\ \A n : RepliesTo(n) => RepliesTo(n)'
           /\ \A n : EarlyYes(n)' => EarlyYes(n)
           /\ Alternating => Alternating'
           /\ NextStop' => NextStop
           /\ LatestStop => LatestStop'
           /\ LatestCont => LatestCont'
<1> DEFINE h == Head(stream)
<1>0. h \in Messages
  BY ReadAll
<1>1. ReadFrom(StopsAt, StopsAt', h.msg \in {"stopBreakpoint", "stopOther"})
  BY ReadAll
<1>2. ReadFrom(ContsAt, ContsAt', h.msg = "continued")
  BY ReadAll
<1>3. ReadFrom(RepliesAt, RepliesAt', h.msg = "response")
  BY ReadAll
<1>4. ReadFrom(YesAt, YesAt', h.msg = "response" /\ h.ok)
  BY ReadAll
<1>5. \A n : ReadFrom(NotTo(n), NotTo(n)', h.msg = "response" /\ h.id # n)
  BY ReadAll
<1>6. \A n : ReadFrom(Beyond(n), Beyond(n)', h.msg = "response" /\ h.id \notin 1 .. n)
  BY ReadAll
<1>7. \A n : ReadFrom(YesTo(n), YesTo(n)', h.msg = "response" /\ h.ok /\ h.id = n)
  BY ReadAll
<1>8. NoStop' <=> NoStop
  BY <1>0, <1>1, DownEmpty DEF ReadFrom, NoStop
<1>9. NoCont' <=> NoCont
  BY <1>0, <1>2, DownEmpty DEF ReadFrom, NoCont
<1>10. NoReply' <=> NoReply
  BY <1>0, <1>3, DownEmpty DEF ReadFrom, NoReply
<1>11. Yes' <=> Yes
  BY <1>0, <1>4, DownEmpty DEF ReadFrom, Yes
<1>12. LateYes' <=> LateYes
  BY <1>0, <1>4, <1>2, DownAfter DEF ReadFrom, LateYes
<1>13. \A n : OnlyReply(n) => OnlyReply(n)'
  BY <1>0, <1>3, <1>5, DownEmpty DEF ReadFrom, OnlyReply
<1>14. \A n : RepliesTo(n) => RepliesTo(n)'
  BY <1>0, <1>6, DownEmpty DEF ReadFrom, RepliesTo
<1>15. \A n : EarlyYes(n)' => EarlyYes(n)
  BY <1>0, <1>7, <1>2, DownFirst DEF ReadFrom, EarlyYes
<1>16. Alternating => Alternating'
  BY <1>0, <1>1, <1>2, DownApart DEF ReadFrom, Alternating
<1>17. NextStop' => NextStop
  BY <1>0, <1>1, <1>2, DownFirst DEF ReadFrom, NextStop
<1>18. LatestStop => LatestStop'
  BY <1>0, <1>1, <1>2, DownLast DEF ReadFrom, LatestStop, NoCont
<1>19. LatestCont => LatestCont'
  BY <1>0, <1>1, <1>2, DownLast DEF ReadFrom, LatestCont, NoStop
<1> QED
  BY <1>8, <1>9, <1>10, <1>11, <1>12, <1>13, <1>14, <1>15, <1>16, <1>17, <1>18, <1>19

\* An answer is read.
LEMMA ReadAnswer ==
    ASSUME TypeOK, stream # <<>>, stream' = Tail(stream), Head(stream).msg = "response"
    PROVE  /\ HasTerm' <=> HasTerm
           /\ NoStop' <=> NoStop
           /\ NoCont' <=> NoCont
           /\ \A n : OnlyReply(n) => OnlyReply(n)'
           /\ \A n : RepliesTo(n) => RepliesTo(n)'
           /\ \A n : EarlyYes(n)' => EarlyYes(n)
           /\ Alternating => Alternating'
           /\ NextStop' => NextStop
           /\ LatestStop => LatestStop'
           /\ LatestCont => LatestCont'
           /\ ~NoReply
           /\ Head(stream).ok => Yes
           /\ Head(stream).ok => EarlyYes(Head(stream).id)
           /\ \A n : OnlyReply(n) => NoReply' /\ Head(stream).id = n
           /\ \A n : OnlyReply(n) => ~Yes'
           /\ \A n : OnlyReply(n) /\ Yes => Head(stream).ok
           /\ \A n : OnlyReply(n) => ~LateYes
<1> DEFINE h == Head(stream)
<1>0. h \in Messages
  BY ReadAll
<1>1. ReadFrom(TermsAt, TermsAt', h.msg = "terminated")
  BY ReadAll
<1>2. ReadFrom(StopsAt, StopsAt', h.msg \in {"stopBreakpoint", "stopOther"})
  BY ReadAll
<1>3. ReadFrom(ContsAt, ContsAt', h.msg = "continued")
  BY ReadAll
<1>4. ReadFrom(RepliesAt, RepliesAt', h.msg = "response")
  BY ReadAll
<1>5. \A n : ReadFrom(NotTo(n), NotTo(n)', h.msg = "response" /\ h.id # n)
  BY ReadAll
<1>6. \A n : ReadFrom(Beyond(n), Beyond(n)', h.msg = "response" /\ h.id \notin 1 .. n)
  BY ReadAll
<1>7. \A n : ReadFrom(YesTo(n), YesTo(n)', h.msg = "response" /\ h.ok /\ h.id = n)
  BY ReadAll
<1>8. ReadFrom(YesAt, YesAt', h.msg = "response" /\ h.ok)
  BY ReadAll
<1>9. HasTerm' <=> HasTerm
  BY <1>0, <1>1, DownEmpty DEF ReadFrom, HasTerm
<1>10. NoStop' <=> NoStop
  BY <1>0, <1>2, DownEmpty DEF ReadFrom, NoStop
<1>11. NoCont' <=> NoCont
  BY <1>0, <1>3, DownEmpty DEF ReadFrom, NoCont
<1>12. \A n : OnlyReply(n) => OnlyReply(n)'
  BY <1>0, <1>4, <1>5, DownEmpty DEF ReadFrom, OnlyReply
<1>13. \A n : RepliesTo(n) => RepliesTo(n)'
  BY <1>0, <1>6, DownEmpty DEF ReadFrom, RepliesTo
<1>14. \A n : EarlyYes(n)' => EarlyYes(n)
  BY <1>0, <1>7, <1>3, DownFirst DEF ReadFrom, EarlyYes
<1>15. Alternating => Alternating'
  BY <1>0, <1>2, <1>3, DownApart DEF ReadFrom, Alternating
<1>16. NextStop' => NextStop
  BY <1>0, <1>2, <1>3, DownFirst DEF ReadFrom, NextStop
<1>17. LatestStop => LatestStop'
  BY <1>0, <1>2, <1>3, DownLast DEF ReadFrom, LatestStop, NoCont
<1>18. LatestCont => LatestCont'
  BY <1>0, <1>2, <1>3, DownLast DEF ReadFrom, LatestCont, NoStop
<1>19. ~NoReply
  BY <1>0, <1>4 DEF ReadFrom, NoReply
<1>20. Head(stream).ok => Yes
  BY <1>0, <1>8 DEF ReadFrom, Yes
<1>21. h.ok => EarlyYes(h.id)
  <2>1. h.ok => 1 \in YesTo(h.id)
    BY <1>7 DEF ReadFrom
  <2>2. \A j \in ContsAt : 1 < j
    BY <1>3 DEF ReadFrom, Pos
  <2> QED
    BY <2>1, <2>2 DEF EarlyYes, First
<1>22. \A n : OnlyReply(n) => NoReply' /\ Head(stream).id = n
  BY <1>0, <1>4, <1>5, DownEmpty DEF ReadFrom, OnlyReply, NoReply
<1>23. \A n : OnlyReply(n) => ~Yes'
  BY <1>0, <1>4, <1>5, <1>8, DownEmpty, YesAreReplies DEF ReadFrom, OnlyReply, Yes, Pos
<1>24. \A n : OnlyReply(n) /\ Yes => Head(stream).ok
  BY <1>0, <1>4, <1>5, <1>8, YesAreReplies DEF ReadFrom, OnlyReply, Yes, Pos
<1>25. \A n : OnlyReply(n) => ~LateYes
  BY <1>0, <1>4, <1>5, <1>8, <1>3, YesAreReplies DEF ReadFrom, OnlyReply, LateYes, After, Pos
<1> QED
  BY <1>9, <1>10, <1>11, <1>12, <1>13, <1>14, <1>15, <1>16, <1>17, <1>18, <1>19, <1>20,
     <1>21, <1>22, <1>23, <1>24, <1>25

\* A stop is sent.
LEMMA GetsStop ==
    ASSUME TypeOK, NEW h \in Messages, Emit(h), h.msg \in {"stopBreakpoint", "stopOther"}
    PROVE  /\ HasTerm' <=> HasTerm
           /\ NoCont' <=> NoCont
           /\ NoReply' <=> NoReply
           /\ Yes' <=> Yes
           /\ \A n : OnlyReply(n)' <=> OnlyReply(n)
           /\ \A n : RepliesTo(n)' <=> RepliesTo(n)
           /\ \A n : EarlyYes(n)' <=> EarlyYes(n)
           /\ LateYes' <=> LateYes
           /\ LatestStop'
           /\ ~NoStop'
           /\ Alternating /\ (LatestCont \/ NoStop) => Alternating'
           /\ LatestCont => ~NoCont
           /\ NextStop' => NextStop \/ NoCont
<1>0. Top \in Nat
  BY EmitAll
<1>1. Added(TermsAt, TermsAt', h.msg = "terminated")
  BY EmitAll
<1>2. Added(ContsAt, ContsAt', h.msg = "continued")
  BY EmitAll
<1>3. Added(RepliesAt, RepliesAt', h.msg = "response")
  BY EmitAll
<1>4. Added(YesAt, YesAt', h.msg = "response" /\ h.ok)
  BY EmitAll
<1>5. \A n : Added(NotTo(n), NotTo(n)', h.msg = "response" /\ h.id # n)
  BY EmitAll
<1>6. \A n : Added(Beyond(n), Beyond(n)', h.msg = "response" /\ h.id \notin 1 .. n)
  BY EmitAll
<1>7. \A n : Added(YesTo(n), YesTo(n)', h.msg = "response" /\ h.ok /\ h.id = n)
  BY EmitAll
<1>8. Added(StopsAt, StopsAt', h.msg \in {"stopBreakpoint", "stopOther"})
  BY EmitAll
<1>9. HasTerm' <=> HasTerm
  BY <1>0, <1>1 DEF Added, HasTerm
<1>10. NoCont' <=> NoCont
  BY <1>0, <1>2 DEF Added, NoCont
<1>11. NoReply' <=> NoReply
  BY <1>0, <1>3 DEF Added, NoReply
<1>12. Yes' <=> Yes
  BY <1>0, <1>4 DEF Added, Yes
<1>13. \A n : OnlyReply(n)' <=> OnlyReply(n)
  BY <1>0, <1>3, <1>5 DEF Added, OnlyReply
<1>14. \A n : RepliesTo(n)' <=> RepliesTo(n)
  BY <1>0, <1>6 DEF Added, RepliesTo
<1>15. \A n : EarlyYes(n)' <=> EarlyYes(n)
  BY <1>0, <1>7, <1>2 DEF Added, EarlyYes
<1>16. LateYes' <=> LateYes
  BY <1>0, <1>4, <1>2 DEF Added, LateYes
<1>17. LatestStop'
  <2>1. Below(StopsAt, Top) /\ Below(ContsAt, Top)
    BY <1>0, <1>8, <1>2 DEF Added
  <2>2. Last(StopsAt \cup {Top}, ContsAt)
    BY <1>0, <2>1, AddedLast
  <2> QED
    BY <1>0, <1>8, <1>2, <2>2 DEF Added, LatestStop
<1>18. ~NoStop'
  BY <1>0, <1>8 DEF Added, NoStop
<1>19. Alternating /\ (LatestCont \/ NoStop) => Alternating'
  <2>1. Below(StopsAt, Top) /\ Below(ContsAt, Top)
    BY <1>0, <1>8, <1>2 DEF Added
  <2>2. Apart(StopsAt, ContsAt) /\ (Last(ContsAt, StopsAt) \/ StopsAt = {})
      => Apart(StopsAt \cup {Top}, ContsAt)
    BY <1>0, <2>1, AddedApart
  <2> QED
    BY <1>0, <1>8, <1>2, <2>2 DEF Added, Alternating, LatestCont, NoStop
<1>20. LatestCont => ~NoCont
  BY <1>0, <1>2 DEF Added, LatestCont, NoCont, Last
<1>21. NextStop' => NextStop \/ NoCont
  <2>1. Below(StopsAt, Top) /\ Below(ContsAt, Top)
    BY <1>0, <1>8, <1>2 DEF Added
  <2>2. First(StopsAt \cup {Top}, ContsAt) => First(StopsAt, ContsAt) \/ ContsAt = {}
    BY <1>0, <2>1, AddedFirst
  <2> QED
    BY <1>0, <1>8, <1>2, <2>2 DEF Added, NextStop, NoCont
<1> QED
  BY <1>9, <1>10, <1>11, <1>12, <1>13, <1>14, <1>15, <1>16, <1>17, <1>18, <1>19, <1>20, <1>21

\* A resume is sent.
LEMMA GetsContinued ==
    ASSUME TypeOK, NEW h \in Messages, Emit(h), h.msg = "continued"
    PROVE  /\ HasTerm' <=> HasTerm
           /\ NoStop' <=> NoStop
           /\ NoReply' <=> NoReply
           /\ Yes' <=> Yes
           /\ \A n : OnlyReply(n)' <=> OnlyReply(n)
           /\ \A n : RepliesTo(n)' <=> RepliesTo(n)
           /\ \A n : EarlyYes(n)' <=> EarlyYes(n)
           /\ LateYes' <=> LateYes
           /\ NextStop' <=> NextStop
           /\ Alternating => Alternating'
           /\ LatestCont'
           /\ ~NoCont'
<1>0. Top \in Nat
  BY EmitAll
<1>1. Added(TermsAt, TermsAt', h.msg = "terminated")
  BY EmitAll
<1>2. Added(StopsAt, StopsAt', h.msg \in {"stopBreakpoint", "stopOther"})
  BY EmitAll
<1>3. Added(RepliesAt, RepliesAt', h.msg = "response")
  BY EmitAll
<1>4. Added(YesAt, YesAt', h.msg = "response" /\ h.ok)
  BY EmitAll
<1>5. \A n : Added(NotTo(n), NotTo(n)', h.msg = "response" /\ h.id # n)
  BY EmitAll
<1>6. \A n : Added(Beyond(n), Beyond(n)', h.msg = "response" /\ h.id \notin 1 .. n)
  BY EmitAll
<1>7. \A n : Added(YesTo(n), YesTo(n)', h.msg = "response" /\ h.ok /\ h.id = n)
  BY EmitAll
<1>8. Added(ContsAt, ContsAt', h.msg = "continued")
  BY EmitAll
<1>9. HasTerm' <=> HasTerm
  BY <1>0, <1>1 DEF Added, HasTerm
<1>10. NoStop' <=> NoStop
  BY <1>0, <1>2 DEF Added, NoStop
<1>11. NoReply' <=> NoReply
  BY <1>0, <1>3 DEF Added, NoReply
<1>12. Yes' <=> Yes
  BY <1>0, <1>4 DEF Added, Yes
<1>13. \A n : OnlyReply(n)' <=> OnlyReply(n)
  BY <1>0, <1>3, <1>5 DEF Added, OnlyReply
<1>14. \A n : RepliesTo(n)' <=> RepliesTo(n)
  BY <1>0, <1>6 DEF Added, RepliesTo
<1>15. ASSUME NEW n PROVE EarlyYes(n)' <=> EarlyYes(n)
  <2>1. Below(YesTo(n), Top) /\ Below(ContsAt, Top)
    BY <1>0, <1>7, <1>8 DEF Added
  <2>2. First(YesTo(n), ContsAt \cup {Top}) <=> First(YesTo(n), ContsAt)
    BY <1>0, <2>1, AddedFirst
  <2> QED
    BY <1>0, <1>7, <1>8, <2>2 DEF Added, EarlyYes
<1>16. LateYes' <=> LateYes
  <2>1. Below(YesAt, Top) /\ Below(ContsAt, Top)
    BY <1>0, <1>4, <1>8 DEF Added
  <2>2. After(YesAt, ContsAt \cup {Top}) <=> After(YesAt, ContsAt)
    BY <1>0, <2>1, AddedAfter
  <2> QED
    BY <1>0, <1>4, <1>8, <2>2 DEF Added, LateYes
<1>17. NextStop' <=> NextStop
  <2>1. Below(StopsAt, Top) /\ Below(ContsAt, Top)
    BY <1>0, <1>2, <1>8 DEF Added
  <2>2. First(StopsAt, ContsAt \cup {Top}) <=> First(StopsAt, ContsAt)
    BY <1>0, <2>1, AddedFirst
  <2> QED
    BY <1>0, <1>2, <1>8, <2>2 DEF Added, NextStop
<1>18. Alternating => Alternating'
  <2>1. Below(StopsAt, Top) /\ Below(ContsAt, Top)
    BY <1>0, <1>2, <1>8 DEF Added
  <2>2. Apart(StopsAt, ContsAt) => Apart(StopsAt, ContsAt \cup {Top})
    BY <1>0, <2>1, AddedApart
  <2> QED
    BY <1>0, <1>2, <1>8, <2>2 DEF Added, Alternating
<1>19. LatestCont'
  <2>1. Below(ContsAt, Top) /\ Below(StopsAt, Top)
    BY <1>0, <1>2, <1>8 DEF Added
  <2>2. Last(ContsAt \cup {Top}, StopsAt)
    BY <1>0, <2>1, AddedLast
  <2> QED
    BY <1>0, <1>2, <1>8, <2>2 DEF Added, LatestCont
<1>20. ~NoCont'
  BY <1>0, <1>8 DEF Added, NoCont
<1> QED
  BY <1>9, <1>10, <1>11, <1>12, <1>13, <1>14, <1>15, <1>16, <1>17, <1>18, <1>19, <1>20

\* The program's end is sent.
LEMMA GetsTerminated ==
    ASSUME TypeOK, NEW h \in Messages, Emit(h), h.msg = "terminated"
    PROVE  /\ NoStop' <=> NoStop
           /\ NoCont' <=> NoCont
           /\ NoReply' <=> NoReply
           /\ Yes' <=> Yes
           /\ \A n : OnlyReply(n)' <=> OnlyReply(n)
           /\ \A n : RepliesTo(n)' <=> RepliesTo(n)
           /\ \A n : EarlyYes(n)' <=> EarlyYes(n)
           /\ LateYes' <=> LateYes
           /\ NextStop' <=> NextStop
           /\ Alternating' <=> Alternating
           /\ LatestStop' <=> LatestStop
           /\ LatestCont' <=> LatestCont
           /\ HasTerm'
<1>0. Top \in Nat
  BY EmitAll
<1>1. Added(StopsAt, StopsAt', h.msg \in {"stopBreakpoint", "stopOther"})
  BY EmitAll
<1>2. Added(ContsAt, ContsAt', h.msg = "continued")
  BY EmitAll
<1>3. Added(RepliesAt, RepliesAt', h.msg = "response")
  BY EmitAll
<1>4. Added(YesAt, YesAt', h.msg = "response" /\ h.ok)
  BY EmitAll
<1>5. \A n : Added(NotTo(n), NotTo(n)', h.msg = "response" /\ h.id # n)
  BY EmitAll
<1>6. \A n : Added(Beyond(n), Beyond(n)', h.msg = "response" /\ h.id \notin 1 .. n)
  BY EmitAll
<1>7. \A n : Added(YesTo(n), YesTo(n)', h.msg = "response" /\ h.ok /\ h.id = n)
  BY EmitAll
<1>8. Added(TermsAt, TermsAt', h.msg = "terminated")
  BY EmitAll
<1>9. NoStop' <=> NoStop
  BY <1>0, <1>1 DEF Added, NoStop
<1>10. NoCont' <=> NoCont
  BY <1>0, <1>2 DEF Added, NoCont
<1>11. NoReply' <=> NoReply
  BY <1>0, <1>3 DEF Added, NoReply
<1>12. Yes' <=> Yes
  BY <1>0, <1>4 DEF Added, Yes
<1>13. \A n : OnlyReply(n)' <=> OnlyReply(n)
  BY <1>0, <1>3, <1>5 DEF Added, OnlyReply
<1>14. \A n : RepliesTo(n)' <=> RepliesTo(n)
  BY <1>0, <1>6 DEF Added, RepliesTo
<1>15. \A n : EarlyYes(n)' <=> EarlyYes(n)
  BY <1>0, <1>7, <1>2 DEF Added, EarlyYes
<1>16. LateYes' <=> LateYes
  BY <1>0, <1>4, <1>2 DEF Added, LateYes
<1>17. NextStop' <=> NextStop
  BY <1>0, <1>1, <1>2 DEF Added, NextStop
<1>18. Alternating' <=> Alternating
  BY <1>0, <1>1, <1>2 DEF Added, Alternating
<1>19. LatestStop' <=> LatestStop
  BY <1>0, <1>1, <1>2 DEF Added, LatestStop
<1>20. LatestCont' <=> LatestCont
  BY <1>0, <1>1, <1>2 DEF Added, LatestCont
<1>21. HasTerm'
  BY <1>0, <1>8 DEF Added, HasTerm
<1> QED
  BY <1>9, <1>10, <1>11, <1>12, <1>13, <1>14, <1>15, <1>16, <1>17, <1>18, <1>19, <1>20, <1>21

\* An answer is sent.
LEMMA GetsAnswer ==
    ASSUME TypeOK, NEW h \in Messages, Emit(h), h.msg = "response"
    PROVE  /\ HasTerm' <=> HasTerm
           /\ NoStop' <=> NoStop
           /\ NoCont' <=> NoCont
           /\ NextStop' <=> NextStop
           /\ Alternating' <=> Alternating
           /\ LatestStop' <=> LatestStop
           /\ LatestCont' <=> LatestCont
           /\ NoReply => OnlyReply(h.id)'
           /\ \A n : RepliesTo(n) /\ h.id \in 1 .. n => RepliesTo(n)'
           /\ \A n : EarlyYes(n)' => EarlyYes(n) \/ (h.ok /\ h.id = n /\ NoCont)
           /\ Yes' <=> Yes \/ h.ok
           /\ LateYes' <=> LateYes \/ (h.ok /\ ~NoCont)
           /\ ~NoReply'
<1>0. Top \in Nat
  BY EmitAll
<1>1. Added(TermsAt, TermsAt', h.msg = "terminated")
  BY EmitAll
<1>2. Added(StopsAt, StopsAt', h.msg \in {"stopBreakpoint", "stopOther"})
  BY EmitAll
<1>3. Added(ContsAt, ContsAt', h.msg = "continued")
  BY EmitAll
<1>4. Added(RepliesAt, RepliesAt', h.msg = "response")
  BY EmitAll
<1>5. \A n : Added(NotTo(n), NotTo(n)', h.msg = "response" /\ h.id # n)
  BY EmitAll
<1>6. \A n : Added(Beyond(n), Beyond(n)', h.msg = "response" /\ h.id \notin 1 .. n)
  BY EmitAll
<1>7. \A n : Added(YesTo(n), YesTo(n)', h.msg = "response" /\ h.ok /\ h.id = n)
  BY EmitAll
<1>8. Added(YesAt, YesAt', h.msg = "response" /\ h.ok)
  BY EmitAll
<1>9. HasTerm' <=> HasTerm
  BY <1>0, <1>1 DEF Added, HasTerm
<1>10. NoStop' <=> NoStop
  BY <1>0, <1>2 DEF Added, NoStop
<1>11. NoCont' <=> NoCont
  BY <1>0, <1>3 DEF Added, NoCont
<1>12. NextStop' <=> NextStop
  BY <1>0, <1>2, <1>3 DEF Added, NextStop
<1>13. Alternating' <=> Alternating
  BY <1>0, <1>2, <1>3 DEF Added, Alternating
<1>14. LatestStop' <=> LatestStop
  BY <1>0, <1>2, <1>3 DEF Added, LatestStop
<1>15. LatestCont' <=> LatestCont
  BY <1>0, <1>2, <1>3 DEF Added, LatestCont
<1>16. NoReply => OnlyReply(h.id)'
  BY <1>0, <1>4, <1>5, NotToAreReplies DEF Added, NoReply, OnlyReply
<1>17. \A n : RepliesTo(n) /\ h.id \in 1 .. n => RepliesTo(n)'
  BY <1>0, <1>6 DEF Added, RepliesTo
<1>18. ASSUME NEW n PROVE EarlyYes(n)' => EarlyYes(n) \/ (h.ok /\ h.id = n /\ NoCont)
  <2>1. Below(YesTo(n), Top) /\ Below(ContsAt, Top)
    BY <1>0, <1>7, <1>3 DEF Added
  <2>2. First(YesTo(n) \cup {Top}, ContsAt) => First(YesTo(n), ContsAt) \/ ContsAt = {}
    BY <1>0, <2>1, AddedFirst
  <2> QED
    BY <1>0, <1>7, <1>3, <2>2 DEF Added, EarlyYes, NoCont
<1>19. Yes' <=> Yes \/ h.ok
  BY <1>0, <1>8 DEF Added, Yes
<1>20. LateYes' <=> LateYes \/ (h.ok /\ ~NoCont)
  <2>1. Below(YesAt, Top) /\ Below(ContsAt, Top)
    BY <1>0, <1>8, <1>3 DEF Added
  <2>2. After(YesAt \cup {Top}, ContsAt) <=> After(YesAt, ContsAt) \/ ContsAt # {}
    BY <1>0, <2>1, AddedAfter
  <2> QED
    BY <1>0, <1>8, <1>3, <2>2 DEF Added, LateYes, NoCont
<1>21. ~NoReply'
  BY <1>0, <1>4 DEF Added, NoReply
<1> QED
  BY <1>9, <1>10, <1>11, <1>12, <1>13, <1>14, <1>15, <1>16, <1>17, <1>18, <1>19, <1>20, <1>21

\* How many resumes are on their way.
LEMMA ContsFinite ==
    ASSUME TypeOK
    PROVE  IsFiniteSet(ContsAt) /\ Cardinality(ContsAt) \in Nat
<1>1. Len(stream) \in Nat
  BY DEF TypeOK
<1>2. IsFiniteSet(1 .. Len(stream))
  BY <1>1, FS_Interval
<1>3. ContsAt \subseteq 1 .. Len(stream)
  BY DEF ContsAt, Where
<1>4. IsFiniteSet(ContsAt)
  BY <1>2, <1>3, FS_Subset
<1> QED
  BY <1>4, FS_CardinalityType

\* One less when one is read.
LEMMA CountRead ==
    ASSUME TypeOK, stream # <<>>, stream' = Tail(stream)
    PROVE  /\ Cardinality(ContsAt) \in Nat
           /\ Cardinality(ContsAt)' = IF Head(stream).msg = "continued"
                                      THEN Cardinality(ContsAt) - 1
                                      ELSE Cardinality(ContsAt)
<1>1. IsFiniteSet(ContsAt)
  BY ContsFinite
<1>2. ReadFrom(ContsAt, ContsAt', Head(stream).msg = "continued")
  BY ReadAll
<1> QED
  BY <1>1, <1>2, DownCount, FS_CardinalityType DEF ReadFrom

\* One more when one is sent.
LEMMA CountEmit ==
    ASSUME TypeOK, NEW h \in Messages, Emit(h)
    PROVE  /\ Cardinality(ContsAt) \in Nat
           /\ Cardinality(ContsAt)' = IF h.msg = "continued" THEN Cardinality(ContsAt) + 1
                                      ELSE Cardinality(ContsAt)
<1>1. IsFiniteSet(ContsAt)
  BY ContsFinite
<1>2. Added(ContsAt, ContsAt', h.msg = "continued") /\ Top \in Nat
  BY EmitAll
<1>3. Top \notin ContsAt
  BY <1>2 DEF Added, Below
<1> QED
  BY <1>1, <1>2, <1>3, FS_AddElement, FS_CardinalityType DEF Added

\* What the answers on their way say of each other.
LEMMA Replies ==
    /\ NoReply => ~Yes /\ ~LateYes
    /\ \A n \in Nat : RepliesTo(n) => ~EarlyYes(n + 1)
    /\ \A n \in Nat : RepliesTo(n) => RepliesTo(n + 1)
<1>1. NoReply => ~Yes /\ ~LateYes
  BY YesAreReplies DEF NoReply, Yes, LateYes, After
<1>2. ASSUME NEW n \in Nat, RepliesTo(n) PROVE ~EarlyYes(n + 1)
  <2>1. YesTo(n + 1) \subseteq Beyond(n)
    BY DEF YesTo, Beyond, Where, YesMsgs
  <2> QED
    BY <1>2, <2>1 DEF RepliesTo, EarlyYes, First
<1>3. ASSUME NEW n \in Nat, RepliesTo(n) PROVE RepliesTo(n + 1)
  <2>1. Beyond(n + 1) \subseteq Beyond(n)
    BY DEF Beyond, Where, Of, Messages
  <2> QED
    BY <1>3, <2>1 DEF RepliesTo
<1> QED
  BY <1>1, <1>2, <1>3

\* Nothing is on its way.
LEMMA NothingSent ==
    ASSUME stream = <<>>
    PROVE  NoStop /\ NoCont /\ NoReply /\ ~HasTerm /\ ~LatestStop /\ ~LatestCont
<1>1. \A M : Where(stream, M) = {}
  BY DEF Where
<1>2. StopsAt = {} /\ ContsAt = {} /\ RepliesAt = {} /\ TermsAt = {}
  BY <1>1 DEF StopsAt, ContsAt, RepliesAt, TermsAt
<1> QED
  BY <1>2 DEF NoStop, NoCont, NoReply, HasTerm, LatestStop, LatestCont, Last

\* Nothing is sent or read.
LEMMA StreamSame ==
    ASSUME UNCHANGED stream
    PROVE  /\ (HasTerm' <=> HasTerm) /\ (NoStop' <=> NoStop) /\ (NoCont' <=> NoCont)
           /\ (LatestStop' <=> LatestStop) /\ (LatestCont' <=> LatestCont)
           /\ (NextStop' <=> NextStop) /\ (Alternating' <=> Alternating)
           /\ (NoReply' <=> NoReply) /\ (Yes' <=> Yes) /\ (LateYes' <=> LateYes)
           /\ \A n : OnlyReply(n)' <=> OnlyReply(n)
           /\ \A n : EarlyYes(n)' <=> EarlyYes(n)
           /\ \A n : RepliesTo(n)' <=> RepliesTo(n)
           /\ ContsAt' = ContsAt
BY DEF HasTerm, NoStop, NoCont, LatestStop, LatestCont, NextStop, Alternating, NoReply, Yes,
       LateYes, OnlyReply, EarlyYes, RepliesTo, StopsAt, ContsAt, TermsAt, RepliesAt, YesAt,
       YesTo, NotTo, Beyond

\* The adapter takes the first of the requests.
InboxTaken ==
    /\ Len(inbox) \in Nat /\ Len(inbox) >= 1 /\ Len(inbox') = Len(inbox) - 1
    /\ \A i \in 1 .. Len(inbox) : inbox[i] \in Requests
    /\ \A i \in 1 .. Len(inbox) - 1 : inbox'[i] = inbox[i + 1]
    /\ inbox' \in Seq(Requests)
    /\ Head(inbox) = inbox[1] /\ inbox # <<>>
    /\ Len(inbox) = 1 => inbox' = <<>>

\* It does when it takes one.
LEMMA TakeFacts ==
    ASSUME TypeOK, AdapterTakes
    PROVE  InboxTaken
<1>1. inbox \in Seq(Requests) /\ inbox # <<>> /\ inbox' = Tail(inbox)
  BY DEF TypeOK, AdapterTakes
<1> QED
  BY <1>1 DEF InboxTaken

\* A request goes out; the adapter gets it if it lives.
InboxGets(k) ==
    /\ sent' = sent + 1 /\ Len(inbox) \in Nat
    /\ \A i \in 1 .. Len(inbox) : inbox[i] \in Requests
    /\ inbox' \in Seq(Requests)
    /\ ~conn => inbox' = inbox
    /\ conn => /\ Len(inbox') = Len(inbox) + 1
               /\ \A i \in 1 .. Len(inbox) : inbox'[i] = inbox[i]
               /\ inbox'[Len(inbox) + 1] = [kind |-> k, id |-> sent + 1]
    /\ conn /\ inbox = <<>> => Len(inbox') = 1 /\ inbox'[1] = [kind |-> k, id |-> sent + 1]

\* It does when one is sent.
LEMMA RequestFacts ==
    ASSUME TypeOK, NEW k \in {"pause", "continue", "step"}, Request(k)
    PROVE  InboxGets(k)
<1>1. inbox \in Seq(Requests) /\ sent \in Nat /\ conn \in BOOLEAN
  BY DEF TypeOK
<1>2. [kind |-> k, id |-> sent + 1] \in Requests
  BY <1>1 DEF Requests
<1> QED
  BY <1>1, <1>2 DEF Request, InboxGets

\* The filter's continue goes out (autoContinue).
FilterSends ==
    /\ job.pc = "pass" /\ job.kind = "filter" /\ Pending(job.gen)
    /\ execInFlight' = TRUE
    /\ job' = [job EXCEPT !.pc = "sent", !.id = sent + 1,
                          !.answer = IF done THEN "err" ELSE "none"]
    /\ UNCHANGED <<state, stops, stopGen, stepping, pauseRequested, endings, news,
                   configuring, filters, shutdown, daemon, watching, done, owed, stream,
                   conn, prog, announces, execs, ownStops, surprises, timeouts>>

\* What autoContinue does at a pending stop.
LEMMA FilterFacts ==
    ASSUME TypeOK, JobShape, FilterContinue, Pending(job.gen)
    PROVE  FilterSends /\ InboxGets("continue")
<1>1. Request("continue")
  BY DEF FilterContinue
<1>2. job.kind = "filter"
  BY DEF FilterContinue, JobShape, TypeOK, Jobs, Kinds, Resumes, Idle
<1>3. FilterSends
  BY <1>2 DEF FilterContinue, FilterSends
<1> QED
  BY <1>1, <1>3, RequestFacts

----------------------------------------------------------------------------
(***************************************************************************)
(* Each part of the invariant is kept by every step.                       *)
(***************************************************************************)
\* The session's end and the adapter's.
LEMMA EndsKept ==
    ASSUME TypeOK, JobShape, Ends, [Next]_vars
    PROVE  Ends'
<1>0. state \in States /\ owed \in Answers
  BY DEF TypeOK
<1> USE DEF Ends, States, sessionVars, threadVars, adapterVars, boundVars
<1>1. CASE PauseThreads \/ PauseAdmit \/ Abandon
  BY <1>0, <1>1, StreamSame DEF PauseThreads, PauseAdmit, Abandon, Idle
<1>2. ASSUME NEW k \in Resumes \cup {"pause"}, Admit(k) PROVE Ends'
  BY <1>0, <1>2, StreamSame DEF Admit, Idle, Resumes
<1>3. CASE Send
  <2>1. job.kind \in {"pause", "continue", "step"} /\ Request(job.kind)
    BY <1>3 DEF Send, JobShape, TypeOK, Jobs, Kinds, Resumes, Idle
  <2>2. InboxGets(job.kind) /\ UNCHANGED stream
    BY <1>3, <2>1, RequestFacts DEF Send
  <2> QED
    BY <1>0, <1>3, <2>1, <2>2, StreamSame DEF Send
<1>4. CASE RequestTimeout
  BY <1>0, <1>4, StreamSame DEF RequestTimeout
<1>5. CASE SendDone
  BY <1>0, <1>5, StreamSame DEF SendDone, Idle
<1>6. ASSUME NEW g \in filters, FilterStart(g) PROVE Ends'
  BY <1>0, <1>6, StreamSame DEF FilterStart, Idle, Pending
<1>7. ASSUME NEW w \in BOOLEAN, FilterDecide(w) PROVE Ends'
  BY <1>0, <1>7, StreamSame DEF FilterDecide
<1>8. CASE FilterPublish
  BY <1>0, <1>8, StreamSame DEF FilterPublish, Idle, Publish, Pending, ApplyStop
<1>9. CASE FilterContinue
  <2>1. CASE Pending(job.gen)
    <3>1. FilterSends /\ InboxGets("continue")
      BY <1>9, <2>1, FilterFacts
    <3> QED
      BY <1>0, <3>1, StreamSame DEF FilterSends, Pending
  <2>2. CASE ~Pending(job.gen)
    BY <1>0, <1>9, <2>2, StreamSame DEF FilterContinue, Idle, Pending
  <2> QED
    BY <2>1, <2>2
<1>10. CASE FilterDone
  BY <1>0, <1>10, StreamSame DEF FilterDone, Idle
<1>11. CASE Deliver
  <2>1. /\ ~done /\ stream # <<>> /\ stream' = Tail(stream) /\ Head(stream) \in Messages
        /\ UNCHANGED <<daemon, watching, done, inbox, owed, conn, prog, announces, boundVars>>
    BY <1>11, ReadAll DEF Deliver
  <2>2. ASSUME NEW f \in BOOLEAN, Head(stream).msg \in {"stopBreakpoint", "stopOther"},
               OnStopped(f)
        PROVE  Ends'
    BY <1>0, <2>1, <2>2, ReadStop DEF OnStopped, ApplyStop
  <2>3. CASE Head(stream).msg = "continued" /\ OnContinued
    BY <1>0, <2>1, <2>3, ReadContinued DEF OnContinued
  <2>4. CASE Head(stream).msg = "terminated" /\ OnTerminated
    BY <1>0, <2>1, <2>4, ReadTerminated DEF OnTerminated, End
  <2>5. CASE Head(stream).msg = "response" /\ OnResponse
    BY <1>0, <2>1, <2>5, ReadAnswer DEF OnResponse, Messages
  <2> QED
    BY <1>11, <2>2, <2>3, <2>4, <2>5 DEF Deliver, Dispatch
<1>12. CASE ReadEOF
  BY <1>0, <1>12, StreamSame DEF ReadEOF
<1>13. CASE ConfigureEnd
  BY <1>0, <1>13, StreamSame DEF ConfigureEnd
<1>14. CASE Terminate \/ TerminateWaited \/ DaemonTerminate \/ DaemonWaited \/ ShutdownDone
  BY <1>0, <1>14, StreamSame DEF Terminate, TerminateWaited, DaemonTerminate, DaemonWaited,
     ShutdownDone, Idle, StartShutdown
<1>15. CASE TerminateEnd \/ DaemonEnd \/ AdapterGone
  BY <1>0, <1>15, StreamSame DEF TerminateEnd, DaemonEnd, AdapterGone, Idle, End
<1>16. CASE ShutdownTimeout \/ AdapterCloses
  BY <1>0, <1>16, StreamSame DEF ShutdownTimeout, AdapterCloses
<1>17. CASE AdapterTakes
  <2> DEFINE req == Head(inbox)
  <2>1. /\ conn /\ owed = NoAnswer /\ inbox # <<>> /\ InboxTaken
        /\ req = inbox[1] /\ req \in Requests
        /\ UNCHANGED <<sessionVars, threadVars, done, conn, announces, boundVars>>
    BY <1>17, TakeFacts DEF AdapterTakes, InboxTaken
  <2> HIDE DEF req
  <2>2. CASE /\ req.kind \in {"continue", "step"} /\ prog = "stopped" /\ prog' = "running"
             /\ announces /\ Emit(Event("continued")) /\ owed' = [id |-> req.id, ok |-> TRUE]
    <3>1. Event("continued") \in Messages
      BY DEF Event, Response, Messages, Msgs, Answers, TypeOK
    <3> QED
      BY <1>0, <2>1, <2>2, <3>1, GetsContinued DEF Requests, NoAnswer, Event, Response
  <2>3. CASE /\ req.kind \in {"continue", "step"} /\ prog = "stopped" /\ prog' = "running"
             /\ ~announces /\ UNCHANGED stream /\ owed' = [id |-> req.id, ok |-> TRUE]
    BY <1>0, <2>1, <2>3, StreamSame DEF Requests, NoAnswer
  <2>4. CASE /\ req.kind = "pause" /\ prog = "running" /\ prog' = "stopped"
             /\ Emit(Event("stopOther")) /\ owed' = [id |-> req.id, ok |-> TRUE]
    <3>1. Event("stopOther") \in Messages
      BY DEF Event, Response, Messages, Msgs, Answers, TypeOK
    <3> QED
      BY <1>0, <2>1, <2>4, <3>1, GetsStop DEF Requests, NoAnswer, Event, Response
  <2>5. CASE /\ req.kind = "pause" /\ prog = "stopped" /\ owed' = [id |-> req.id, ok |-> TRUE]
             /\ UNCHANGED <<prog, stream>>
    BY <1>0, <2>1, <2>5, StreamSame DEF Requests, NoAnswer
  <2>6. CASE owed' = [id |-> req.id, ok |-> FALSE] /\ UNCHANGED <<prog, stream>>
    BY <1>0, <2>1, <2>6, StreamSame DEF Requests, NoAnswer
  <2> QED
    BY <1>17, <2>2, <2>3, <2>4, <2>5, <2>6 DEF AdapterTakes, req
<1>18. CASE AdapterAnswers
  <2> Emit(Response(owed.id, owed.ok))
    BY <1>18 DEF AdapterAnswers
  <2>1. Response(owed.id, owed.ok) \in Messages
    BY DEF Event, Response, Messages, Msgs, Answers, TypeOK
  <2> QED
    BY <1>0, <1>18, <2>1, GetsAnswer DEF AdapterAnswers, NoAnswer, Event, Response
<1>19. CASE ProgramStops
  <2> PICK m \in {"stopBreakpoint", "stopOther"} : Emit(Event(m))
    BY <1>19 DEF ProgramStops
  <2>1. Event(m) \in Messages
    BY DEF Event, Response, Messages, Msgs, Answers, TypeOK
  <2> QED
    BY <1>0, <1>19, <2>1, GetsStop DEF ProgramStops, Event, Response
<1>20. CASE ProgramSurprises
  <2>1. CASE prog' = "running" /\ Emit(Event("continued"))
    <3>1. Event("continued") \in Messages
      BY DEF Event, Response, Messages, Msgs, Answers, TypeOK
    <3> QED
      BY <1>0, <1>20, <2>1, <3>1, GetsContinued DEF ProgramSurprises, Event, Response
  <2>2. ASSUME ThreadStops, NEW m \in {"stopBreakpoint", "stopOther"}, Emit(Event(m)),
               UNCHANGED prog
        PROVE  Ends'
    <3>1. Event(m) \in Messages
      BY DEF Event, Response, Messages, Msgs, Answers, TypeOK
    <3> QED
      BY <1>0, <1>20, <2>2, <3>1, GetsStop DEF ProgramSurprises, Event, Response
  <2> QED
    BY <1>20, <2>1, <2>2 DEF ProgramSurprises
<1>21. CASE ProgramExits
  <2> Emit(Event("terminated"))
    BY <1>21 DEF ProgramExits
  <2>1. Event("terminated") \in Messages
    BY DEF Event, Response, Messages, Msgs, Answers, TypeOK
  <2> QED
    BY <1>0, <1>21, <2>1, GetsTerminated DEF ProgramExits, Event, Response
<1>22. CASE UNCHANGED vars
  BY <1>0, <1>22, StreamSame DEF vars
<1> QED
  BY <1>1, <1>2, <1>3, <1>4, <1>5, <1>6, <1>7, <1>8, <1>9, <1>10, <1>11, <1>12, <1>13,
     <1>14, <1>15, <1>16, <1>17, <1>18, <1>19, <1>20, <1>21, <1>22 DEF Next, Exec, Filter,
     Read, Ending, Adapter

\* Requests are told apart by their ids.
LEMMA InboxIdsKept ==
    ASSUME TypeOK, JobShape, InboxIds, [Next]_vars
    PROVE  InboxIds'
<1>0. /\ job \in Jobs /\ stopGen \in Nat /\ stops \in Nat /\ filters \subseteq 1 .. stopGen
      /\ owed \in Answers /\ sent \in Nat
  BY DEF TypeOK
<1>1. CASE PauseThreads
  BY <1>0, <1>1 DEF PauseThreads, Idle, sessionVars, threadVars, adapterVars, boundVars,
     JobShape, Resumes, Jobs, Kinds, InboxIds, Awaits, RequestKind
<1>2. CASE PauseAdmit
  BY <1>0, <1>2 DEF PauseAdmit, Idle, sessionVars, threadVars, adapterVars, boundVars,
     JobShape, Resumes, Jobs, Kinds, InboxIds, Awaits, RequestKind
<1>3. CASE Abandon
  BY <1>0, <1>3 DEF Abandon, Idle, sessionVars, threadVars, adapterVars, boundVars,
     JobShape, Resumes, Jobs, Kinds, InboxIds, Awaits, RequestKind
<1>4. ASSUME NEW k \in Resumes \cup {"pause"}, Admit(k) PROVE InboxIds'
  BY <1>0, <1>4 DEF Admit, Idle, Resumes, sessionVars, threadVars, adapterVars, boundVars,
     JobShape, Jobs, Kinds, InboxIds, Awaits, RequestKind
<1>5. CASE Send
  <2>1. job.kind \in {"pause", "continue", "step"} /\ Request(job.kind)
    BY <1>5 DEF Send, JobShape, TypeOK, Jobs, Kinds, Resumes, Idle
  <2>2. InboxGets(job.kind)
    BY <2>1, RequestFacts
  <2>3. job'.id = sent + 1 /\ job'.kind = job.kind /\ sent' = sent + 1
    BY <1>5, <1>0, <2>2 DEF Send, Jobs, InboxGets
  <2>4. CASE conn
    BY <1>0, <2>1, <2>2, <2>3, <2>4 DEF InboxIds, InboxGets, Awaits, RequestKind
  <2>5. CASE ~conn
    BY <1>0, <2>2, <2>3, <2>5 DEF InboxIds, InboxGets, Awaits, RequestKind
  <2> QED
    BY <2>4, <2>5
<1>6. CASE RequestTimeout
  BY <1>0, <1>6 DEF RequestTimeout, sessionVars, threadVars, adapterVars, boundVars,
     JobShape, Resumes, Jobs, Kinds, Idle, InboxIds, Awaits, RequestKind
<1>7. CASE SendDone
  BY <1>0, <1>7 DEF SendDone, Idle, sessionVars, threadVars, adapterVars, boundVars,
     JobShape, Resumes, Jobs, Kinds, InboxIds, Awaits, RequestKind
<1>8. ASSUME NEW g \in filters, FilterStart(g) PROVE InboxIds'
  BY <1>0, <1>8 DEF FilterStart, Idle, Pending, sessionVars, threadVars, adapterVars,
     boundVars, JobShape, Resumes, Jobs, Kinds, InboxIds, Awaits, RequestKind
<1>9. ASSUME NEW w \in BOOLEAN, FilterDecide(w) PROVE InboxIds'
  BY <1>0, <1>9 DEF FilterDecide, sessionVars, threadVars, adapterVars, boundVars, JobShape,
     Resumes, Jobs, Kinds, Idle, InboxIds, Awaits, RequestKind
<1>10. CASE FilterPublish
  BY <1>0, <1>10 DEF FilterPublish, Idle, Publish, Pending, ApplyStop, sessionVars,
     threadVars, adapterVars, boundVars, JobShape, Resumes, Jobs, Kinds, InboxIds, Awaits,
     RequestKind
<1>11. CASE FilterContinue
  <2>1. CASE Pending(job.gen)
    <3>1. InboxGets("continue")
      BY <1>11, <2>1, RequestFacts DEF FilterContinue
    <3>2. job'.id = sent + 1 /\ job'.kind = "filter" /\ sent' = sent + 1
      <4>1. job.kind = "filter"
        BY <1>11, <1>0 DEF FilterContinue, JobShape, Jobs, Kinds, Resumes, Idle
      <4> QED
        BY <1>11, <1>0, <2>1, <3>1, <4>1 DEF FilterContinue, Jobs, InboxGets
    <3>3. CASE conn
      BY <1>0, <3>1, <3>2, <3>3 DEF InboxIds, InboxGets, Awaits, RequestKind
    <3>4. CASE ~conn
      BY <1>0, <3>1, <3>2, <3>4 DEF InboxIds, InboxGets, Awaits, RequestKind
    <3> QED
      BY <3>3, <3>4
  <2>2. CASE ~Pending(job.gen)
    BY <1>11, <1>0, <2>2 DEF FilterContinue, Idle, InboxIds, Awaits, RequestKind
  <2> QED
    BY <2>1, <2>2
<1>12. CASE FilterDone
  BY <1>0, <1>12 DEF FilterDone, Idle, sessionVars, threadVars, adapterVars, boundVars,
     JobShape, Resumes, Jobs, Kinds, InboxIds, Awaits, RequestKind
<1>13. CASE Deliver
  <2>1. /\ ~done /\ stream # <<>> /\ stream' = Tail(stream) /\ Head(stream) \in Messages
        /\ UNCHANGED <<daemon, watching, done, inbox, owed, conn, prog, announces, boundVars>>
    BY <1>13, ReadAll DEF Deliver
  <2>2. ASSUME NEW f \in BOOLEAN, Head(stream).msg \in {"stopBreakpoint", "stopOther"},
               OnStopped(f)
        PROVE  InboxIds'
    BY <1>0, <2>1, <2>2, ReadStop DEF OnStopped, ApplyStop, sessionVars, threadVars,
       adapterVars, boundVars, JobShape, Resumes, Jobs, Kinds, Idle, InboxIds, Awaits,
       RequestKind
  <2>3. CASE Head(stream).msg = "continued" /\ OnContinued
    BY <1>0, <2>1, <2>3, ReadContinued DEF OnContinued, sessionVars, threadVars,
       adapterVars, boundVars, JobShape, Resumes, Jobs, Kinds, Idle, InboxIds, Awaits,
       RequestKind
  <2>4. CASE Head(stream).msg = "terminated" /\ OnTerminated
    BY <1>0, <2>1, <2>4, ReadTerminated DEF OnTerminated, End, sessionVars, threadVars,
       adapterVars, boundVars, JobShape, Resumes, Jobs, Kinds, Idle, InboxIds, Awaits,
       RequestKind
  <2>5. CASE Head(stream).msg = "response" /\ OnResponse
    BY <1>0, <2>1, <2>5, ReadAnswer DEF OnResponse, Messages, sessionVars, threadVars,
       adapterVars, boundVars, JobShape, Resumes, Jobs, Kinds, Idle, InboxIds, Awaits,
       RequestKind
  <2> QED
    BY <1>13, <2>2, <2>3, <2>4, <2>5 DEF Deliver, Dispatch
<1>14. CASE ReadEOF
  BY <1>0, <1>14 DEF ReadEOF, sessionVars, threadVars, adapterVars, boundVars, JobShape,
     Resumes, Jobs, Kinds, Idle, InboxIds, Awaits, RequestKind
<1>15. CASE ConfigureEnd
  BY <1>0, <1>15 DEF ConfigureEnd, sessionVars, threadVars, adapterVars, boundVars,
     JobShape, Resumes, Jobs, Kinds, Idle, InboxIds, Awaits, RequestKind
<1>16. CASE Terminate
  BY <1>0, <1>16 DEF Terminate, Idle, StartShutdown, sessionVars, threadVars, adapterVars,
     boundVars, JobShape, Resumes, Jobs, Kinds, InboxIds, Awaits, RequestKind
<1>17. CASE TerminateWaited
  BY <1>0, <1>17 DEF TerminateWaited, Idle, StartShutdown, sessionVars, threadVars,
     adapterVars, boundVars, JobShape, Resumes, Jobs, Kinds, InboxIds, Awaits, RequestKind
<1>18. CASE DaemonTerminate
  BY <1>0, <1>18 DEF DaemonTerminate, Idle, StartShutdown, sessionVars, threadVars,
     adapterVars, boundVars, JobShape, Resumes, Jobs, Kinds, InboxIds, Awaits, RequestKind
<1>19. CASE DaemonWaited
  BY <1>0, <1>19 DEF DaemonWaited, Idle, StartShutdown, sessionVars, threadVars,
     adapterVars, boundVars, JobShape, Resumes, Jobs, Kinds, InboxIds, Awaits, RequestKind
<1>20. CASE ShutdownDone
  BY <1>0, <1>20 DEF ShutdownDone, Idle, StartShutdown, sessionVars, threadVars,
     adapterVars, boundVars, JobShape, Resumes, Jobs, Kinds, InboxIds, Awaits, RequestKind
<1>21. CASE TerminateEnd \/ DaemonEnd \/ AdapterGone
  BY <1>0, <1>21 DEF TerminateEnd, DaemonEnd, AdapterGone, Idle, End, sessionVars,
     threadVars, adapterVars, boundVars, JobShape, Resumes, Jobs, Kinds, InboxIds, Awaits,
     RequestKind
<1>22. CASE ShutdownTimeout \/ AdapterCloses
  BY <1>0, <1>22 DEF ShutdownTimeout, AdapterCloses, sessionVars, threadVars, adapterVars,
     boundVars, JobShape, Resumes, Jobs, Kinds, Idle, InboxIds, Awaits, RequestKind
<1>23. CASE AdapterTakes
  <2>1. InboxTaken /\ UNCHANGED <<job, sent>>
    BY <1>23, TakeFacts DEF AdapterTakes, threadVars, boundVars
  <2> QED
    BY <2>1, <1>0, SMTT(30) DEF InboxIds, InboxTaken, Awaits, RequestKind
<1>24. CASE AdapterAnswers
  <2> Emit(Response(owed.id, owed.ok))
    BY <1>24 DEF AdapterAnswers
  <2>1. Response(owed.id, owed.ok) \in Messages
    BY DEF Event, Response, Messages, Msgs, Answers, TypeOK
  <2> QED
    BY <1>0, <1>24, <2>1, GetsAnswer DEF AdapterAnswers, NoAnswer, Event, Response,
       sessionVars, threadVars, adapterVars, boundVars, JobShape, Resumes, Jobs, Kinds, Idle,
       InboxIds, Awaits, RequestKind
<1>25. CASE ProgramStops
  <2> PICK m \in {"stopBreakpoint", "stopOther"} : Emit(Event(m))
    BY <1>25 DEF ProgramStops
  <2>1. Event(m) \in Messages
    BY DEF Event, Response, Messages, Msgs, Answers, TypeOK
  <2> QED
    BY <1>0, <1>25, <2>1, GetsStop DEF ProgramStops, Event, Response, sessionVars,
       threadVars, adapterVars, boundVars, JobShape, Resumes, Jobs, Kinds, Idle, InboxIds,
       Awaits, RequestKind
<1>26. CASE ProgramSurprises
  <2>1. CASE prog' = "running" /\ Emit(Event("continued"))
    <3>1. Event("continued") \in Messages
      BY DEF Event, Response, Messages, Msgs, Answers, TypeOK
    <3> QED
      BY <1>0, <1>26, <2>1, <3>1, GetsContinued DEF ProgramSurprises, Event, Response,
         sessionVars, threadVars, adapterVars, boundVars, JobShape, Resumes, Jobs, Kinds, Idle,
         InboxIds, Awaits, RequestKind
  <2>2. ASSUME ThreadStops, NEW m \in {"stopBreakpoint", "stopOther"}, Emit(Event(m)),
               UNCHANGED prog
        PROVE  InboxIds'
    <3>1. Event(m) \in Messages
      BY DEF Event, Response, Messages, Msgs, Answers, TypeOK
    <3> QED
      BY <1>0, <1>26, <2>2, <3>1, GetsStop DEF ProgramSurprises, Event, Response,
         sessionVars, threadVars, adapterVars, boundVars, JobShape, Resumes, Jobs, Kinds, Idle,
         InboxIds, Awaits, RequestKind
  <2> QED
    BY <1>26, <2>1, <2>2 DEF ProgramSurprises
<1>27. CASE ProgramExits
  <2> Emit(Event("terminated"))
    BY <1>27 DEF ProgramExits
  <2>1. Event("terminated") \in Messages
    BY DEF Event, Response, Messages, Msgs, Answers, TypeOK
  <2> QED
    BY <1>0, <1>27, <2>1, GetsTerminated DEF ProgramExits, Event, Response, sessionVars,
       threadVars, adapterVars, boundVars, JobShape, Resumes, Jobs, Kinds, Idle, InboxIds,
       Awaits, RequestKind
<1>28. CASE UNCHANGED vars
  BY <1>0, <1>28 DEF vars, sessionVars, threadVars, adapterVars, boundVars, JobShape,
     Resumes, Jobs, Kinds, Idle, InboxIds, Awaits, RequestKind
<1> QED
  BY <1>1, <1>2, <1>3, <1>4, <1>5, <1>6, <1>7, <1>8, <1>9, <1>10, <1>11, <1>12, <1>13,
     <1>14, <1>15, <1>16, <1>17, <1>18, <1>19, <1>20, <1>21, <1>22, <1>23, <1>24, <1>25, <1>26,
     <1>27, <1>28 DEF Next, Exec, Filter, Read, Ending, Adapter

\* Answers are to requests that were sent.
LEMMA AnswerIdsKept ==
    ASSUME TypeOK, JobShape, InboxIds, AnswerIds, [Next]_vars
    PROVE  AnswerIds'
<1>0. /\ job \in Jobs /\ stopGen \in Nat /\ stops \in Nat /\ filters \subseteq 1 .. stopGen
      /\ owed \in Answers /\ sent \in Nat
  BY DEF TypeOK
<1> USE DEF AnswerIds, InboxIds, NoAnswer, Answers, InboxTaken, InboxGets, Requests,
   sessionVars, threadVars, adapterVars, boundVars
<1>1. CASE PauseThreads \/ PauseAdmit \/ Abandon
  BY <1>0, <1>1, StreamSame DEF PauseThreads, PauseAdmit, Abandon, Idle
<1>2. ASSUME NEW k \in Resumes \cup {"pause"}, Admit(k) PROVE AnswerIds'
  BY <1>0, <1>2, StreamSame DEF Admit, Idle, Resumes
<1>3. CASE Send
  <2>1. job.kind \in {"pause", "continue", "step"} /\ Request(job.kind)
    BY <1>3 DEF Send, JobShape, TypeOK, Jobs, Kinds, Resumes, Idle
  <2>2. InboxGets(job.kind) /\ UNCHANGED stream
    BY <1>3, <2>1, RequestFacts DEF Send
  <2>3. RepliesTo(sent + 1) /\ sent' = sent + 1
    BY <1>0, <2>2, Replies DEF AnswerIds, InboxGets
  <2> QED
    BY <1>0, <1>3, <2>1, <2>2, <2>3, StreamSame DEF Send
<1>4. CASE RequestTimeout
  BY <1>0, <1>4, StreamSame DEF RequestTimeout
<1>5. CASE SendDone
  BY <1>0, <1>5, StreamSame DEF SendDone, Idle
<1>6. ASSUME NEW g \in filters, FilterStart(g) PROVE AnswerIds'
  BY <1>0, <1>6, StreamSame DEF FilterStart, Idle, Pending
<1>7. ASSUME NEW w \in BOOLEAN, FilterDecide(w) PROVE AnswerIds'
  BY <1>0, <1>7, StreamSame DEF FilterDecide
<1>8. CASE FilterPublish
  BY <1>0, <1>8, StreamSame DEF FilterPublish, Idle, Publish, Pending, ApplyStop
<1>9. CASE FilterContinue
  <2>1. CASE Pending(job.gen)
    <3>1. FilterSends /\ InboxGets("continue")
      BY <1>9, <2>1, FilterFacts
    <3>2. RepliesTo(sent + 1) /\ sent' = sent + 1
      BY <1>0, <3>1, Replies DEF AnswerIds, InboxGets
    <3> QED
      BY <1>0, <3>1, <3>2, StreamSame DEF FilterSends, Pending
  <2>2. CASE ~Pending(job.gen)
    BY <1>0, <1>9, <2>2, StreamSame DEF FilterContinue, Idle, Pending
  <2> QED
    BY <2>1, <2>2
<1>10. CASE FilterDone
  BY <1>0, <1>10, StreamSame DEF FilterDone, Idle
<1>11. CASE Deliver
  <2>1. /\ ~done /\ stream # <<>> /\ stream' = Tail(stream) /\ Head(stream) \in Messages
        /\ UNCHANGED <<daemon, watching, done, inbox, owed, conn, prog, announces, boundVars>>
    BY <1>11, ReadAll DEF Deliver
  <2>2. ASSUME NEW f \in BOOLEAN, Head(stream).msg \in {"stopBreakpoint", "stopOther"},
               OnStopped(f)
        PROVE  AnswerIds'
    BY <1>0, <2>1, <2>2, ReadStop DEF OnStopped, ApplyStop
  <2>3. CASE Head(stream).msg = "continued" /\ OnContinued
    BY <1>0, <2>1, <2>3, ReadContinued DEF OnContinued
  <2>4. CASE Head(stream).msg = "terminated" /\ OnTerminated
    BY <1>0, <2>1, <2>4, ReadTerminated DEF OnTerminated, End
  <2>5. CASE Head(stream).msg = "response" /\ OnResponse
    BY <1>0, <2>1, <2>5, ReadAnswer DEF OnResponse, Messages
  <2> QED
    BY <1>11, <2>2, <2>3, <2>4, <2>5 DEF Deliver, Dispatch
<1>12. CASE ReadEOF
  BY <1>0, <1>12, StreamSame DEF ReadEOF
<1>13. CASE ConfigureEnd
  BY <1>0, <1>13, StreamSame DEF ConfigureEnd
<1>14. CASE Terminate \/ TerminateWaited \/ DaemonTerminate \/ DaemonWaited \/ ShutdownDone
  BY <1>0, <1>14, StreamSame DEF Terminate, TerminateWaited, DaemonTerminate, DaemonWaited,
     ShutdownDone, Idle, StartShutdown
<1>15. CASE TerminateEnd \/ DaemonEnd \/ AdapterGone
  BY <1>0, <1>15, StreamSame DEF TerminateEnd, DaemonEnd, AdapterGone, Idle, End
<1>16. CASE ShutdownTimeout \/ AdapterCloses
  BY <1>0, <1>16, StreamSame DEF ShutdownTimeout, AdapterCloses
<1>17. CASE AdapterTakes
  <2> DEFINE req == Head(inbox)
  <2>1. /\ conn /\ owed = NoAnswer /\ inbox # <<>> /\ InboxTaken
        /\ req = inbox[1] /\ req \in Requests
        /\ UNCHANGED <<sessionVars, threadVars, done, conn, announces, boundVars>>
    BY <1>17, TakeFacts DEF AdapterTakes, InboxTaken
  <2> HIDE DEF req
  <2>2. CASE /\ req.kind \in {"continue", "step"} /\ prog = "stopped" /\ prog' = "running"
             /\ announces /\ Emit(Event("continued")) /\ owed' = [id |-> req.id, ok |-> TRUE]
    <3>1. Event("continued") \in Messages
      BY DEF Event, Response, Messages, Msgs, Answers, TypeOK
    <3> QED
      BY <1>0, <2>1, <2>2, <3>1, GetsContinued DEF Event, Response
  <2>3. CASE /\ req.kind \in {"continue", "step"} /\ prog = "stopped" /\ prog' = "running"
             /\ ~announces /\ UNCHANGED stream /\ owed' = [id |-> req.id, ok |-> TRUE]
    BY <1>0, <2>1, <2>3, StreamSame
  <2>4. CASE /\ req.kind = "pause" /\ prog = "running" /\ prog' = "stopped"
             /\ Emit(Event("stopOther")) /\ owed' = [id |-> req.id, ok |-> TRUE]
    <3>1. Event("stopOther") \in Messages
      BY DEF Event, Response, Messages, Msgs, Answers, TypeOK
    <3> QED
      BY <1>0, <2>1, <2>4, <3>1, GetsStop DEF Event, Response
  <2>5. CASE /\ req.kind = "pause" /\ prog = "stopped" /\ owed' = [id |-> req.id, ok |-> TRUE]
             /\ UNCHANGED <<prog, stream>>
    BY <1>0, <2>1, <2>5, StreamSame
  <2>6. CASE owed' = [id |-> req.id, ok |-> FALSE] /\ UNCHANGED <<prog, stream>>
    BY <1>0, <2>1, <2>6, StreamSame
  <2> QED
    BY <1>17, <2>2, <2>3, <2>4, <2>5, <2>6 DEF AdapterTakes, req
<1>18. CASE AdapterAnswers
  <2> Emit(Response(owed.id, owed.ok))
    BY <1>18 DEF AdapterAnswers
  <2>1. Response(owed.id, owed.ok) \in Messages
    BY DEF Event, Response, Messages, Msgs, Answers, TypeOK
  <2> QED
    BY <1>0, <1>18, <2>1, GetsAnswer DEF AdapterAnswers, Event, Response
<1>19. CASE ProgramStops
  <2> PICK m \in {"stopBreakpoint", "stopOther"} : Emit(Event(m))
    BY <1>19 DEF ProgramStops
  <2>1. Event(m) \in Messages
    BY DEF Event, Response, Messages, Msgs, Answers, TypeOK
  <2> QED
    BY <1>0, <1>19, <2>1, GetsStop DEF ProgramStops, Event, Response
<1>20. CASE ProgramSurprises
  <2>1. CASE prog' = "running" /\ Emit(Event("continued"))
    <3>1. Event("continued") \in Messages
      BY DEF Event, Response, Messages, Msgs, Answers, TypeOK
    <3> QED
      BY <1>0, <1>20, <2>1, <3>1, GetsContinued DEF ProgramSurprises, Event, Response
  <2>2. ASSUME ThreadStops, NEW m \in {"stopBreakpoint", "stopOther"}, Emit(Event(m)),
               UNCHANGED prog
        PROVE  AnswerIds'
    <3>1. Event(m) \in Messages
      BY DEF Event, Response, Messages, Msgs, Answers, TypeOK
    <3> QED
      BY <1>0, <1>20, <2>2, <3>1, GetsStop DEF ProgramSurprises, Event, Response
  <2> QED
    BY <1>20, <2>1, <2>2 DEF ProgramSurprises
<1>21. CASE ProgramExits
  <2> Emit(Event("terminated"))
    BY <1>21 DEF ProgramExits
  <2>1. Event("terminated") \in Messages
    BY DEF Event, Response, Messages, Msgs, Answers, TypeOK
  <2> QED
    BY <1>0, <1>21, <2>1, GetsTerminated DEF ProgramExits, Event, Response
<1>22. CASE UNCHANGED vars
  BY <1>0, <1>22, StreamSame DEF vars
<1> QED
  BY <1>1, <1>2, <1>3, <1>4, <1>5, <1>6, <1>7, <1>8, <1>9, <1>10, <1>11, <1>12, <1>13,
     <1>14, <1>15, <1>16, <1>17, <1>18, <1>19, <1>20, <1>21, <1>22 DEF Next, Exec, Filter,
     Read, Ending, Adapter

\* Without timeouts the only request on its way is the one waited for.
LEMMA OneRequestKept ==
    ASSUME TypeOK, JobShape, Ends, OneRequest, timeouts \in Nat, [Next]_vars
    PROVE  OneRequest'
<1>0. /\ job \in Jobs /\ stopGen \in Nat /\ stops \in Nat /\ filters \subseteq 1 .. stopGen
      /\ owed \in Answers /\ sent \in Nat
  BY DEF TypeOK
<1> USE DEF JobShape, Resumes, Jobs, Kinds, Idle, Ends, OneRequest, Awaits, NoAnswer,
   Answers, InboxTaken, InboxGets, Requests, sessionVars, threadVars, adapterVars, boundVars
<1>1. CASE PauseThreads \/ PauseAdmit \/ Abandon
  BY <1>0, <1>1, StreamSame DEF PauseThreads, PauseAdmit, Abandon
<1>2. ASSUME NEW k \in Resumes \cup {"pause"}, Admit(k) PROVE OneRequest'
  BY <1>0, <1>2, StreamSame DEF Admit
<1>3. CASE Send
  <2>1. job.kind \in {"pause", "continue", "step"} /\ Request(job.kind)
    BY <1>3 DEF Send, JobShape, TypeOK, Jobs, Kinds, Resumes, Idle
  <2>2. InboxGets(job.kind) /\ UNCHANGED stream
    BY <1>3, <2>1, RequestFacts DEF Send
  <2> QED
    BY <1>0, <1>3, <2>1, <2>2, StreamSame DEF Send
<1>4. CASE RequestTimeout
  BY <1>0, <1>4, StreamSame DEF RequestTimeout
<1>5. CASE SendDone
  BY <1>0, <1>5, StreamSame DEF SendDone
<1>6. ASSUME NEW g \in filters, FilterStart(g) PROVE OneRequest'
  BY <1>0, <1>6, StreamSame DEF FilterStart, Pending
<1>7. ASSUME NEW w \in BOOLEAN, FilterDecide(w) PROVE OneRequest'
  BY <1>0, <1>7, StreamSame DEF FilterDecide
<1>8. CASE FilterPublish
  BY <1>0, <1>8, StreamSame DEF FilterPublish, Publish, Pending, ApplyStop
<1>9. CASE FilterContinue
  <2>1. CASE Pending(job.gen)
    <3>1. FilterSends /\ InboxGets("continue")
      BY <1>9, <2>1, FilterFacts
    <3> QED
      BY <1>0, <3>1, StreamSame DEF FilterSends, Pending
  <2>2. CASE ~Pending(job.gen)
    BY <1>0, <1>9, <2>2, StreamSame DEF FilterContinue, Pending
  <2> QED
    BY <2>1, <2>2
<1>10. CASE FilterDone
  BY <1>0, <1>10, StreamSame DEF FilterDone
<1>11. CASE Deliver
  <2>1. /\ ~done /\ stream # <<>> /\ stream' = Tail(stream) /\ Head(stream) \in Messages
        /\ UNCHANGED <<daemon, watching, done, inbox, owed, conn, prog, announces, boundVars>>
    BY <1>11, ReadAll DEF Deliver
  <2>2. ASSUME NEW f \in BOOLEAN, Head(stream).msg \in {"stopBreakpoint", "stopOther"},
               OnStopped(f)
        PROVE  OneRequest'
    BY <1>0, <2>1, <2>2, ReadStop DEF OnStopped, ApplyStop
  <2>3. CASE Head(stream).msg = "continued" /\ OnContinued
    BY <1>0, <2>1, <2>3, ReadContinued DEF OnContinued
  <2>4. CASE Head(stream).msg = "terminated" /\ OnTerminated
    BY <1>0, <2>1, <2>4, ReadTerminated DEF OnTerminated, End
  <2>5. CASE Head(stream).msg = "response" /\ OnResponse
    BY <1>0, <2>1, <2>5, ReadAnswer DEF OnResponse, Messages
  <2> QED
    BY <1>11, <2>2, <2>3, <2>4, <2>5 DEF Deliver, Dispatch
<1>12. CASE ReadEOF
  BY <1>0, <1>12, StreamSame DEF ReadEOF
<1>13. CASE ConfigureEnd
  BY <1>0, <1>13, StreamSame DEF ConfigureEnd
<1>14. CASE Terminate \/ TerminateWaited \/ DaemonTerminate \/ DaemonWaited \/ ShutdownDone
  BY <1>0, <1>14, StreamSame DEF Terminate, TerminateWaited, DaemonTerminate, DaemonWaited,
     ShutdownDone, StartShutdown
<1>15. CASE TerminateEnd \/ DaemonEnd \/ AdapterGone
  BY <1>0, <1>15, StreamSame DEF TerminateEnd, DaemonEnd, AdapterGone, End
<1>16. CASE ShutdownTimeout \/ AdapterCloses
  BY <1>0, <1>16, StreamSame DEF ShutdownTimeout, AdapterCloses
<1>17. CASE AdapterTakes
  <2> DEFINE req == Head(inbox)
  <2>1. /\ conn /\ owed = NoAnswer /\ inbox # <<>> /\ InboxTaken
        /\ req = inbox[1] /\ req \in Requests
        /\ UNCHANGED <<sessionVars, threadVars, done, conn, announces, boundVars>>
    BY <1>17, TakeFacts DEF AdapterTakes, InboxTaken
  <2> HIDE DEF req
  <2>2. CASE /\ req.kind \in {"continue", "step"} /\ prog = "stopped" /\ prog' = "running"
             /\ announces /\ Emit(Event("continued")) /\ owed' = [id |-> req.id, ok |-> TRUE]
    <3>1. Event("continued") \in Messages
      BY DEF Event, Response, Messages, Msgs, Answers, TypeOK
    <3> QED
      BY <1>0, <2>1, <2>2, <3>1, GetsContinued DEF Event, Response
  <2>3. CASE /\ req.kind \in {"continue", "step"} /\ prog = "stopped" /\ prog' = "running"
             /\ ~announces /\ UNCHANGED stream /\ owed' = [id |-> req.id, ok |-> TRUE]
    BY <1>0, <2>1, <2>3, StreamSame
  <2>4. CASE /\ req.kind = "pause" /\ prog = "running" /\ prog' = "stopped"
             /\ Emit(Event("stopOther")) /\ owed' = [id |-> req.id, ok |-> TRUE]
    <3>1. Event("stopOther") \in Messages
      BY DEF Event, Response, Messages, Msgs, Answers, TypeOK
    <3> QED
      BY <1>0, <2>1, <2>4, <3>1, GetsStop DEF Event, Response
  <2>5. CASE /\ req.kind = "pause" /\ prog = "stopped" /\ owed' = [id |-> req.id, ok |-> TRUE]
             /\ UNCHANGED <<prog, stream>>
    BY <1>0, <2>1, <2>5, StreamSame
  <2>6. CASE owed' = [id |-> req.id, ok |-> FALSE] /\ UNCHANGED <<prog, stream>>
    BY <1>0, <2>1, <2>6, StreamSame
  <2> QED
    BY <1>17, <2>2, <2>3, <2>4, <2>5, <2>6 DEF AdapterTakes, req
<1>18. CASE AdapterAnswers
  <2> Emit(Response(owed.id, owed.ok))
    BY <1>18 DEF AdapterAnswers
  <2>1. Response(owed.id, owed.ok) \in Messages
    BY DEF Event, Response, Messages, Msgs, Answers, TypeOK
  <2> QED
    BY <1>0, <1>18, <2>1, GetsAnswer DEF AdapterAnswers, Event, Response
<1>19. CASE ProgramStops
  <2> PICK m \in {"stopBreakpoint", "stopOther"} : Emit(Event(m))
    BY <1>19 DEF ProgramStops
  <2>1. Event(m) \in Messages
    BY DEF Event, Response, Messages, Msgs, Answers, TypeOK
  <2> QED
    BY <1>0, <1>19, <2>1, GetsStop DEF ProgramStops, Event, Response
<1>20. CASE ProgramSurprises
  <2>1. CASE prog' = "running" /\ Emit(Event("continued"))
    <3>1. Event("continued") \in Messages
      BY DEF Event, Response, Messages, Msgs, Answers, TypeOK
    <3> QED
      BY <1>0, <1>20, <2>1, <3>1, GetsContinued DEF ProgramSurprises, Event, Response
  <2>2. ASSUME ThreadStops, NEW m \in {"stopBreakpoint", "stopOther"}, Emit(Event(m)),
               UNCHANGED prog
        PROVE  OneRequest'
    <3>1. Event(m) \in Messages
      BY DEF Event, Response, Messages, Msgs, Answers, TypeOK
    <3> QED
      BY <1>0, <1>20, <2>2, <3>1, GetsStop DEF ProgramSurprises, Event, Response
  <2> QED
    BY <1>20, <2>1, <2>2 DEF ProgramSurprises
<1>21. CASE ProgramExits
  <2> Emit(Event("terminated"))
    BY <1>21 DEF ProgramExits
  <2>1. Event("terminated") \in Messages
    BY DEF Event, Response, Messages, Msgs, Answers, TypeOK
  <2> QED
    BY <1>0, <1>21, <2>1, GetsTerminated DEF ProgramExits, Event, Response
<1>22. CASE UNCHANGED vars
  BY <1>0, <1>22, StreamSame DEF vars
<1> QED
  BY <1>1, <1>2, <1>3, <1>4, <1>5, <1>6, <1>7, <1>8, <1>9, <1>10, <1>11, <1>12, <1>13,
     <1>14, <1>15, <1>16, <1>17, <1>18, <1>19, <1>20, <1>21, <1>22 DEF Next, Exec, Filter,
     Read, Ending, Adapter

\* The resume is read before the answer.
LEMMA AnnouncedKept ==
    ASSUME TypeOK, JobShape, InboxIds, AnswerIds, Announced, [Next]_vars
    PROVE  Announced'
<1>0. /\ job \in Jobs /\ stopGen \in Nat /\ stops \in Nat /\ filters \subseteq 1 .. stopGen
      /\ owed \in Answers /\ sent \in Nat
  BY DEF TypeOK
<1>1. CASE PauseThreads
  BY <1>0, <1>1, StreamSame DEF PauseThreads, Idle, sessionVars, threadVars, adapterVars,
     boundVars, JobShape, Resumes, Jobs, Kinds, InboxIds, AnswerIds, Awaits, RequestKind,
     Announced, Moved, Resuming, InboxTaken, NoAnswer, Answers
<1>2. CASE PauseAdmit
  BY <1>0, <1>2, StreamSame DEF PauseAdmit, Idle, sessionVars, threadVars, adapterVars,
     boundVars, JobShape, Resumes, Jobs, Kinds, InboxIds, AnswerIds, Awaits, RequestKind,
     Announced, Moved, Resuming, InboxTaken, NoAnswer, Answers
<1>3. CASE Abandon
  BY <1>0, <1>3, StreamSame DEF Abandon, Idle, sessionVars, threadVars, adapterVars,
     boundVars, JobShape, Resumes, Jobs, Kinds, InboxIds, AnswerIds, Awaits, RequestKind,
     Announced, Moved, Resuming, InboxTaken, NoAnswer, Answers
<1>4. ASSUME NEW k \in Resumes \cup {"pause"}, Admit(k) PROVE Announced'
  BY <1>0, <1>4, StreamSame DEF Admit, Idle, Resumes, sessionVars, threadVars, adapterVars,
     boundVars, JobShape, Jobs, Kinds, InboxIds, AnswerIds, Awaits, RequestKind, Announced,
     Moved, Resuming, InboxTaken, NoAnswer, Answers
<1>5. CASE Send
  <2>1. job.kind \in {"pause", "continue", "step"} /\ Request(job.kind)
    BY <1>5 DEF Send, JobShape, TypeOK, Jobs, Kinds, Resumes, Idle
  <2>2. InboxGets(job.kind) /\ UNCHANGED stream
    BY <1>5, <2>1, RequestFacts DEF Send
  <2>3. ~EarlyYes(sent + 1) /\ owed.id # sent + 1
    BY <1>0, <2>2, Replies DEF AnswerIds, Answers
  <2> QED
    BY <1>0, <1>5, <2>1, <2>2, <2>3, StreamSame DEF Send, sessionVars, threadVars,
       adapterVars, boundVars, JobShape, Resumes, Jobs, Kinds, Idle, InboxIds, AnswerIds,
       Awaits, RequestKind, Announced, Moved, Resuming, InboxTaken, NoAnswer, Answers
<1>6. CASE RequestTimeout
  BY <1>0, <1>6, StreamSame DEF RequestTimeout, sessionVars, threadVars, adapterVars,
     boundVars, JobShape, Resumes, Jobs, Kinds, Idle, InboxIds, AnswerIds, Awaits, RequestKind,
     Announced, Moved, Resuming, InboxTaken, NoAnswer, Answers
<1>7. CASE SendDone
  BY <1>0, <1>7, StreamSame DEF SendDone, Idle, sessionVars, threadVars, adapterVars,
     boundVars, JobShape, Resumes, Jobs, Kinds, InboxIds, AnswerIds, Awaits, RequestKind,
     Announced, Moved, Resuming, InboxTaken, NoAnswer, Answers
<1>8. ASSUME NEW g \in filters, FilterStart(g) PROVE Announced'
  BY <1>0, <1>8, StreamSame DEF FilterStart, Idle, Pending, sessionVars, threadVars,
     adapterVars, boundVars, JobShape, Resumes, Jobs, Kinds, InboxIds, AnswerIds, Awaits,
     RequestKind, Announced, Moved, Resuming, InboxTaken, NoAnswer, Answers
<1>9. ASSUME NEW w \in BOOLEAN, FilterDecide(w) PROVE Announced'
  BY <1>0, <1>9, StreamSame DEF FilterDecide, sessionVars, threadVars, adapterVars,
     boundVars, JobShape, Resumes, Jobs, Kinds, Idle, InboxIds, AnswerIds, Awaits, RequestKind,
     Announced, Moved, Resuming, InboxTaken, NoAnswer, Answers
<1>10. CASE FilterPublish
  BY <1>0, <1>10, StreamSame DEF FilterPublish, Idle, Publish, Pending, ApplyStop,
     sessionVars, threadVars, adapterVars, boundVars, JobShape, Resumes, Jobs, Kinds, InboxIds,
     AnswerIds, Awaits, RequestKind, Announced, Moved, Resuming, InboxTaken, NoAnswer, Answers
<1>11. CASE FilterContinue
  <2>1. CASE Pending(job.gen)
    <3>1. FilterSends /\ InboxGets("continue")
      BY <1>11, <2>1, FilterFacts
    <3>2. ~EarlyYes(sent + 1) /\ owed.id # sent + 1
      BY <1>0, <3>1, Replies DEF AnswerIds, Answers
    <3> QED
      BY <1>0, <3>1, <3>2, StreamSame DEF FilterSends, Pending, sessionVars, threadVars,
         adapterVars, boundVars, JobShape, Resumes, Jobs, Kinds, Idle, InboxIds, AnswerIds,
         Awaits, RequestKind, Announced, Moved, Resuming, InboxTaken, NoAnswer, Answers
  <2>2. CASE ~Pending(job.gen)
    BY <1>0, <1>11, <2>2, StreamSame DEF FilterContinue, Idle, Pending, sessionVars,
       threadVars, adapterVars, boundVars, JobShape, Resumes, Jobs, Kinds, InboxIds, AnswerIds,
       Awaits, RequestKind, Announced, Moved, Resuming, InboxTaken, NoAnswer, Answers
  <2> QED
    BY <2>1, <2>2
<1>12. CASE FilterDone
  BY <1>0, <1>12, StreamSame DEF FilterDone, Idle, sessionVars, threadVars, adapterVars,
     boundVars, JobShape, Resumes, Jobs, Kinds, InboxIds, AnswerIds, Awaits, RequestKind,
     Announced, Moved, Resuming, InboxTaken, NoAnswer, Answers
<1>13. CASE Deliver
  <2>1. /\ ~done /\ stream # <<>> /\ stream' = Tail(stream) /\ Head(stream) \in Messages
        /\ UNCHANGED <<daemon, watching, done, inbox, owed, conn, prog, announces, boundVars>>
    BY <1>13, ReadAll DEF Deliver
  <2>2. ASSUME NEW f \in BOOLEAN, Head(stream).msg \in {"stopBreakpoint", "stopOther"},
               OnStopped(f)
        PROVE  Announced'
    BY <1>0, <2>1, <2>2, ReadStop DEF OnStopped, ApplyStop, sessionVars, threadVars,
       adapterVars, boundVars, JobShape, Resumes, Jobs, Kinds, Idle, InboxIds, AnswerIds,
       Awaits, RequestKind, Announced, Moved, Resuming, InboxTaken, NoAnswer, Answers
  <2>3. CASE Head(stream).msg = "continued" /\ OnContinued
    BY <1>0, <2>1, <2>3, ReadContinued DEF OnContinued, sessionVars, threadVars,
       adapterVars, boundVars, JobShape, Resumes, Jobs, Kinds, Idle, InboxIds, AnswerIds,
       Awaits, RequestKind, Announced, Moved, Resuming, InboxTaken, NoAnswer, Answers
  <2>4. CASE Head(stream).msg = "terminated" /\ OnTerminated
    BY <1>0, <2>1, <2>4, ReadTerminated DEF OnTerminated, End, sessionVars, threadVars,
       adapterVars, boundVars, JobShape, Resumes, Jobs, Kinds, Idle, InboxIds, AnswerIds,
       Awaits, RequestKind, Announced, Moved, Resuming, InboxTaken, NoAnswer, Answers
  <2>5. CASE Head(stream).msg = "response" /\ OnResponse
    BY <1>0, <2>1, <2>5, ReadAnswer DEF OnResponse, Messages, sessionVars, threadVars,
       adapterVars, boundVars, JobShape, Resumes, Jobs, Kinds, Idle, InboxIds, AnswerIds,
       Awaits, RequestKind, Announced, Moved, Resuming, InboxTaken, NoAnswer, Answers
  <2> QED
    BY <1>13, <2>2, <2>3, <2>4, <2>5 DEF Deliver, Dispatch
<1>14. CASE ReadEOF
  BY <1>0, <1>14, StreamSame DEF ReadEOF, sessionVars, threadVars, adapterVars, boundVars,
     JobShape, Resumes, Jobs, Kinds, Idle, InboxIds, AnswerIds, Awaits, RequestKind, Announced,
     Moved, Resuming, InboxTaken, NoAnswer, Answers
<1>15. CASE ConfigureEnd
  BY <1>0, <1>15, StreamSame DEF ConfigureEnd, sessionVars, threadVars, adapterVars,
     boundVars, JobShape, Resumes, Jobs, Kinds, Idle, InboxIds, AnswerIds, Awaits, RequestKind,
     Announced, Moved, Resuming, InboxTaken, NoAnswer, Answers
<1>16. CASE Terminate
  BY <1>0, <1>16, StreamSame DEF Terminate, Idle, StartShutdown, sessionVars, threadVars,
     adapterVars, boundVars, JobShape, Resumes, Jobs, Kinds, InboxIds, AnswerIds, Awaits,
     RequestKind, Announced, Moved, Resuming, InboxTaken, NoAnswer, Answers
<1>17. CASE TerminateWaited
  BY <1>0, <1>17, StreamSame DEF TerminateWaited, Idle, StartShutdown, sessionVars,
     threadVars, adapterVars, boundVars, JobShape, Resumes, Jobs, Kinds, InboxIds, AnswerIds,
     Awaits, RequestKind, Announced, Moved, Resuming, InboxTaken, NoAnswer, Answers
<1>18. CASE DaemonTerminate
  BY <1>0, <1>18, StreamSame DEF DaemonTerminate, Idle, StartShutdown, sessionVars,
     threadVars, adapterVars, boundVars, JobShape, Resumes, Jobs, Kinds, InboxIds, AnswerIds,
     Awaits, RequestKind, Announced, Moved, Resuming, InboxTaken, NoAnswer, Answers
<1>19. CASE DaemonWaited
  BY <1>0, <1>19, StreamSame DEF DaemonWaited, Idle, StartShutdown, sessionVars, threadVars,
     adapterVars, boundVars, JobShape, Resumes, Jobs, Kinds, InboxIds, AnswerIds, Awaits,
     RequestKind, Announced, Moved, Resuming, InboxTaken, NoAnswer, Answers
<1>20. CASE ShutdownDone
  BY <1>0, <1>20, StreamSame DEF ShutdownDone, Idle, StartShutdown, sessionVars, threadVars,
     adapterVars, boundVars, JobShape, Resumes, Jobs, Kinds, InboxIds, AnswerIds, Awaits,
     RequestKind, Announced, Moved, Resuming, InboxTaken, NoAnswer, Answers
<1>21. CASE TerminateEnd
  BY <1>0, <1>21, StreamSame DEF TerminateEnd, Idle, End, sessionVars, threadVars,
     adapterVars, boundVars, JobShape, Resumes, Jobs, Kinds, InboxIds, AnswerIds, Awaits,
     RequestKind, Announced, Moved, Resuming, InboxTaken, NoAnswer, Answers
<1>22. CASE DaemonEnd
  BY <1>0, <1>22, StreamSame DEF DaemonEnd, Idle, End, sessionVars, threadVars, adapterVars,
     boundVars, JobShape, Resumes, Jobs, Kinds, InboxIds, AnswerIds, Awaits, RequestKind,
     Announced, Moved, Resuming, InboxTaken, NoAnswer, Answers
<1>23. CASE AdapterGone
  BY <1>0, <1>23, StreamSame DEF AdapterGone, Idle, End, sessionVars, threadVars,
     adapterVars, boundVars, JobShape, Resumes, Jobs, Kinds, InboxIds, AnswerIds, Awaits,
     RequestKind, Announced, Moved, Resuming, InboxTaken, NoAnswer, Answers
<1>24. CASE ShutdownTimeout
  BY <1>0, <1>24, StreamSame DEF ShutdownTimeout, sessionVars, threadVars, adapterVars,
     boundVars, JobShape, Resumes, Jobs, Kinds, Idle, InboxIds, AnswerIds, Awaits, RequestKind,
     Announced, Moved, Resuming, InboxTaken, NoAnswer, Answers
<1>25. CASE AdapterCloses
  BY <1>0, <1>25, StreamSame DEF AdapterCloses, sessionVars, threadVars, adapterVars,
     boundVars, JobShape, Resumes, Jobs, Kinds, Idle, InboxIds, AnswerIds, Awaits, RequestKind,
     Announced, Moved, Resuming, InboxTaken, NoAnswer, Answers
<1>26. CASE AdapterTakes
  <2> DEFINE req == Head(inbox)
  <2>1. /\ conn /\ owed = NoAnswer /\ inbox # <<>> /\ InboxTaken
        /\ req = inbox[1] /\ req \in Requests
        /\ UNCHANGED <<sessionVars, threadVars, done, conn, announces, boundVars>>
    BY <1>26, TakeFacts DEF AdapterTakes, InboxTaken
  <2> HIDE DEF req
  <2>0. req.kind = "pause" => ~(job.kind \in Resuming /\ Awaits /\ req.id = job.id)
    BY <1>0, <2>1 DEF InboxIds, InboxTaken, Awaits, RequestKind, Resuming, Resumes
  <2>2. CASE /\ req.kind \in {"continue", "step"} /\ prog = "stopped" /\ prog' = "running"
             /\ announces /\ Emit(Event("continued")) /\ owed' = [id |-> req.id, ok |-> TRUE]
    <3>1. Event("continued") \in Messages
      BY DEF Event, Response, Messages, Msgs, Answers, TypeOK
    <3> QED
      BY <1>0, <2>1, <2>2, <3>1, GetsContinued DEF Requests, NoAnswer, Event, Response,
         sessionVars, threadVars, adapterVars, boundVars, JobShape, Resumes, Jobs, Kinds, Idle,
         InboxIds, AnswerIds, Awaits, RequestKind, Announced, Moved, Resuming, InboxTaken,
         Answers
  <2>3. CASE /\ req.kind \in {"continue", "step"} /\ prog = "stopped" /\ prog' = "running"
             /\ ~announces /\ UNCHANGED stream /\ owed' = [id |-> req.id, ok |-> TRUE]
    BY <1>0, <2>1, <2>3, StreamSame DEF Requests, NoAnswer, sessionVars, threadVars,
       adapterVars, boundVars, JobShape, Resumes, Jobs, Kinds, Idle, InboxIds, AnswerIds,
       Awaits, RequestKind, Announced, Moved, Resuming, InboxTaken, Answers
  <2>4. CASE /\ req.kind = "pause" /\ prog = "running" /\ prog' = "stopped"
             /\ Emit(Event("stopOther")) /\ owed' = [id |-> req.id, ok |-> TRUE]
    <3>1. Event("stopOther") \in Messages
      BY DEF Event, Response, Messages, Msgs, Answers, TypeOK
    <3> QED
      BY <1>0, <2>1, <2>4, <2>0, <3>1, GetsStop DEF Requests, NoAnswer, Event, Response,
         sessionVars, threadVars, adapterVars, boundVars, JobShape, Resumes, Jobs, Kinds, Idle,
         InboxIds, AnswerIds, Awaits, RequestKind, Announced, Moved, Resuming, InboxTaken,
         Answers
  <2>5. CASE /\ req.kind = "pause" /\ prog = "stopped" /\ owed' = [id |-> req.id, ok |-> TRUE]
             /\ UNCHANGED <<prog, stream>>
    BY <1>0, <2>1, <2>5, <2>0, StreamSame DEF Requests, NoAnswer, sessionVars, threadVars,
       adapterVars, boundVars, JobShape, Resumes, Jobs, Kinds, Idle, InboxIds, AnswerIds,
       Awaits, RequestKind, Announced, Moved, Resuming, InboxTaken, Answers
  <2>6. CASE owed' = [id |-> req.id, ok |-> FALSE] /\ UNCHANGED <<prog, stream>>
    BY <1>0, <2>1, <2>6, StreamSame DEF Requests, NoAnswer, sessionVars, threadVars,
       adapterVars, boundVars, JobShape, Resumes, Jobs, Kinds, Idle, InboxIds, AnswerIds,
       Awaits, RequestKind, Announced, Moved, Resuming, InboxTaken, Answers
  <2> QED
    BY <1>26, <2>2, <2>3, <2>4, <2>5, <2>6 DEF AdapterTakes, req
<1>27. CASE AdapterAnswers
  <2> Emit(Response(owed.id, owed.ok))
    BY <1>27 DEF AdapterAnswers
  <2>1. Response(owed.id, owed.ok) \in Messages
    BY DEF Event, Response, Messages, Msgs, Answers, TypeOK
  <2> QED
    BY <1>0, <1>27, <2>1, GetsAnswer DEF AdapterAnswers, NoAnswer, Event, Response,
       sessionVars, threadVars, adapterVars, boundVars, JobShape, Resumes, Jobs, Kinds, Idle,
       InboxIds, AnswerIds, Awaits, RequestKind, Announced, Moved, Resuming, InboxTaken,
       Answers
<1>28. CASE ProgramStops
  <2> PICK m \in {"stopBreakpoint", "stopOther"} : Emit(Event(m))
    BY <1>28 DEF ProgramStops
  <2>1. Event(m) \in Messages
    BY DEF Event, Response, Messages, Msgs, Answers, TypeOK
  <2> QED
    BY <1>0, <1>28, <2>1, GetsStop DEF ProgramStops, Event, Response, sessionVars,
       threadVars, adapterVars, boundVars, JobShape, Resumes, Jobs, Kinds, Idle, InboxIds,
       AnswerIds, Awaits, RequestKind, Announced, Moved, Resuming, InboxTaken, NoAnswer,
       Answers
<1>29. CASE ProgramSurprises
  <2>1. CASE prog' = "running" /\ Emit(Event("continued"))
    <3>1. Event("continued") \in Messages
      BY DEF Event, Response, Messages, Msgs, Answers, TypeOK
    <3> QED
      BY <1>0, <1>29, <2>1, <3>1, GetsContinued DEF ProgramSurprises, Event, Response,
         sessionVars, threadVars, adapterVars, boundVars, JobShape, Resumes, Jobs, Kinds, Idle,
         InboxIds, AnswerIds, Awaits, RequestKind, Announced, Moved, Resuming, InboxTaken,
         NoAnswer, Answers
  <2>2. ASSUME ThreadStops, NEW m \in {"stopBreakpoint", "stopOther"}, Emit(Event(m)),
               UNCHANGED prog
        PROVE  Announced'
    <3>1. Event(m) \in Messages
      BY DEF Event, Response, Messages, Msgs, Answers, TypeOK
    <3> QED
      BY <1>0, <1>29, <2>2, <3>1, GetsStop DEF ProgramSurprises, Event, Response,
         sessionVars, threadVars, adapterVars, boundVars, JobShape, Resumes, Jobs, Kinds, Idle,
         InboxIds, AnswerIds, Awaits, RequestKind, Announced, Moved, Resuming, InboxTaken,
         NoAnswer, Answers
  <2> QED
    BY <1>29, <2>1, <2>2 DEF ProgramSurprises
<1>30. CASE ProgramExits
  <2> Emit(Event("terminated"))
    BY <1>30 DEF ProgramExits
  <2>1. Event("terminated") \in Messages
    BY DEF Event, Response, Messages, Msgs, Answers, TypeOK
  <2> QED
    BY <1>0, <1>30, <2>1, GetsTerminated DEF ProgramExits, Event, Response, sessionVars,
       threadVars, adapterVars, boundVars, JobShape, Resumes, Jobs, Kinds, Idle, InboxIds,
       AnswerIds, Awaits, RequestKind, Announced, Moved, Resuming, InboxTaken, NoAnswer,
       Answers
<1>31. CASE UNCHANGED vars
  BY <1>0, <1>31, StreamSame DEF vars, sessionVars, threadVars, adapterVars, boundVars,
     JobShape, Resumes, Jobs, Kinds, Idle, InboxIds, AnswerIds, Awaits, RequestKind, Announced,
     Moved, Resuming, InboxTaken, NoAnswer, Answers
<1> QED
  BY <1>1, <1>2, <1>3, <1>4, <1>5, <1>6, <1>7, <1>8, <1>9, <1>10, <1>11, <1>12, <1>13,
     <1>14, <1>15, <1>16, <1>17, <1>18, <1>19, <1>20, <1>21, <1>22, <1>23, <1>24, <1>25, <1>26,
     <1>27, <1>28, <1>29, <1>30, <1>31 DEF Next, Exec, Filter, Read, Ending, Adapter

\* The session follows what an announcing adapter sends.
LEMMA FollowsKept ==
    ASSUME TypeOK, JobShape, Ends, Announced, Follows, [Next]_vars
    PROVE  Follows'
<1>0. /\ job \in Jobs /\ stopGen \in Nat /\ stops \in Nat /\ filters \subseteq 1 .. stopGen
      /\ owed \in Answers /\ sent \in Nat
  BY DEF TypeOK
<1> USE DEF JobShape, Resumes, Jobs, Kinds, Idle, Ends, Announced, Follows, Held, Shown,
   Moved, Resuming, sessionVars, threadVars, adapterVars, boundVars
<1>1. CASE PauseThreads
  BY <1>0, <1>1, StreamSame DEF PauseThreads
<1>2. CASE PauseAdmit
  BY <1>0, <1>2, StreamSame DEF PauseAdmit
<1>3. CASE Abandon
  BY <1>0, <1>3, StreamSame DEF Abandon
<1>4. ASSUME NEW k \in Resumes \cup {"pause"}, Admit(k) PROVE Follows'
  BY <1>0, <1>4, StreamSame DEF Admit
<1>5. CASE Send
  <2>1. job.kind \in {"pause", "continue", "step"} /\ Request(job.kind)
    BY <1>5 DEF Send, JobShape, TypeOK, Jobs, Kinds, Resumes, Idle
  <2>2. InboxGets(job.kind) /\ UNCHANGED stream
    BY <1>5, <2>1, RequestFacts DEF Send
  <2> QED
    BY <1>0, <1>5, <2>1, <2>2, StreamSame DEF Send
<1>6. CASE RequestTimeout
  BY <1>0, <1>6, StreamSame DEF RequestTimeout
<1>7. CASE SendDone
  BY <1>0, <1>7, StreamSame DEF SendDone
<1>8. ASSUME NEW g \in filters, FilterStart(g) PROVE Follows'
  BY <1>0, <1>8, StreamSame DEF FilterStart, Pending
<1>9. ASSUME NEW w \in BOOLEAN, FilterDecide(w) PROVE Follows'
  BY <1>0, <1>9, StreamSame DEF FilterDecide
<1>10. CASE FilterPublish
  BY <1>0, <1>10, StreamSame DEF FilterPublish, Publish, Pending, ApplyStop
<1>11. CASE FilterContinue
  <2>1. CASE Pending(job.gen)
    <3>1. FilterSends /\ InboxGets("continue")
      BY <1>11, <2>1, FilterFacts
    <3> QED
      BY <1>0, <3>1, StreamSame DEF FilterSends, Pending
  <2>2. CASE ~Pending(job.gen)
    BY <1>0, <1>11, <2>2, StreamSame DEF FilterContinue, Pending
  <2> QED
    BY <2>1, <2>2
<1>12. CASE FilterDone
  BY <1>0, <1>12, StreamSame DEF FilterDone
<1>13. CASE Deliver
  <2>1. /\ ~done /\ stream # <<>> /\ stream' = Tail(stream) /\ Head(stream) \in Messages
        /\ UNCHANGED <<daemon, watching, done, inbox, owed, conn, prog, announces, boundVars>>
    BY <1>13, ReadAll DEF Deliver
  <2>2. ASSUME NEW f \in BOOLEAN, Head(stream).msg \in {"stopBreakpoint", "stopOther"},
               OnStopped(f)
        PROVE  Follows'
    BY <1>0, <2>1, <2>2, ReadStop DEF OnStopped, ApplyStop
  <2>3. CASE Head(stream).msg = "continued" /\ OnContinued
    BY <1>0, <2>1, <2>3, ReadContinued DEF OnContinued
  <2>4. CASE Head(stream).msg = "terminated" /\ OnTerminated
    BY <1>0, <2>1, <2>4, ReadTerminated DEF OnTerminated, End
  <2>5. CASE Head(stream).msg = "response" /\ OnResponse
    BY <1>0, <2>1, <2>5, ReadAnswer DEF OnResponse, Messages
  <2> QED
    BY <1>13, <2>2, <2>3, <2>4, <2>5 DEF Deliver, Dispatch
<1>14. CASE ReadEOF
  BY <1>0, <1>14, StreamSame DEF ReadEOF
<1>15. CASE ConfigureEnd
  BY <1>0, <1>15, StreamSame DEF ConfigureEnd
<1>16. CASE Terminate
  BY <1>0, <1>16, StreamSame DEF Terminate, StartShutdown
<1>17. CASE TerminateWaited
  BY <1>0, <1>17, StreamSame DEF TerminateWaited, StartShutdown
<1>18. CASE DaemonTerminate
  BY <1>0, <1>18, StreamSame DEF DaemonTerminate, StartShutdown
<1>19. CASE DaemonWaited
  BY <1>0, <1>19, StreamSame DEF DaemonWaited, StartShutdown
<1>20. CASE ShutdownDone
  BY <1>0, <1>20, StreamSame DEF ShutdownDone, StartShutdown
<1>21. CASE TerminateEnd
  BY <1>0, <1>21, StreamSame DEF TerminateEnd, End
<1>22. CASE DaemonEnd
  BY <1>0, <1>22, StreamSame DEF DaemonEnd, End
<1>23. CASE AdapterGone
  BY <1>0, <1>23, StreamSame DEF AdapterGone, End
<1>24. CASE ShutdownTimeout
  BY <1>0, <1>24, StreamSame DEF ShutdownTimeout
<1>25. CASE AdapterCloses
  BY <1>0, <1>25, StreamSame DEF AdapterCloses
<1>26. CASE AdapterTakes
  <2> DEFINE req == Head(inbox)
  <2>1. /\ conn /\ owed = NoAnswer /\ inbox # <<>> /\ InboxTaken
        /\ req = inbox[1] /\ req \in Requests
        /\ UNCHANGED <<sessionVars, threadVars, done, conn, announces, boundVars>>
    BY <1>26, TakeFacts DEF AdapterTakes, InboxTaken
  <2> HIDE DEF req
  <2>2. CASE /\ req.kind \in {"continue", "step"} /\ prog = "stopped" /\ prog' = "running"
             /\ announces /\ Emit(Event("continued")) /\ owed' = [id |-> req.id, ok |-> TRUE]
    <3>1. Event("continued") \in Messages
      BY DEF Event, Response, Messages, Msgs, Answers, TypeOK
    <3> QED
      BY <1>0, <2>1, <2>2, <3>1, GetsContinued DEF Requests, NoAnswer, Event, Response
  <2>3. CASE /\ req.kind \in {"continue", "step"} /\ prog = "stopped" /\ prog' = "running"
             /\ ~announces /\ UNCHANGED stream /\ owed' = [id |-> req.id, ok |-> TRUE]
    BY <1>0, <2>1, <2>3, StreamSame DEF Requests, NoAnswer
  <2>4. CASE /\ req.kind = "pause" /\ prog = "running" /\ prog' = "stopped"
             /\ Emit(Event("stopOther")) /\ owed' = [id |-> req.id, ok |-> TRUE]
    <3>1. Event("stopOther") \in Messages
      BY DEF Event, Response, Messages, Msgs, Answers, TypeOK
    <3> QED
      BY <1>0, <2>1, <2>4, <3>1, GetsStop DEF Requests, NoAnswer, Event, Response
  <2>5. CASE /\ req.kind = "pause" /\ prog = "stopped" /\ owed' = [id |-> req.id, ok |-> TRUE]
             /\ UNCHANGED <<prog, stream>>
    BY <1>0, <2>1, <2>5, StreamSame DEF Requests, NoAnswer
  <2>6. CASE owed' = [id |-> req.id, ok |-> FALSE] /\ UNCHANGED <<prog, stream>>
    BY <1>0, <2>1, <2>6, StreamSame DEF Requests, NoAnswer
  <2> QED
    BY <1>26, <2>2, <2>3, <2>4, <2>5, <2>6 DEF AdapterTakes, req
<1>27. CASE AdapterAnswers
  <2> Emit(Response(owed.id, owed.ok))
    BY <1>27 DEF AdapterAnswers
  <2>1. Response(owed.id, owed.ok) \in Messages
    BY DEF Event, Response, Messages, Msgs, Answers, TypeOK
  <2> QED
    BY <1>0, <1>27, <2>1, GetsAnswer DEF AdapterAnswers, NoAnswer, Event, Response
<1>28. CASE ProgramStops
  <2> PICK m \in {"stopBreakpoint", "stopOther"} : Emit(Event(m))
    BY <1>28 DEF ProgramStops
  <2>1. Event(m) \in Messages
    BY DEF Event, Response, Messages, Msgs, Answers, TypeOK
  <2> QED
    BY <1>0, <1>28, <2>1, GetsStop DEF ProgramStops, Event, Response
<1>29. CASE ProgramSurprises
  <2>1. CASE prog' = "running" /\ Emit(Event("continued"))
    <3>1. Event("continued") \in Messages
      BY DEF Event, Response, Messages, Msgs, Answers, TypeOK
    <3> QED
      BY <1>0, <1>29, <2>1, <3>1, GetsContinued DEF ProgramSurprises, Event, Response
  <2>2. ASSUME ThreadStops, NEW m \in {"stopBreakpoint", "stopOther"}, Emit(Event(m)),
               UNCHANGED prog
        PROVE  Follows'
    <3>1. Event(m) \in Messages
      BY DEF Event, Response, Messages, Msgs, Answers, TypeOK
    <3> QED
      BY <1>0, <1>29, <2>2, <3>1, GetsStop DEF ProgramSurprises, Event, Response
  <2> QED
    BY <1>29, <2>1, <2>2 DEF ProgramSurprises
<1>30. CASE ProgramExits
  <2> Emit(Event("terminated"))
    BY <1>30 DEF ProgramExits
  <2>1. Event("terminated") \in Messages
    BY DEF Event, Response, Messages, Msgs, Answers, TypeOK
  <2> QED
    BY <1>0, <1>30, <2>1, GetsTerminated DEF ProgramExits, Event, Response
<1>31. CASE UNCHANGED vars
  BY <1>0, <1>31, StreamSame DEF vars
<1> QED
  BY <1>1, <1>2, <1>3, <1>4, <1>5, <1>6, <1>7, <1>8, <1>9, <1>10, <1>11, <1>12, <1>13,
     <1>14, <1>15, <1>16, <1>17, <1>18, <1>19, <1>20, <1>21, <1>22, <1>23, <1>24, <1>25, <1>26,
     <1>27, <1>28, <1>29, <1>30, <1>31 DEF Next, Exec, Filter, Read, Ending, Adapter

\* With an announcing adapter, a held stop is not shown over another.
LEMMA LooksKept ==
    ASSUME TypeOK, JobShape, Announced, Follows, Looks, [Next]_vars
    PROVE  Looks'
<1>0. /\ job \in Jobs /\ stopGen \in Nat /\ stops \in Nat /\ filters \subseteq 1 .. stopGen
      /\ owed \in Answers /\ sent \in Nat
  BY DEF TypeOK
<1> USE DEF JobShape, Resumes, Jobs, Kinds, Idle, Announced, Follows, Looks, Held, Shown,
   Moved, Resuming, sessionVars, threadVars, adapterVars, boundVars
<1>1. CASE PauseThreads
  BY <1>0, <1>1, StreamSame DEF PauseThreads
<1>2. CASE PauseAdmit
  BY <1>0, <1>2, StreamSame DEF PauseAdmit
<1>3. CASE Abandon
  BY <1>0, <1>3, StreamSame DEF Abandon
<1>4. ASSUME NEW k \in Resumes \cup {"pause"}, Admit(k) PROVE Looks'
  BY <1>0, <1>4, StreamSame DEF Admit
<1>5. CASE Send
  <2>1. job.kind \in {"pause", "continue", "step"} /\ Request(job.kind)
    BY <1>5 DEF Send, JobShape, TypeOK, Jobs, Kinds, Resumes, Idle
  <2>2. InboxGets(job.kind) /\ UNCHANGED stream
    BY <1>5, <2>1, RequestFacts DEF Send
  <2> QED
    BY <1>0, <1>5, <2>1, <2>2, StreamSame DEF Send
<1>6. CASE RequestTimeout
  BY <1>0, <1>6, StreamSame DEF RequestTimeout
<1>7. CASE SendDone
  BY <1>0, <1>7, StreamSame DEF SendDone
<1>8. ASSUME NEW g \in filters, FilterStart(g) PROVE Looks'
  BY <1>0, <1>8, StreamSame DEF FilterStart, Pending
<1>9. ASSUME NEW w \in BOOLEAN, FilterDecide(w) PROVE Looks'
  BY <1>0, <1>9, StreamSame DEF FilterDecide
<1>10. CASE FilterPublish
  BY <1>0, <1>10, StreamSame DEF FilterPublish, Publish, Pending, ApplyStop
<1>11. CASE FilterContinue
  <2>1. CASE Pending(job.gen)
    <3>1. FilterSends /\ InboxGets("continue")
      BY <1>11, <2>1, FilterFacts
    <3> QED
      BY <1>0, <3>1, StreamSame DEF FilterSends, Pending
  <2>2. CASE ~Pending(job.gen)
    BY <1>0, <1>11, <2>2, StreamSame DEF FilterContinue, Pending
  <2> QED
    BY <2>1, <2>2
<1>12. CASE FilterDone
  BY <1>0, <1>12, StreamSame DEF FilterDone
<1>13. CASE Deliver
  <2>1. /\ ~done /\ stream # <<>> /\ stream' = Tail(stream) /\ Head(stream) \in Messages
        /\ UNCHANGED <<daemon, watching, done, inbox, owed, conn, prog, announces, boundVars>>
    BY <1>13, ReadAll DEF Deliver
  <2>2. ASSUME NEW f \in BOOLEAN, Head(stream).msg \in {"stopBreakpoint", "stopOther"},
               OnStopped(f)
        PROVE  Looks'
    BY <1>0, <2>1, <2>2, ReadStop DEF OnStopped, ApplyStop
  <2>3. CASE Head(stream).msg = "continued" /\ OnContinued
    BY <1>0, <2>1, <2>3, ReadContinued DEF OnContinued
  <2>4. CASE Head(stream).msg = "terminated" /\ OnTerminated
    BY <1>0, <2>1, <2>4, ReadTerminated DEF OnTerminated, End
  <2>5. CASE Head(stream).msg = "response" /\ OnResponse
    BY <1>0, <2>1, <2>5, ReadAnswer DEF OnResponse, Messages
  <2> QED
    BY <1>13, <2>2, <2>3, <2>4, <2>5 DEF Deliver, Dispatch
<1>14. CASE ReadEOF
  BY <1>0, <1>14, StreamSame DEF ReadEOF
<1>15. CASE ConfigureEnd
  BY <1>0, <1>15, StreamSame DEF ConfigureEnd
<1>16. CASE Terminate
  BY <1>0, <1>16, StreamSame DEF Terminate, StartShutdown
<1>17. CASE TerminateWaited
  BY <1>0, <1>17, StreamSame DEF TerminateWaited, StartShutdown
<1>18. CASE DaemonTerminate
  BY <1>0, <1>18, StreamSame DEF DaemonTerminate, StartShutdown
<1>19. CASE DaemonWaited
  BY <1>0, <1>19, StreamSame DEF DaemonWaited, StartShutdown
<1>20. CASE ShutdownDone
  BY <1>0, <1>20, StreamSame DEF ShutdownDone, StartShutdown
<1>21. CASE TerminateEnd
  BY <1>0, <1>21, StreamSame DEF TerminateEnd, End
<1>22. CASE DaemonEnd
  BY <1>0, <1>22, StreamSame DEF DaemonEnd, End
<1>23. CASE AdapterGone
  BY <1>0, <1>23, StreamSame DEF AdapterGone, End
<1>24. CASE ShutdownTimeout
  BY <1>0, <1>24, StreamSame DEF ShutdownTimeout
<1>25. CASE AdapterCloses
  BY <1>0, <1>25, StreamSame DEF AdapterCloses
<1>26. CASE AdapterTakes
  <2> DEFINE req == Head(inbox)
  <2>1. /\ conn /\ owed = NoAnswer /\ inbox # <<>> /\ InboxTaken
        /\ req = inbox[1] /\ req \in Requests
        /\ UNCHANGED <<sessionVars, threadVars, done, conn, announces, boundVars>>
    BY <1>26, TakeFacts DEF AdapterTakes, InboxTaken
  <2> HIDE DEF req
  <2>2. CASE /\ req.kind \in {"continue", "step"} /\ prog = "stopped" /\ prog' = "running"
             /\ announces /\ Emit(Event("continued")) /\ owed' = [id |-> req.id, ok |-> TRUE]
    <3>1. Event("continued") \in Messages
      BY DEF Event, Response, Messages, Msgs, Answers, TypeOK
    <3> QED
      BY <1>0, <2>1, <2>2, <3>1, GetsContinued DEF Requests, NoAnswer, Event, Response
  <2>3. CASE /\ req.kind \in {"continue", "step"} /\ prog = "stopped" /\ prog' = "running"
             /\ ~announces /\ UNCHANGED stream /\ owed' = [id |-> req.id, ok |-> TRUE]
    BY <1>0, <2>1, <2>3, StreamSame DEF Requests, NoAnswer
  <2>4. CASE /\ req.kind = "pause" /\ prog = "running" /\ prog' = "stopped"
             /\ Emit(Event("stopOther")) /\ owed' = [id |-> req.id, ok |-> TRUE]
    <3>1. Event("stopOther") \in Messages
      BY DEF Event, Response, Messages, Msgs, Answers, TypeOK
    <3> QED
      BY <1>0, <2>1, <2>4, <3>1, GetsStop DEF Requests, NoAnswer, Event, Response
  <2>5. CASE /\ req.kind = "pause" /\ prog = "stopped" /\ owed' = [id |-> req.id, ok |-> TRUE]
             /\ UNCHANGED <<prog, stream>>
    BY <1>0, <2>1, <2>5, StreamSame DEF Requests, NoAnswer
  <2>6. CASE owed' = [id |-> req.id, ok |-> FALSE] /\ UNCHANGED <<prog, stream>>
    BY <1>0, <2>1, <2>6, StreamSame DEF Requests, NoAnswer
  <2> QED
    BY <1>26, <2>2, <2>3, <2>4, <2>5, <2>6 DEF AdapterTakes, req
<1>27. CASE AdapterAnswers
  <2> Emit(Response(owed.id, owed.ok))
    BY <1>27 DEF AdapterAnswers
  <2>1. Response(owed.id, owed.ok) \in Messages
    BY DEF Event, Response, Messages, Msgs, Answers, TypeOK
  <2> QED
    BY <1>0, <1>27, <2>1, GetsAnswer DEF AdapterAnswers, NoAnswer, Event, Response
<1>28. CASE ProgramStops
  <2> PICK m \in {"stopBreakpoint", "stopOther"} : Emit(Event(m))
    BY <1>28 DEF ProgramStops
  <2>1. Event(m) \in Messages
    BY DEF Event, Response, Messages, Msgs, Answers, TypeOK
  <2> QED
    BY <1>0, <1>28, <2>1, GetsStop DEF ProgramStops, Event, Response
<1>29. CASE ProgramSurprises
  <2>1. CASE prog' = "running" /\ Emit(Event("continued"))
    <3>1. Event("continued") \in Messages
      BY DEF Event, Response, Messages, Msgs, Answers, TypeOK
    <3> QED
      BY <1>0, <1>29, <2>1, <3>1, GetsContinued DEF ProgramSurprises, Event, Response
  <2>2. ASSUME ThreadStops, NEW m \in {"stopBreakpoint", "stopOther"}, Emit(Event(m)),
               UNCHANGED prog
        PROVE  Looks'
    <3>1. Event(m) \in Messages
      BY DEF Event, Response, Messages, Msgs, Answers, TypeOK
    <3> QED
      BY <1>0, <1>29, <2>2, <3>1, GetsStop DEF ProgramSurprises, Event, Response
  <2> QED
    BY <1>29, <2>1, <2>2 DEF ProgramSurprises
<1>30. CASE ProgramExits
  <2> Emit(Event("terminated"))
    BY <1>30 DEF ProgramExits
  <2>1. Event("terminated") \in Messages
    BY DEF Event, Response, Messages, Msgs, Answers, TypeOK
  <2> QED
    BY <1>0, <1>30, <2>1, GetsTerminated DEF ProgramExits, Event, Response
<1>31. CASE UNCHANGED vars
  BY <1>0, <1>31, StreamSame DEF vars
<1> QED
  BY <1>1, <1>2, <1>3, <1>4, <1>5, <1>6, <1>7, <1>8, <1>9, <1>10, <1>11, <1>12, <1>13,
     <1>14, <1>15, <1>16, <1>17, <1>18, <1>19, <1>20, <1>21, <1>22, <1>23, <1>24, <1>25, <1>26,
     <1>27, <1>28, <1>29, <1>30, <1>31 DEF Next, Exec, Filter, Read, Ending, Adapter

\* The session follows the answers of an adapter that announces nothing.
LEMMA SilentKept ==
    ASSUME TypeOK, JobShape, Ends, InboxIds, OneRequest, Silent,
           timeouts \in Nat, surprises \in Nat, [Next]_vars
    PROVE  Silent'
<1>0. /\ job \in Jobs /\ stopGen \in Nat /\ stops \in Nat /\ filters \subseteq 1 .. stopGen
      /\ owed \in Answers /\ sent \in Nat
  BY DEF TypeOK
<1> USE DEF JobShape, Resumes, Jobs, Kinds, Idle, InboxIds, Ends, OneRequest, Awaits,
   RequestKind, Silent, Held, Granted, HeldNow, ShownNow, InboxTaken, NoAnswer, Answers,
   sessionVars, threadVars, adapterVars, boundVars
<1>1. CASE PauseThreads
  BY <1>0, <1>1, StreamSame, Replies DEF PauseThreads
<1>2. CASE PauseAdmit
  BY <1>0, <1>2, StreamSame, Replies DEF PauseAdmit
<1>3. CASE Abandon
  BY <1>0, <1>3, StreamSame, Replies DEF Abandon
<1>4. ASSUME NEW k \in Resumes \cup {"pause"}, Admit(k) PROVE Silent'
  BY <1>0, <1>4, StreamSame, Replies DEF Admit
<1>5. CASE Send
  <2>1. job.kind \in {"pause", "continue", "step"} /\ Request(job.kind)
    BY <1>5 DEF Send, JobShape, TypeOK, Jobs, Kinds, Resumes, Idle
  <2>2. InboxGets(job.kind) /\ UNCHANGED stream
    BY <1>5, <2>1, RequestFacts DEF Send
  <2> QED
    BY <1>0, <1>5, <2>1, <2>2, StreamSame, Replies DEF Send
<1>6. CASE RequestTimeout
  BY <1>0, <1>6, StreamSame, Replies DEF RequestTimeout
<1>7. CASE SendDone
  BY <1>0, <1>7, StreamSame, Replies DEF SendDone
<1>8. ASSUME NEW g \in filters, FilterStart(g) PROVE Silent'
  BY <1>0, <1>8, StreamSame, Replies DEF FilterStart, Pending
<1>9. ASSUME NEW w \in BOOLEAN, FilterDecide(w) PROVE Silent'
  BY <1>0, <1>9, StreamSame, Replies DEF FilterDecide
<1>10. CASE FilterPublish
  BY <1>0, <1>10, StreamSame, Replies DEF FilterPublish, Publish, Pending, ApplyStop
<1>11. CASE FilterContinue
  <2>1. CASE Pending(job.gen)
    <3>1. FilterSends /\ InboxGets("continue")
      BY <1>11, <2>1, FilterFacts
    <3> QED
      BY <1>0, <3>1, StreamSame, Replies DEF FilterSends, Pending
  <2>2. CASE ~Pending(job.gen)
    BY <1>0, <1>11, <2>2, StreamSame, Replies DEF FilterContinue, Pending
  <2> QED
    BY <2>1, <2>2
<1>12. CASE FilterDone
  BY <1>0, <1>12, StreamSame, Replies DEF FilterDone
<1>13. CASE Deliver
  <2>1. /\ ~done /\ stream # <<>> /\ stream' = Tail(stream) /\ Head(stream) \in Messages
        /\ UNCHANGED <<daemon, watching, done, inbox, owed, conn, prog, announces, boundVars>>
    BY <1>13, ReadAll DEF Deliver
  <2>2. ASSUME NEW f \in BOOLEAN, Head(stream).msg \in {"stopBreakpoint", "stopOther"},
               OnStopped(f)
        PROVE  Silent'
    BY <1>0, <2>1, <2>2, ReadStop DEF OnStopped, ApplyStop
  <2>3. CASE Head(stream).msg = "continued" /\ OnContinued
    BY <1>0, <2>1, <2>3, ReadContinued DEF OnContinued
  <2>4. CASE Head(stream).msg = "terminated" /\ OnTerminated
    BY <1>0, <2>1, <2>4, ReadTerminated DEF OnTerminated, End
  <2>5. CASE Head(stream).msg = "response" /\ OnResponse
    BY <1>0, <2>1, <2>5, ReadAnswer DEF OnResponse, Messages
  <2> QED
    BY <1>13, <2>2, <2>3, <2>4, <2>5 DEF Deliver, Dispatch
<1>14. CASE ReadEOF
  BY <1>0, <1>14, StreamSame, Replies DEF ReadEOF
<1>15. CASE ConfigureEnd
  BY <1>0, <1>15, StreamSame, Replies DEF ConfigureEnd
<1>16. CASE Terminate
  BY <1>0, <1>16, StreamSame, Replies DEF Terminate, StartShutdown
<1>17. CASE TerminateWaited
  BY <1>0, <1>17, StreamSame, Replies DEF TerminateWaited, StartShutdown
<1>18. CASE DaemonTerminate
  BY <1>0, <1>18, StreamSame, Replies DEF DaemonTerminate, StartShutdown
<1>19. CASE DaemonWaited
  BY <1>0, <1>19, StreamSame, Replies DEF DaemonWaited, StartShutdown
<1>20. CASE ShutdownDone
  BY <1>0, <1>20, StreamSame, Replies DEF ShutdownDone, StartShutdown
<1>21. CASE TerminateEnd
  BY <1>0, <1>21, StreamSame, Replies DEF TerminateEnd, End
<1>22. CASE DaemonEnd
  BY <1>0, <1>22, StreamSame, Replies DEF DaemonEnd, End
<1>23. CASE AdapterGone
  BY <1>0, <1>23, StreamSame, Replies DEF AdapterGone, End
<1>24. CASE ShutdownTimeout
  BY <1>0, <1>24, StreamSame, Replies DEF ShutdownTimeout
<1>25. CASE AdapterCloses
  BY <1>0, <1>25, StreamSame, Replies DEF AdapterCloses
<1>26. CASE AdapterTakes
  <2> DEFINE req == Head(inbox)
  <2>1. /\ conn /\ owed = NoAnswer /\ inbox # <<>> /\ InboxTaken
        /\ req = inbox[1] /\ req \in Requests
        /\ UNCHANGED <<sessionVars, threadVars, done, conn, announces, boundVars>>
    BY <1>26, TakeFacts DEF AdapterTakes, InboxTaken
  <2> HIDE DEF req
  <2>2. CASE /\ req.kind \in {"continue", "step"} /\ prog = "stopped" /\ prog' = "running"
             /\ announces /\ Emit(Event("continued")) /\ owed' = [id |-> req.id, ok |-> TRUE]
    <3>1. Event("continued") \in Messages
      BY DEF Event, Response, Messages, Msgs, Answers, TypeOK
    <3> QED
      BY <1>0, <2>1, <2>2, <3>1, GetsContinued DEF Requests, Event, Response
  <2>3. CASE /\ req.kind \in {"continue", "step"} /\ prog = "stopped" /\ prog' = "running"
             /\ ~announces /\ UNCHANGED stream /\ owed' = [id |-> req.id, ok |-> TRUE]
    BY <1>0, <2>1, <2>3, StreamSame, Replies DEF Requests
  <2>4. CASE /\ req.kind = "pause" /\ prog = "running" /\ prog' = "stopped"
             /\ Emit(Event("stopOther")) /\ owed' = [id |-> req.id, ok |-> TRUE]
    <3>1. Event("stopOther") \in Messages
      BY DEF Event, Response, Messages, Msgs, Answers, TypeOK
    <3> QED
      BY <1>0, <2>1, <2>4, <3>1, GetsStop DEF Requests, Event, Response
  <2>5. CASE /\ req.kind = "pause" /\ prog = "stopped" /\ owed' = [id |-> req.id, ok |-> TRUE]
             /\ UNCHANGED <<prog, stream>>
    BY <1>0, <2>1, <2>5, StreamSame, Replies DEF Requests
  <2>6. CASE owed' = [id |-> req.id, ok |-> FALSE] /\ UNCHANGED <<prog, stream>>
    BY <1>0, <2>1, <2>6, StreamSame, Replies DEF Requests
  <2> QED
    BY <1>26, <2>2, <2>3, <2>4, <2>5, <2>6 DEF AdapterTakes, req
<1>27. CASE AdapterAnswers
  <2> Emit(Response(owed.id, owed.ok))
    BY <1>27 DEF AdapterAnswers
  <2>1. Response(owed.id, owed.ok) \in Messages
    BY DEF Event, Response, Messages, Msgs, Answers, TypeOK
  <2> QED
    BY <1>0, <1>27, <2>1, GetsAnswer DEF AdapterAnswers, Event, Response
<1>28. CASE ProgramStops
  <2> PICK m \in {"stopBreakpoint", "stopOther"} : Emit(Event(m))
    BY <1>28 DEF ProgramStops
  <2>1. Event(m) \in Messages
    BY DEF Event, Response, Messages, Msgs, Answers, TypeOK
  <2> QED
    BY <1>0, <1>28, <2>1, GetsStop DEF ProgramStops, Event, Response
<1>29. CASE ProgramSurprises
  <2>1. CASE prog' = "running" /\ Emit(Event("continued"))
    <3>1. Event("continued") \in Messages
      BY DEF Event, Response, Messages, Msgs, Answers, TypeOK
    <3> QED
      BY <1>0, <1>29, <2>1, <3>1, GetsContinued DEF ProgramSurprises, Event, Response
  <2>2. ASSUME ThreadStops, NEW m \in {"stopBreakpoint", "stopOther"}, Emit(Event(m)),
               UNCHANGED prog
        PROVE  Silent'
    <3>1. Event(m) \in Messages
      BY DEF Event, Response, Messages, Msgs, Answers, TypeOK
    <3> QED
      BY <1>0, <1>29, <2>2, <3>1, GetsStop DEF ProgramSurprises, Event, Response
  <2> QED
    BY <1>29, <2>1, <2>2 DEF ProgramSurprises
<1>30. CASE ProgramExits
  <2> Emit(Event("terminated"))
    BY <1>30 DEF ProgramExits
  <2>1. Event("terminated") \in Messages
    BY DEF Event, Response, Messages, Msgs, Answers, TypeOK
  <2> QED
    BY <1>0, <1>30, <2>1, GetsTerminated DEF ProgramExits, Event, Response
<1>31. CASE UNCHANGED vars
  BY <1>0, <1>31, StreamSame, Replies DEF vars
<1> QED
  BY <1>1, <1>2, <1>3, <1>4, <1>5, <1>6, <1>7, <1>8, <1>9, <1>10, <1>11, <1>12, <1>13,
     <1>14, <1>15, <1>16, <1>17, <1>18, <1>19, <1>20, <1>21, <1>22, <1>23, <1>24, <1>25, <1>26,
     <1>27, <1>28, <1>29, <1>30, <1>31 DEF Next, Exec, Filter, Read, Ending, Adapter

\* Only resumes nobody asked for are logged.
LEMMA EchoesKept ==
    ASSUME TypeOK, JobShape, Ends, OneRequest, Echoes, timeouts \in Nat,
           surprises \in Nat, news \in Nat, [Next]_vars
    PROVE  Echoes'
<1>0. /\ job \in Jobs /\ stopGen \in Nat /\ stops \in Nat /\ filters \subseteq 1 .. stopGen
      /\ owed \in Answers /\ sent \in Nat /\ Cardinality(ContsAt) \in Nat
  BY ContsFinite DEF TypeOK
<1> USE DEF JobShape, Resumes, Jobs, Kinds, Idle, Ends, OneRequest, Awaits, Echoes,
   NoAnswer, Answers, sessionVars, threadVars, adapterVars, boundVars
<1>1. CASE PauseThreads \/ PauseAdmit \/ Abandon
  BY <1>0, <1>1, StreamSame, Replies, NothingSent DEF PauseThreads, PauseAdmit, Abandon
<1>2. ASSUME NEW k \in Resumes \cup {"pause"}, Admit(k) PROVE Echoes'
  BY <1>0, <1>2, StreamSame, Replies, NothingSent DEF Admit
<1>3. CASE Send
  <2>1. job.kind \in {"pause", "continue", "step"} /\ Request(job.kind)
    BY <1>3 DEF Send, JobShape, TypeOK, Jobs, Kinds, Resumes, Idle
  <2>2. InboxGets(job.kind) /\ UNCHANGED stream
    BY <1>3, <2>1, RequestFacts DEF Send
  <2> QED
    BY <1>0, <1>3, <2>1, <2>2, StreamSame, Replies, NothingSent DEF Send
<1>4. CASE RequestTimeout
  BY <1>0, <1>4, StreamSame, Replies, NothingSent DEF RequestTimeout
<1>5. CASE SendDone
  BY <1>0, <1>5, StreamSame, Replies, NothingSent DEF SendDone
<1>6. ASSUME NEW g \in filters, FilterStart(g) PROVE Echoes'
  BY <1>0, <1>6, StreamSame, Replies, NothingSent DEF FilterStart, Pending
<1>7. ASSUME NEW w \in BOOLEAN, FilterDecide(w) PROVE Echoes'
  BY <1>0, <1>7, StreamSame, Replies, NothingSent DEF FilterDecide
<1>8. CASE FilterPublish
  BY <1>0, <1>8, StreamSame, Replies, NothingSent DEF FilterPublish, Publish, Pending,
     ApplyStop
<1>9. CASE FilterContinue
  <2>1. CASE Pending(job.gen)
    <3>1. FilterSends /\ InboxGets("continue")
      BY <1>9, <2>1, FilterFacts
    <3> QED
      BY <1>0, <3>1, StreamSame, Replies, NothingSent DEF FilterSends, Pending
  <2>2. CASE ~Pending(job.gen)
    BY <1>0, <1>9, <2>2, StreamSame, Replies, NothingSent DEF FilterContinue, Pending
  <2> QED
    BY <2>1, <2>2
<1>10. CASE FilterDone
  BY <1>0, <1>10, StreamSame, Replies, NothingSent DEF FilterDone
<1>11. CASE Deliver
  <2>1. /\ ~done /\ stream # <<>> /\ stream' = Tail(stream) /\ Head(stream) \in Messages
        /\ UNCHANGED <<daemon, watching, done, inbox, owed, conn, prog, announces, boundVars>>
    BY <1>11, ReadAll DEF Deliver
  <2>2. ASSUME NEW f \in BOOLEAN, Head(stream).msg \in {"stopBreakpoint", "stopOther"},
               OnStopped(f)
        PROVE  Echoes'
    BY <1>0, <2>1, <2>2, ReadStop, CountRead DEF OnStopped, ApplyStop
  <2>3. CASE Head(stream).msg = "continued" /\ OnContinued
    BY <1>0, <2>1, <2>3, ReadContinued, CountRead DEF OnContinued
  <2>4. CASE Head(stream).msg = "terminated" /\ OnTerminated
    BY <1>0, <2>1, <2>4, ReadTerminated, CountRead DEF OnTerminated, End
  <2>5. CASE Head(stream).msg = "response" /\ OnResponse
    BY <1>0, <2>1, <2>5, ReadAnswer, CountRead DEF OnResponse, Messages
  <2> QED
    BY <1>11, <2>2, <2>3, <2>4, <2>5 DEF Deliver, Dispatch
<1>12. CASE ReadEOF
  BY <1>0, <1>12, StreamSame, Replies, NothingSent DEF ReadEOF
<1>13. CASE ConfigureEnd
  BY <1>0, <1>13, StreamSame, Replies, NothingSent DEF ConfigureEnd
<1>14. CASE Terminate \/ TerminateWaited \/ DaemonTerminate \/ DaemonWaited \/ ShutdownDone
  BY <1>0, <1>14, StreamSame, Replies, NothingSent DEF Terminate, TerminateWaited,
     DaemonTerminate, DaemonWaited, ShutdownDone, StartShutdown
<1>15. CASE TerminateEnd \/ DaemonEnd \/ AdapterGone
  BY <1>0, <1>15, StreamSame, Replies, NothingSent DEF TerminateEnd, DaemonEnd, AdapterGone,
     End
<1>16. CASE ShutdownTimeout \/ AdapterCloses
  BY <1>0, <1>16, StreamSame, Replies, NothingSent DEF ShutdownTimeout, AdapterCloses
<1>17. CASE AdapterTakes
  <2> DEFINE req == Head(inbox)
  <2>1. /\ conn /\ owed = NoAnswer /\ inbox # <<>> /\ InboxTaken
        /\ req = inbox[1] /\ req \in Requests
        /\ UNCHANGED <<sessionVars, threadVars, done, conn, announces, boundVars>>
    BY <1>17, TakeFacts DEF AdapterTakes, InboxTaken
  <2> HIDE DEF req
  <2>2. CASE /\ req.kind \in {"continue", "step"} /\ prog = "stopped" /\ prog' = "running"
             /\ announces /\ Emit(Event("continued")) /\ owed' = [id |-> req.id, ok |-> TRUE]
    <3>1. Event("continued") \in Messages
      BY DEF Event, Response, Messages, Msgs, Answers, TypeOK
    <3> QED
      BY <1>0, <2>1, <2>2, <3>1, GetsContinued, CountEmit, Replies DEF Requests, Event,
         Response
  <2>3. CASE /\ req.kind \in {"continue", "step"} /\ prog = "stopped" /\ prog' = "running"
             /\ ~announces /\ UNCHANGED stream /\ owed' = [id |-> req.id, ok |-> TRUE]
    BY <1>0, <2>1, <2>3, StreamSame, Replies, NothingSent DEF Requests
  <2>4. CASE /\ req.kind = "pause" /\ prog = "running" /\ prog' = "stopped"
             /\ Emit(Event("stopOther")) /\ owed' = [id |-> req.id, ok |-> TRUE]
    <3>1. Event("stopOther") \in Messages
      BY DEF Event, Response, Messages, Msgs, Answers, TypeOK
    <3> QED
      BY <1>0, <2>1, <2>4, <3>1, GetsStop, CountEmit, Replies DEF Requests, Event, Response
  <2>5. CASE /\ req.kind = "pause" /\ prog = "stopped" /\ owed' = [id |-> req.id, ok |-> TRUE]
             /\ UNCHANGED <<prog, stream>>
    BY <1>0, <2>1, <2>5, StreamSame, Replies, NothingSent DEF Requests
  <2>6. CASE owed' = [id |-> req.id, ok |-> FALSE] /\ UNCHANGED <<prog, stream>>
    BY <1>0, <2>1, <2>6, StreamSame, Replies, NothingSent DEF Requests
  <2> QED
    BY <1>17, <2>2, <2>3, <2>4, <2>5, <2>6 DEF AdapterTakes, req
<1>18. CASE AdapterAnswers
  <2> Emit(Response(owed.id, owed.ok))
    BY <1>18 DEF AdapterAnswers
  <2>1. Response(owed.id, owed.ok) \in Messages
    BY DEF Event, Response, Messages, Msgs, Answers, TypeOK
  <2> QED
    BY <1>0, <1>18, <2>1, GetsAnswer, CountEmit, Replies DEF AdapterAnswers, Event, Response
<1>19. CASE ProgramStops
  <2> PICK m \in {"stopBreakpoint", "stopOther"} : Emit(Event(m))
    BY <1>19 DEF ProgramStops
  <2>1. Event(m) \in Messages
    BY DEF Event, Response, Messages, Msgs, Answers, TypeOK
  <2> QED
    BY <1>0, <1>19, <2>1, GetsStop, CountEmit, Replies DEF ProgramStops, Event, Response
<1>20. CASE ProgramSurprises
  <2>1. CASE prog' = "running" /\ Emit(Event("continued"))
    <3>1. Event("continued") \in Messages
      BY DEF Event, Response, Messages, Msgs, Answers, TypeOK
    <3> QED
      BY <1>0, <1>20, <2>1, <3>1, GetsContinued, CountEmit, Replies DEF ProgramSurprises,
         Event, Response
  <2>2. ASSUME ThreadStops, NEW m \in {"stopBreakpoint", "stopOther"}, Emit(Event(m)),
               UNCHANGED prog
        PROVE  Echoes'
    <3>1. Event(m) \in Messages
      BY DEF Event, Response, Messages, Msgs, Answers, TypeOK
    <3> QED
      BY <1>0, <1>20, <2>2, <3>1, GetsStop, CountEmit, Replies DEF ProgramSurprises, Event,
         Response
  <2> QED
    BY <1>20, <2>1, <2>2 DEF ProgramSurprises
<1>21. CASE ProgramExits
  <2> Emit(Event("terminated"))
    BY <1>21 DEF ProgramExits
  <2>1. Event("terminated") \in Messages
    BY DEF Event, Response, Messages, Msgs, Answers, TypeOK
  <2> QED
    BY <1>0, <1>21, <2>1, GetsTerminated, CountEmit, Replies DEF ProgramExits, Event,
       Response
<1>22. CASE UNCHANGED vars
  BY <1>0, <1>22, StreamSame, Replies, NothingSent DEF vars
<1> QED
  BY <1>1, <1>2, <1>3, <1>4, <1>5, <1>6, <1>7, <1>8, <1>9, <1>10, <1>11, <1>12, <1>13,
     <1>14, <1>15, <1>16, <1>17, <1>18, <1>19, <1>20, <1>21, <1>22 DEF Next, Exec, Filter,
     Read, Ending, Adapter

----------------------------------------------------------------------------
(***************************************************************************)
(* The inductive invariant.                                                *)
(***************************************************************************)
ExecInv ==
    /\ TypeOK /\ JobShape /\ Ends /\ InboxIds /\ AnswerIds /\ OneRequest
    /\ Announced /\ Follows /\ Looks /\ Silent /\ Echoes

\* The parts of the type invariant are all of it.
LEMMA TypeParts ==
    TypeOK <=> Flags /\ Phases /\ Counts /\ Gens /\ job \in Jobs /\ Queues
BY DEF TypeOK, Flags, Phases, Counts, Gens, Queues

\* The type invariant is kept.
LEMMA TypeKept ==
    ASSUME TypeOK, JobShape, [Next]_vars
    PROVE  TypeOK'
<1>1. Flags /\ Phases /\ Counts /\ Gens /\ job \in Jobs /\ Queues
  BY TypeParts
<1>2. stops \in Nat /\ sent \in Nat /\ conn \in BOOLEAN
  BY DEF TypeOK
<1>3. Flags' /\ Phases'
  BY <1>1, FlagsKept, PhasesKept
<1>4. Counts' /\ Gens'
  BY <1>1, CountsKept, GensKept
<1>5. (job \in Jobs)' /\ Queues'
  BY <1>1, <1>2, JobKept, QueuesKept
<1> QED
  BY <1>3, <1>4, <1>5, TypeParts, PTL

\* A session begins with nothing on its way and a running program.
LEMMA InitInv ==
    ASSUME Init
    PROVE  ExecInv
<1>1. TypeOK
  <2>1. announces \in BOOLEAN
    BY BoundsAssumption DEF Init
  <2>2. inbox \in Seq(Requests) /\ stream \in Seq(Messages)
    BY DEF Init
  <2>3. job \in Jobs /\ owed \in Answers
    BY DEF Init, Jobs, Kinds, Pcs, Idle, Answers, NoAnswer
  <2> QED
    BY <2>1, <2>2, <2>3 DEF Init, TypeOK, States
<1>2. stream = <<>>
  BY DEF Init
<1>3. /\ NoStop /\ NoCont /\ NoReply /\ ~HasTerm
      /\ StopsAt = {} /\ ContsAt = {} /\ YesAt = {} /\ RepliesTo(0)
      /\ \A n : ~EarlyYes(n)
  <2>1. \A M : Where(stream, M) = {}
    BY <1>2 DEF Where
  <2> QED
    BY <1>2, <2>1, NothingSent
       DEF StopsAt, ContsAt, YesAt, RepliesTo, Beyond, EarlyYes, YesTo, First
<1>4. JobShape /\ Ends /\ InboxIds /\ AnswerIds /\ OneRequest
  BY <1>1, <1>3 DEF Init, JobShape, Ends, InboxIds, AnswerIds, OneRequest, Idle, NoAnswer,
     Awaits, Resumes
<1>5. Announced /\ Follows /\ Looks
  BY <1>3 DEF Init, Announced, Follows, Looks, Held, Shown, Moved, Awaits, Idle, Resuming,
     Resumes, Alternating, Apart, NextStop, First
<1>6. Silent
  BY <1>3 DEF Init, Silent, Held, HeldNow, ShownNow, Granted, Yes, Alternating, Apart, Idle,
     Resumes, NoAnswer
<1>7. Echoes
  <2>1. Cardinality(ContsAt) = 0
    BY <1>3, FS_EmptySet
  <2> QED
    BY <2>1 DEF Init, Echoes
<1> QED
  BY <1>1, <1>4, <1>5, <1>6, <1>7 DEF ExecInv

\* Every step keeps the invariant.
LEMMA StepInv ==
    ASSUME ExecInv, [Next]_vars
    PROVE  ExecInv'
<1>1. /\ TypeOK /\ JobShape /\ Ends /\ InboxIds /\ AnswerIds /\ OneRequest
      /\ Announced /\ Follows /\ Looks /\ Silent /\ Echoes
  BY DEF ExecInv
<1>2. timeouts \in Nat /\ surprises \in Nat /\ news \in Nat
  BY <1>1 DEF TypeOK
<1>3. TypeOK' /\ JobShape' /\ Ends'
  BY <1>1, TypeKept, JobShapeKept, EndsKept
<1>4. InboxIds' /\ AnswerIds' /\ OneRequest'
  BY <1>1, <1>2, InboxIdsKept, AnswerIdsKept, OneRequestKept
<1>5. Announced' /\ Follows' /\ Looks'
  BY <1>1, AnnouncedKept, FollowsKept, LooksKept
<1>6. Silent' /\ Echoes'
  BY <1>1, <1>2, SilentKept, EchoesKept
<1> QED
  BY <1>3, <1>4, <1>5, <1>6 DEF ExecInv

\* What the session, the filter and the adapter's stream say together is the
\* program's state, at every moment of every session.
THEOREM StreamTruth == Spec => []ExecInv
<1>1. Init => ExecInv
  BY InitInv
<1>2. ExecInv /\ [Next]_vars => ExecInv'
  BY StepInv
<1> QED
  BY <1>1, <1>2, PTL DEF Spec

\* When all is quiet the session shows the program's state, and it logs only
\* the resumes the adapter made by itself (StateAgrees: send's second section,
\* onContinuedLocked, publish, execInFlight): with every adapter, also one
\* whose threads report their stops one by one.
THEOREM StatesAgree == Spec => []StateAgrees
<1>1. ASSUME ExecInv, Quiet, Plain PROVE state = prog
  <2>1. NoStop /\ NoCont /\ NoReply /\ ~HasTerm /\ ~LatestStop /\ ~LatestCont
    BY <1>1, NothingSent DEF Quiet
  <2>2. ~Held /\ ~HeldNow /\ prog # "exited" /\ ~done /\ state \in {"running", "stopped"}
    BY <1>1, <2>1 DEF ExecInv, TypeOK, States, Ends, Quiet, Held, HeldNow, Idle
  <2>3. prog \in {"running", "stopped"}
    BY <1>1, <2>2 DEF ExecInv, TypeOK
  <2>4. CASE announces
    BY <1>1, <2>1, <2>2, <2>3, <2>4 DEF ExecInv, Follows, Shown, Quiet
  <2>5. CASE ~announces
    <3>1. ShownNow <=> state = "stopped"
      BY <1>1 DEF Quiet, ShownNow, Idle, Resumes
    <3> QED
      BY <1>1, <2>1, <2>2, <2>3, <2>5, <3>1 DEF ExecInv, Silent, Quiet, Plain
  <2> QED
    BY <2>4, <2>5
<1>2. ASSUME ExecInv, timeouts = 0 PROVE news <= surprises
  <2>1. /\ Cardinality(ContsAt) \in Nat /\ news \in Nat /\ surprises \in Nat
        /\ NoCont <=> Cardinality(ContsAt) = 0
    BY <1>2, ContsFinite, FS_EmptySet DEF ExecInv, TypeOK, NoCont
  <2>2. LateYes => ~NoCont
    BY DEF LateYes, After, NoCont
  <2> QED
    BY <1>2, <2>1, <2>2 DEF ExecInv, Echoes
<1>3. ExecInv => StateAgrees
  BY <1>1, <1>2 DEF StateAgrees
<1> QED
  BY <1>3, StreamTruth, PTL

\* Clients see the program as it is: its state when all is quiet, and never a
\* stop that the filter may still undo (filterStop, pendingLocked).  For
\* adapters that report one stop for all threads, as the model checker's run:
\* a second thread's stop read while the filter holds the first one breaks
\* the second half.
THEOREM ProgramShown ==
    ASSUME ~ThreadStops
    PROVE  Spec => []ShowsProgram
<1>1. ASSUME ExecInv PROVE FilterLooksRunning
  <2> SUFFICES ASSUME job.kind = "filter", Pending(job.gen), Plain, ~done
               PROVE  state # "stopped"
    BY DEF FilterLooksRunning
  <2>1. Held
    BY DEF Held, Pending
  <2>2. CASE announces
    BY <1>1, <2>1, <2>2 DEF ExecInv, Looks, Shown
  <2>3. CASE ~announces
    <3>1. ShownNow <=> state = "stopped"
      BY DEF ShownNow, Resumes
    <3> QED
      BY <1>1, <2>1, <2>3, <3>1 DEF ExecInv, Silent, Plain
  <2> QED
    BY <2>2, <2>3
<1>2. ExecInv /\ StateAgrees => ShowsProgram
  BY <1>1 DEF ShowsProgram
<1> QED
  BY <1>2, StreamTruth, StatesAgree, PTL
=============================================================================
