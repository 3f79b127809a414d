-------------------------- MODULE BreakpointsProofs -------------------------
(***************************************************************************)
(* The breakpoints of a file (internal/session/breakpoints.go, replace.go, *)
(* slots.go): the adapter ends up with the current list, there is never    *)
(* more than one temporary breakpoint, and cleaning up temporary ones      *)
(* takes nothing else, for any clients, requests, lines and failures; what *)
(* is shown as verified is resolved, and the program is seen to stop       *)
(* exactly where a breakpoint wants it.                                    *)
(*                                                                         *)
(* The argument: every change of the list leaves a thread that is to sync. *)
(* A sync that has taken its snapshot holds syncMu until the answer, so    *)
(* the list sent last was taken last, and the adapter takes lists in the   *)
(* order they were sent; who gives up waiting changes nothing in that.     *)
(* An execution holds execMu from its removal of temporary breakpoints to  *)
(* the sending of its request, and only then places its own.               *)
(***************************************************************************)
EXTENDS Breakpoints, TLAPS, FiniteSetTheorems, WellFoundedInduction

Thens == {"done", "place", "execute", "abort"}
Calls == [kind : {"none", "configure", "add", "replace", "remove", "leave", "execute"},
          pc : Pcs, then : Thens, client : Clients \cup {None}, line : Lines \cup {0}, cond : Conds,
          slots : SUBSET Breakpoint, lines : SUBSET Lines, id : Nat,
          answer : {"none", "ok", "err"}, temp : Nat]

\* The lists the adapter may be sent.
SlotLists == UNION {[L -> Conds] : L \in SUBSET Lines}
Messages == [msg : {"response", "breakpoint"}, id : Nat, ok : BOOLEAN, lines : SUBSET Lines]

BpTypeOK ==
    /\ bps \subseteq Breakpoint /\ nextBP \in Nat
    /\ initialized \in BOOLEAN
    /\ calls \in [Threads -> Calls]
    /\ seq \in Nat /\ refusals \in Nat
    /\ inbox \in Seq([id : Nat, list : SlotLists])
    /\ list \in SlotLists /\ resolved \subseteq Lines
    /\ stream \in Seq(Messages)

\* A thread that is to place, send or give up an execution.
Executing(t) ==
    \/ calls[t].pc \in {"place", "execute", "unplace", "abort"}
    \/ calls[t].pc \in {"sync", "send", "wait"} /\ calls[t].then \in {"place", "execute", "abort"}

\* A thread that has removed the temporary breakpoints and not placed its own.
ToPlace(t) ==
    calls[t].pc = "place" \/ (calls[t].pc \in {"sync", "send", "wait"} /\ calls[t].then = "place")

\* Who holds the locks, and what the adapter has before it is initialized.
LocksHeld ==
    /\ \A t \in Threads : calls[t].pc \in {"send", "wait"} => syncMu = t
    /\ \A t \in Threads : Executing(t) => execMu = t
    /\ \A t \in Threads : calls[t].pc = "remove" => calls[t].kind = "remove"
    /\ ~initialized => /\ calls[Configure] = Idle /\ inbox = <<>> /\ list = <<>>
                       /\ \A t \in Threads : calls[t].pc \notin {"send", "wait"}

\* One temporary breakpoint, and none while an execution is to place one; that
\* one has an owner and a line.
Temporaries ==
    /\ \A b, d \in bps : b.temp /\ d.temp => b = d
    /\ \A t \in Threads : ToPlace(t) => \A b \in bps : ~b.temp
    /\ \A t \in Threads : ToPlace(t) => calls[t].client \in Clients /\ calls[t].line \in Lines

\* A step leaves nobody to place but who was to, with the same target.
TargetsKept ==
    \A t \in Threads :
        ToPlace(t)' => ToPlace(t) /\ calls'[t].client = calls[t].client /\ calls'[t].line = calls[t].line

\* The list sent last, or about to be, is l.
NoneSending == \A t \in Threads : calls[t].pc # "send"
SentLast(l) ==
    \/ \E t \in Threads : calls[t].pc = "send" /\ SlotsFor(calls[t].slots) = l
    \/ NoneSending /\ inbox # <<>> /\ inbox[Len(inbox)].list = l
    \/ NoneSending /\ inbox = <<>> /\ list = l

\* That is the newest list, unless a thread is to send it; until configure
\* begins nothing may have been sent.
NewestSent ==
    refusals = 0 =>
        \/ \E t \in Threads : calls[t].pc = "sync"
        \/ SentLast(SlotsFor(bps))
        \/ calls[Configure] = Idle /\ NoneSending /\ inbox = <<>> /\ list = <<>>

BpInv == BpTypeOK /\ LocksHeld /\ Temporaries /\ NewestSent

----------------------------------------------------------------------------
(***************************************************************************)
(* Operators.                                                              *)
(***************************************************************************)

\* A call's fields.
LEMMA CallFields ==
    ASSUME NEW c \in Calls
    PROVE  /\ c.kind \in {"none", "configure", "add", "replace", "remove", "leave", "execute"}
           /\ c.pc \in Pcs /\ c.then \in Thens /\ c.client \in Clients \cup {None}
           /\ c.line \in Lines \cup {0} /\ c.cond \in Conds /\ c.slots \subseteq Breakpoint
           /\ c.lines \subseteq Lines /\ c.id \in Nat /\ c.answer \in {"none", "ok", "err"}
           /\ c.temp \in Nat
BY DEF Calls

\* A request begins as the idle call with a kind and a client.
LEMMA BeginCall ==
    ASSUME NEW t, NEW k \in {"none", "configure", "add", "replace", "remove", "leave", "execute"},
           NEW c \in Clients \cup {None}
    PROVE  /\ Begin(t, k, c) \in Calls /\ Idle \in Calls
           /\ Begin(t, k, c).kind = k /\ Begin(t, k, c).client = c /\ Begin(t, k, c).pc = "idle"
           /\ Idle.pc = "idle" /\ Idle.kind = "none"
BY BreakpointsAssumption DEF Begin, Idle, Calls, Pcs, Thens

\* GoTo keeps who asked for what, and ends or goes on.
LEMMA GoToCall ==
    ASSUME NEW c \in Calls, NEW p \in Pcs
    PROVE  /\ GoTo(c, p) \in Calls /\ GoTo(c, p).pc = p
           /\ GoTo(c, p).kind = c.kind /\ GoTo(c, p).client = c.client
           /\ p # "done" => GoTo(c, p).line = c.line
           /\ Ended(c) \in Calls /\ Ended(c).pc = "done"
           /\ Ended(c).kind = c.kind /\ Ended(c).client = c.client
<1>1. Ended(c) \in Calls /\ Ended(c).pc = "done" /\ Ended(c).kind = c.kind /\ Ended(c).client = c.client
  BY BreakpointsAssumption DEF Ended, Idle, Calls, Pcs, Thens
<1>2. CASE p = "done"
  BY <1>1, <1>2 DEF GoTo
<1>3. CASE p # "done"
  BY <1>1, <1>3 DEF GoTo, Calls
<1> QED
  BY <1>2, <1>3

\* Syncing changes where the call is and what follows.
LEMMA SyncingCall ==
    ASSUME NEW c \in Calls, NEW p \in Thens
    PROVE  /\ Syncing(c, p) \in Calls /\ Syncing(c, p).pc = "sync" /\ Syncing(c, p).then = p
           /\ Syncing(c, p).kind = c.kind /\ Syncing(c, p).client = c.client
BY DEF Syncing, Calls, Pcs

\* What a thread's step leaves of the others' calls.
LEMMA SetCall ==
    ASSUME calls \in [Threads -> Calls], NEW t \in Threads, NEW call \in Calls, Set(t, call)
    PROVE  /\ calls' \in [Threads -> Calls] /\ calls'[t] = call
           /\ \A u \in Threads : u # t => calls'[u] = calls[u]
BY DEF Set

\* Older is one of the set: ids are numbers.
LEMMA OlderIn ==
    ASSUME NEW S \in SUBSET Breakpoint, S # {}
    PROVE  Older(S) \in S
<1> DEFINE Ids == {b.id : b \in S}
<1>1. Ids \subseteq Nat /\ Ids # {}
  BY DEF Breakpoint
<1>2. PICK i \in Ids : \A j \in Ids : <<j, i>> \notin OpToRel(<, Nat)
  BY <1>1, NatLessThanWellFounded, WFMin
<1>3. ASSUME NEW j \in Ids
      PROVE  i <= j
  <2>1. i \in Nat /\ j \in Nat
    BY <1>1
  <2>2. j < i => <<j, i>> \in {ss \in Nat \X Nat : ss[1] < ss[2]}
    BY <2>1
  <2>3. ~(j < i)
    BY <1>2, <2>2 DEF OpToRel
  <2> QED
    BY <2>1, <2>3
<1>4. PICK b \in S : b.id = i
  BY <1>2
<1>5. \A d \in S : b.id <= d.id
  BY <1>3, <1>4
<1> QED
  BY <1>4, <1>5 DEF Older

\* slotsFor: the condition of a slot is one that all its breakpoints have, or
\* none; and it is theirs if they have the same.
LEMMA SlotConditions ==
    ASSUME NEW at, NEW b \in at
    PROVE  /\ SlotCondition(at) = "" \/ \A d \in at : d.cond = SlotCondition(at)
           /\ (\A d \in at : d.cond = b.cond) => SlotCondition(at) = b.cond
<1>1. (CHOOSE d \in at : TRUE) \in at
  OBVIOUS
<1> DEFINE e == CHOOSE d \in at : TRUE
<1>2. SlotCondition(at) = IF \A d, f \in at : d.cond = f.cond THEN e.cond ELSE ""
  BY DEF SlotCondition
<1>3. e \in at
  BY <1>1
<1> HIDE DEF e
<1> QED
  BY <1>2, <1>3

\* A list for the adapter is a function from lines to conditions.
LEMMA SlotsForType ==
    ASSUME NEW S \in SUBSET Breakpoint
    PROVE  SlotsFor(S) \in SlotLists
<1>1. {b.req : b \in S} \subseteq Lines
  BY DEF Breakpoint
<1>2. ASSUME NEW l \in {b.req : b \in S}
      PROVE  SlotCondition({b \in S : b.req = l}) \in Conds
  <2> DEFINE at == {b \in S : b.req = l}
  <2>1. PICK b \in at : TRUE
    BY <1>2
  <2>2. (CHOOSE d \in at : TRUE) \in at
    BY <2>1
  <2>3. (CHOOSE d \in at : TRUE).cond \in Conds
    BY <2>2 DEF Breakpoint
  <2> HIDE DEF at
  <2>4. SlotCondition(at) \in Conds
    BY <2>3, BreakpointsAssumption DEF SlotCondition
  <2> QED
    BY <2>4 DEF at
<1>3. SlotsFor(S) \in [{b.req : b \in S} -> Conds]
  BY <1>2 DEF SlotsFor
<1> QED
  BY <1>1, <1>3 DEF SlotLists

\* No breakpoint, no slot.
LEMMA SlotsForNone ==
    SlotsFor({}) = <<>> /\ <<>> \in SlotLists
<1>1. {b.req : b \in {}} = {}
  OBVIOUS
<1>2. SlotsFor({}) = [l \in {} |-> SlotCondition({b \in {} : b.req = l})]
  BY <1>1 DEF SlotsFor
<1>3. SlotsFor({}) = <<>>
  BY <1>2
<1> QED
  BY <1>3, SlotsForType

\* A change of the breakpoints that keeps lines requested, conditions, ids and
\* marks: the list for the adapter is the same, and so are the temporary ones.
LEMMA Remapped ==
    ASSUME NEW S \in SUBSET Breakpoint, NEW g \in [S -> Breakpoint],
           \A b \in S : /\ g[b].req = b.req /\ g[b].cond = b.cond
                        /\ g[b].temp = b.temp /\ g[b].id = b.id,
           NEW T, T = {g[b] : b \in S}
    PROVE  /\ T \subseteq Breakpoint /\ SlotsFor(T) = SlotsFor(S) /\ IdsOf(T) = IdsOf(S)
           /\ (\A b, d \in S : b.temp /\ d.temp => b = d) => (\A b, d \in T : b.temp /\ d.temp => b = d)
           /\ (\A b \in S : ~b.temp) => (\A b \in T : ~b.temp)
<1>1. {b.req : b \in T} = {b.req : b \in S}
  OBVIOUS
<1>2. ASSUME NEW l \in {b.req : b \in S}
      PROVE  SlotCondition({b \in T : b.req = l}) = SlotCondition({b \in S : b.req = l})
  <2> DEFINE atT == {b \in T : b.req = l}
             atS == {b \in S : b.req = l}
  <2>1. PICK b \in atS : TRUE
    BY <1>2
  <2>2. \A d \in atS : g[d] \in atT /\ g[d].cond = d.cond
    OBVIOUS
  <2>3. \A d \in atT : \E f \in atS : d = g[f] /\ d.cond = f.cond
    OBVIOUS
  <2>4. CASE \A d \in atS : d.cond = b.cond
    <3>1. \A d \in atT : d.cond = g[b].cond
      BY <2>1, <2>2, <2>3, <2>4
    <3>2. SlotCondition(atT) = g[b].cond /\ SlotCondition(atS) = b.cond
      <4>1. SlotCondition(atS) = b.cond
        BY <2>1, <2>4, SlotConditions
      <4>2. g[b] \in atT
        BY <2>1, <2>2
      <4> QED
        BY <3>1, <4>1, <4>2, SlotConditions
    <3> QED
      BY <2>1, <2>2, <3>2
  <2>5. CASE \E d \in atS : d.cond # b.cond
    <3>1. PICK d \in atS : d.cond # b.cond
      BY <2>5
    <3>2. g[d] \in atT /\ g[b] \in atT /\ g[d].cond # g[b].cond
      BY <2>1, <2>2, <3>1
    <3> HIDE DEF atT, atS
    <3>3. SlotCondition(atT) = ""
      BY <3>2 DEF SlotCondition
    <3>4. SlotCondition(atS) = ""
      BY <2>1, <3>1 DEF SlotCondition
    <3> QED
      BY <3>3, <3>4 DEF atT, atS
  <2> QED
    BY <2>4, <2>5
<1>3. SlotsFor(T) = SlotsFor(S)
  BY <1>1, <1>2 DEF SlotsFor
<1>4. IdsOf(T) = IdsOf(S)
  BY DEF IdsOf
<1> QED
  BY <1>3, <1>4

\* applySlotsLocked changes what a breakpoint shows, not what it asks for.
LEMMA ApplySame ==
    ASSUME bps \subseteq Breakpoint, NEW slots, NEW lines \in SUBSET Lines, ApplySlots(slots, lines)
    PROVE  /\ bps' \subseteq Breakpoint /\ SlotsFor(bps') = SlotsFor(bps) /\ IdsOf(bps') = IdsOf(bps)
           /\ Temporaries => (\A b, d \in bps' : b.temp /\ d.temp => b = d)
           /\ (\A b \in bps : ~b.temp) => (\A b \in bps' : ~b.temp)
<1> DEFINE shown(b) == IF b.id \in IdsOf(slots)
                       THEN [b EXCEPT !.adapterID = b.req, !.verified = b.req \in lines,
                                      !.line = IF b.req \in lines THEN Place(b.req) ELSE b.req]
                       ELSE b
           g == [b \in bps |-> shown(b)]
<1>1. ASSUME NEW b \in bps
      PROVE  /\ shown(b) \in Breakpoint /\ shown(b).req = b.req /\ shown(b).cond = b.cond
             /\ shown(b).temp = b.temp /\ shown(b).id = b.id
  <2>1. b \in Breakpoint /\ b.req \in Lines /\ Place(b.req) \in Lines
    BY BreakpointsAssumption DEF Breakpoint
  <2>2. CASE b.id \in IdsOf(slots)
    <3> DEFINE w == b.req \in lines
    <3>1. w \in BOOLEAN
      OBVIOUS
    <3>2. PICK p \in Lines : p = IF b.req \in lines THEN Place(b.req) ELSE b.req
      BY <2>1
    <3>3. shown(b) = [b EXCEPT !.adapterID = b.req, !.verified = w, !.line = p]
      BY <2>2, <3>2
    <3> HIDE DEF shown, w
    <3> QED
      BY <2>1, <3>1, <3>3 DEF Breakpoint
  <2>3. CASE b.id \notin IdsOf(slots)
    BY <2>1, <2>3
  <2> QED
    BY <2>2, <2>3
<1>2. bps' = {shown(b) : b \in bps}
  BY DEF ApplySlots
<1> HIDE DEF shown
<1>3. g \in [bps -> Breakpoint] /\ \A b \in bps : g[b] = shown(b)
  BY <1>1
<1>4. bps' = {g[b] : b \in bps}
  BY <1>2, <1>3
<1> HIDE DEF g
<1> QED
  BY <1>1, <1>3, <1>4, Remapped DEF Temporaries

\* So does an event about a breakpoint.
LEMMA OnBreakpointSame ==
    ASSUME bps \subseteq Breakpoint, NEW m, OnBreakpoint(m)
    PROVE  /\ bps' \subseteq Breakpoint /\ SlotsFor(bps') = SlotsFor(bps) /\ IdsOf(bps') = IdsOf(bps)
           /\ Temporaries => (\A b, d \in bps' : b.temp /\ d.temp => b = d)
           /\ (\A b \in bps : ~b.temp) => (\A b \in bps' : ~b.temp)
<1> DEFINE shown(b) == IF b.adapterID \in m.lines
                       THEN [b EXCEPT !.verified = TRUE, !.line = Place(b.req)]
                       ELSE b
           g == [b \in bps |-> shown(b)]
<1>1. ASSUME NEW b \in bps
      PROVE  /\ shown(b) \in Breakpoint /\ shown(b).req = b.req /\ shown(b).cond = b.cond
             /\ shown(b).temp = b.temp /\ shown(b).id = b.id
  <2>1. b \in Breakpoint /\ Place(b.req) \in Lines
    BY BreakpointsAssumption DEF Breakpoint
  <2>2. CASE b.adapterID \in m.lines
    <3>1. PICK p \in Lines : p = Place(b.req)
      BY <2>1
    <3>2. shown(b) = [b EXCEPT !.verified = TRUE, !.line = p]
      BY <2>2, <3>1
    <3> HIDE DEF shown
    <3> QED
      BY <2>1, <3>2 DEF Breakpoint
  <2>3. CASE b.adapterID \notin m.lines
    BY <2>1, <2>3
  <2> QED
    BY <2>2, <2>3
<1>2. bps' = {shown(b) : b \in bps}
  BY DEF OnBreakpoint
<1> HIDE DEF shown
<1>3. g \in [bps -> Breakpoint] /\ \A b \in bps : g[b] = shown(b)
  BY <1>1
<1>4. bps' = {g[b] : b \in bps}
  BY <1>2, <1>3
<1> HIDE DEF g
<1> QED
  BY <1>1, <1>3, <1>4, Remapped DEF Temporaries

----------------------------------------------------------------------------
(***************************************************************************)
(* What the actions share.                                                 *)
(***************************************************************************)

\* The invariant's parts, for use one thread at a time.
LEMMA Parts ==
    ASSUME BpInv
    PROVE  /\ bps \subseteq Breakpoint /\ nextBP \in Nat /\ initialized \in BOOLEAN
           /\ calls \in [Threads -> Calls] /\ seq \in Nat /\ refusals \in Nat
           /\ list \in SlotLists /\ resolved \subseteq Lines
           /\ \A t \in Threads : calls[t] \in Calls
           /\ \A t \in Requests : t \in Threads /\ t # Configure
           /\ Configure \in Threads /\ None \notin Threads
BY BreakpointsAssumption DEF BpInv, BpTypeOK, Threads, Configure

\* A step that takes nothing from the adapter's lists, leaves the threads that
\* sync or send, and keeps what is to be sent, keeps the newest list sent.
LEMMA NewestFrame ==
    ASSUME NewestSent, SlotsFor(bps') = SlotsFor(bps),
           UNCHANGED <<inbox, list, refusals>>,
           \A t \in Threads : calls[t].pc = "sync" => calls'[t].pc = "sync",
           \A t \in Threads : (calls'[t].pc = "send") = (calls[t].pc = "send"),
           \A t \in Threads : calls[t].pc = "send" => calls'[t].slots = calls[t].slots,
           calls[Configure] = Idle => calls'[Configure] = Idle
    PROVE  NewestSent'
<1> SUFFICES ASSUME refusals = 0 PROVE NewestSent'
  BY DEF NewestSent
<1>n. NoneSending' = NoneSending
  BY DEF NoneSending
<1>1. CASE \E t \in Threads : calls[t].pc = "sync"
  BY <1>1 DEF NewestSent
<1>2. CASE SentLast(SlotsFor(bps))
  <2>1. CASE \E t \in Threads : calls[t].pc = "send" /\ SlotsFor(calls[t].slots) = SlotsFor(bps)
    <3>1. PICK t \in Threads : calls[t].pc = "send" /\ SlotsFor(calls[t].slots) = SlotsFor(bps)
      BY <2>1
    <3>2. calls'[t].pc = "send" /\ SlotsFor(calls'[t].slots) = SlotsFor(bps')
      BY <3>1
    <3> QED
      BY <3>2 DEF NewestSent, SentLast
  <2>2. CASE NoneSending /\ inbox # <<>> /\ inbox[Len(inbox)].list = SlotsFor(bps)
    BY <2>2, <1>n DEF NewestSent, SentLast
  <2>3. CASE NoneSending /\ inbox = <<>> /\ list = SlotsFor(bps)
    BY <2>3, <1>n DEF NewestSent, SentLast
  <2> QED
    BY <1>2, <2>1, <2>2, <2>3 DEF SentLast
<1>3. CASE calls[Configure] = Idle /\ NoneSending /\ inbox = <<>> /\ list = <<>>
  BY <1>3, <1>n DEF NewestSent
<1> QED
  BY <1>1, <1>2, <1>3 DEF NewestSent

\* The same of the locks: a step that moves no thread in or out of what they
\* guard.
LEMMA LocksFrame ==
    ASSUME LocksHeld, UNCHANGED <<syncMu, execMu, initialized, inbox, list>>,
           \A t \in Threads : calls'[t].pc \in {"send", "wait"} => calls[t].pc \in {"send", "wait"},
           \A t \in Threads : Executing(t)' => Executing(t),
           \A t \in Threads : calls'[t].pc = "remove" => calls[t].pc = "remove" /\ calls'[t].kind = calls[t].kind,
           calls[Configure] = Idle => calls'[Configure] = Idle
    PROVE  LocksHeld'
BY DEF LocksHeld

\* A step that makes no breakpoint temporary.
LEMMA TemporariesFrame ==
    ASSUME Temporaries, \A b \in bps' : b.temp => b \in bps,
           TargetsKept
    PROVE  Temporaries'
BY DEF Temporaries, TargetsKept

\* removeBreakpoints in a thread that is not in a sync.
LEMMA RemoveShared ==
    ASSUME BpInv, NEW t \in Requests, NEW gone \in SUBSET bps, NEW call \in Calls, NEW then \in Thens,
           calls[t].pc \notin {"sync", "send", "wait"},
           RemoveBreakpoints(t, gone, call, then)
    PROVE  /\ BpTypeOK' /\ NewestSent'
           /\ \A u \in Threads : u # t => calls'[u] = calls[u]
           /\ calls'[t].kind = call.kind /\ calls'[t].client = call.client
           /\ \/ calls'[t].pc = "sync" /\ calls'[t].then = then
              \/ calls'[t].pc = then
           /\ calls'[Configure] = calls[Configure]
           /\ bps' = bps \ gone
           /\ UNCHANGED <<nextBP, initialized, syncMu, seq, inbox, list>>
<1>1. t \in Threads /\ t # Configure /\ Configure \in Threads
  BY Parts
<1>2. then \in Pcs
  BY DEF Thens, Pcs
<1> DEFINE new == IF gone # {} THEN Syncing(call, then) ELSE GoTo(call, then)
<1>3. /\ new \in Calls /\ new.kind = call.kind /\ new.client = call.client
      /\ (gone # {} => new.pc = "sync" /\ new.then = then) /\ (gone = {} => new.pc = then)
  BY <1>2, SyncingCall, GoToCall
<1>4. Set(t, new)
  BY DEF RemoveBreakpoints
<1> HIDE DEF new
<1>5. /\ calls' \in [Threads -> Calls] /\ calls'[t] = new
      /\ \A u \in Threads : u # t => calls'[u] = calls[u]
  BY <1>1, <1>3, <1>4, SetCall, Parts
<1>6. bps' = bps \ gone /\ UNCHANGED <<nextBP, initialized, syncMu, seq, inbox, list, resolved, stream, refusals>>
  BY DEF RemoveBreakpoints, adapterVars, boundVars
<1>7. BpTypeOK'
  BY <1>5, <1>6 DEF BpInv, BpTypeOK
<1>8. NewestSent'
  <2>1. CASE gone # {}
    BY <1>1, <1>3, <1>5, <2>1 DEF NewestSent
  <2>2. CASE gone = {}
    <3>1. bps' = bps /\ calls'[t].pc \notin {"sync", "send"}
      BY <1>3, <1>5, <1>6, <2>2 DEF Thens
    <3>2. /\ \A u \in Threads : calls[u].pc = "sync" => calls'[u].pc = "sync"
          /\ \A u \in Threads : (calls'[u].pc = "send") = (calls[u].pc = "send")
          /\ \A u \in Threads : calls[u].pc = "send" => calls'[u].slots = calls[u].slots
          /\ calls[Configure] = Idle => calls'[Configure] = Idle
      BY <1>1, <1>5, <3>1
    <3>3. NewestSent
      BY DEF BpInv
    <3> QED
      BY <1>6, <3>1, <3>2, <3>3, NewestFrame
  <2> QED
    BY <2>1, <2>2
<1> QED
  BY <1>1, <1>3, <1>5, <1>6, <1>7, <1>8

----------------------------------------------------------------------------
(***************************************************************************)
(* Sync.                                                                   *)
(***************************************************************************)

\* A skipped sync: before the adapter is initialized nothing was sent, and
\* configure is still to begin.
LEMMA SyncSkipKeeps ==
    ASSUME BpInv, NEW t \in Threads, SyncSkip(t)
    PROVE  BpInv'
<1> DEFINE new == GoTo(calls[t], calls[t].then)
<1>1. calls[t] \in Calls /\ calls[t].then \in Thens /\ calls[t].then \in Pcs /\ calls[t].pc = "sync"
  BY Parts, CallFields DEF SyncSkip, Thens, Pcs
<1>2. /\ new \in Calls /\ new.pc = calls[t].then /\ new.kind = calls[t].kind
      /\ new.client = calls[t].client /\ (new.pc # "done" => new.line = calls[t].line)
  BY <1>1, GoToCall
<1>3. Set(t, new)
  BY DEF SyncSkip
<1> HIDE DEF new
<1>4. /\ calls' \in [Threads -> Calls] /\ calls'[t] = new
      /\ \A u \in Threads : u # t => calls'[u] = calls[u]
  BY <1>2, <1>3, SetCall, Parts
<1>f. UNCHANGED <<bps, nextBP, initialized, syncMu, execMu, seq, inbox, list, resolved, stream, refusals>>
  BY DEF SyncSkip, sessionVars, adapterVars, boundVars
<1>5. BpTypeOK'
  BY <1>4, <1>f DEF BpInv, BpTypeOK
<1>6. /\ calls[Configure] = Idle /\ inbox = <<>> /\ list = <<>>
      /\ \A u \in Threads : calls[u].pc \notin {"send", "wait"}
  BY DEF SyncSkip, BpInv, LocksHeld
<1>7. calls'[Configure] = Idle
  BY <1>1, <1>4, <1>6, Parts, BeginCall
<1>8. /\ calls'[t].pc \in Thens
      /\ \A u \in Threads : Executing(u)' => Executing(u)
      /\ TargetsKept
  BY <1>1, <1>2, <1>4 DEF Executing, ToPlace, TargetsKept, Thens
<1>9. LocksHeld'
  <2>1. \A u \in Threads : calls'[u].pc \in {"send", "wait"} => calls[u].pc \in {"send", "wait"}
    BY <1>4, <1>8 DEF Thens
  <2>2. \A u \in Threads : calls'[u].pc = "remove" => calls[u].pc = "remove" /\ calls'[u].kind = calls[u].kind
    BY <1>4, <1>8 DEF Thens
  <2> QED
    BY <1>7, <1>8, <1>f, <2>1, <2>2, LocksFrame DEF BpInv
<1>10. Temporaries'
  BY <1>8, <1>f, TemporariesFrame DEF BpInv
<1>11. NewestSent'
  <2>1. \A u \in Threads : calls'[u].pc # "send"
    BY <1>4, <1>6, <1>8 DEF Thens
  <2> QED
    BY <1>6, <1>7, <1>f, <2>1 DEF NewestSent, NoneSending
<1> QED
  BY <1>5, <1>9, <1>10, <1>11 DEF BpInv

\* The snapshot: the list about to be sent is the newest one.
LEMMA SyncStartKeeps ==
    ASSUME BpInv, NEW t \in Threads, SyncStart(t)
    PROVE  BpInv'
<1> DEFINE new == [calls[t] EXCEPT !.pc = "send", !.slots = bps]
<1>1. calls[t] \in Calls /\ calls[t].pc = "sync" /\ initialized /\ syncMu = None
  BY Parts DEF SyncStart
<1>2. /\ new \in Calls /\ new.pc = "send" /\ new.slots = bps
      /\ new.kind = calls[t].kind /\ new.then = calls[t].then
      /\ new.client = calls[t].client /\ new.line = calls[t].line
  BY <1>1, Parts DEF Calls, Pcs
<1>3. Set(t, new)
  BY DEF SyncStart
<1> HIDE DEF new
<1>4. /\ calls' \in [Threads -> Calls] /\ calls'[t] = new
      /\ \A u \in Threads : u # t => calls'[u] = calls[u]
  BY <1>2, <1>3, SetCall, Parts
<1>f. UNCHANGED <<bps, nextBP, initialized, execMu, seq, inbox, list, resolved, stream, refusals>> /\ syncMu' = t
  BY DEF SyncStart, sessionVars, adapterVars, boundVars
<1>5. BpTypeOK'
  BY <1>4, <1>f DEF BpInv, BpTypeOK
<1>6. \A u \in Threads : calls[u].pc \notin {"send", "wait"}
  BY <1>1, Parts DEF BpInv, LocksHeld
<1>8. /\ \A u \in Threads : Executing(u)' => Executing(u)
      /\ TargetsKept
  BY <1>1, <1>2, <1>4 DEF Executing, ToPlace, TargetsKept
<1>9. LocksHeld'
  <2>1. \A u \in Threads : calls'[u].pc \in {"send", "wait"} => syncMu' = u
    BY <1>4, <1>6, <1>f
  <2>2. \A u \in Threads : Executing(u)' => execMu' = u
    BY <1>8, <1>f DEF BpInv, LocksHeld
  <2>3. \A u \in Threads : calls'[u].pc = "remove" => calls'[u].kind = "remove"
    BY <1>2, <1>4 DEF BpInv, LocksHeld
  <2> QED
    BY <1>1, <1>f, <2>1, <2>2, <2>3 DEF LocksHeld
<1>10. Temporaries'
  BY <1>8, <1>f, TemporariesFrame DEF BpInv
<1>11. NewestSent'
  BY <1>2, <1>4, <1>f DEF NewestSent, SentLast
<1> QED
  BY <1>5, <1>9, <1>10, <1>11 DEF BpInv

\* What is sent is what was about to be: only the holder of syncMu sends.
LEMMA SyncSendKeeps ==
    ASSUME BpInv, NEW t \in Threads, SyncSend(t)
    PROVE  BpInv'
<1> DEFINE new == [calls[t] EXCEPT !.pc = "wait", !.id = seq + 1]
           msg == [id |-> seq + 1, list |-> SlotsFor(calls[t].slots)]
<1>1. calls[t] \in Calls /\ calls[t].pc = "send" /\ calls[t].slots \subseteq Breakpoint /\ seq \in Nat
  BY Parts, CallFields DEF SyncSend
<1>2. /\ new \in Calls /\ new.pc = "wait" /\ new.kind = calls[t].kind /\ new.then = calls[t].then
      /\ new.client = calls[t].client /\ new.line = calls[t].line
  <2>1. seq + 1 \in Nat /\ "wait" \in Pcs
    BY <1>1 DEF Pcs
  <2> HIDE DEF new
  <2>2. new = [calls[t] EXCEPT !.pc = "wait", !.id = seq + 1]
    BY DEF new
  <2> QED
    BY <1>1, <2>1, <2>2 DEF Calls
<1>3. Set(t, new)
  BY DEF SyncSend
<1>m. /\ msg \in [id : Nat, list : SlotLists] /\ msg.list = SlotsFor(calls[t].slots)
      /\ inbox' = Append(inbox, msg) /\ inbox \in Seq([id : Nat, list : SlotLists])
  BY <1>1, SlotsForType DEF SyncSend, BpInv, BpTypeOK
<1> HIDE DEF new, msg
<1>4. /\ calls' \in [Threads -> Calls] /\ calls'[t] = new
      /\ \A u \in Threads : u # t => calls'[u] = calls[u]
  BY <1>2, <1>3, SetCall, Parts
<1>f. /\ UNCHANGED <<bps, nextBP, initialized, syncMu, execMu, list, resolved, stream, refusals>>
      /\ seq' = seq + 1
  BY DEF SyncSend, sessionVars, boundVars
<1>i. /\ inbox' \in Seq([id : Nat, list : SlotLists]) /\ inbox' # <<>>
      /\ inbox'[Len(inbox')].list = SlotsFor(calls[t].slots)
  BY <1>m
<1>5. BpTypeOK'
  BY <1>1, <1>4, <1>f, <1>i DEF BpInv, BpTypeOK
<1>6. syncMu = t /\ initialized /\ \A u \in Threads : calls[u].pc \in {"send", "wait"} => u = t
  BY <1>1, Parts DEF BpInv, LocksHeld
<1>8. /\ \A u \in Threads : Executing(u)' => Executing(u)
      /\ TargetsKept
  BY <1>1, <1>2, <1>4 DEF Executing, ToPlace, TargetsKept
<1>9. LocksHeld'
  <2>1. \A u \in Threads : calls'[u].pc \in {"send", "wait"} => syncMu' = u
    BY <1>4, <1>6, <1>f
  <2>2. \A u \in Threads : Executing(u)' => execMu' = u
    BY <1>8, <1>f DEF BpInv, LocksHeld
  <2>3. \A u \in Threads : calls'[u].pc = "remove" => calls'[u].kind = "remove"
    BY <1>2, <1>4 DEF BpInv, LocksHeld
  <2> QED
    BY <1>6, <1>f, <2>1, <2>2, <2>3 DEF LocksHeld
<1>10. Temporaries'
  BY <1>8, <1>f, TemporariesFrame DEF BpInv
<1>11. NewestSent'
  <2> SUFFICES ASSUME refusals = 0, \A u \in Threads : calls[u].pc # "sync"
               PROVE  SentLast(SlotsFor(bps))'
    <3>1. CASE \E u \in Threads : calls[u].pc = "sync"
      BY <1>1, <1>4, <3>1 DEF NewestSent
    <3> QED
      BY <3>1, <1>f DEF NewestSent
  <2>1. SlotsFor(calls[t].slots) = SlotsFor(bps)
    BY <1>1, <1>6 DEF BpInv, NewestSent, SentLast, NoneSending
  <2>2. NoneSending'
    BY <1>2, <1>4, <1>6 DEF NoneSending
  <2> QED
    BY <1>f, <1>i, <2>1, <2>2 DEF SentLast
<1> QED
  BY <1>5, <1>9, <1>10, <1>11 DEF BpInv

\* Giving up changes what the caller thinks, not what was sent.
LEMMA SyncTimeoutKeeps ==
    ASSUME BpInv, NEW t \in Threads, SyncTimeout(t)
    PROVE  BpInv'
<1> DEFINE new == [calls[t] EXCEPT !.answer = "err"]
<1>1. calls[t] \in Calls /\ calls[t].pc = "wait"
  BY Parts DEF SyncTimeout
<1>2. /\ new \in Calls /\ new.pc = "wait" /\ new.kind = calls[t].kind /\ new.then = calls[t].then
      /\ new.client = calls[t].client /\ new.line = calls[t].line
  BY <1>1 DEF Calls
<1>3. Set(t, new)
  BY DEF SyncTimeout
<1> HIDE DEF new
<1>4. /\ calls' \in [Threads -> Calls] /\ calls'[t] = new
      /\ \A u \in Threads : u # t => calls'[u] = calls[u]
  BY <1>2, <1>3, SetCall, Parts
<1>f. UNCHANGED <<bps, nextBP, initialized, syncMu, execMu, seq, inbox, list, resolved, stream, refusals>>
  BY DEF SyncTimeout, sessionVars, adapterVars
<1>5. BpTypeOK'
  BY <1>4, <1>f DEF BpInv, BpTypeOK
<1>7. calls[Configure] = Idle => calls'[Configure] = Idle
  BY <1>1, <1>4, Parts, BeginCall
<1>8. /\ \A u \in Threads : Executing(u)' => Executing(u)
      /\ TargetsKept
      /\ \A u \in Threads : calls'[u].pc = calls[u].pc /\ calls'[u].kind = calls[u].kind
  BY <1>1, <1>2, <1>4 DEF Executing, ToPlace, TargetsKept
<1>9. LocksHeld'
  BY <1>7, <1>8, <1>f, LocksFrame DEF BpInv
<1>10. Temporaries'
  BY <1>8, <1>f, TemporariesFrame DEF BpInv
<1>11. NewestSent'
  <2>1. \A u \in Threads : calls[u].pc = "send" => calls'[u].slots = calls[u].slots
    BY <1>1, <1>4
  <2> QED
    BY <1>7, <1>8, <1>f, <2>1, NewestFrame DEF BpInv
<1> QED
  BY <1>5, <1>9, <1>10, <1>11 DEF BpInv

\* The answer: the call goes on as then says, or gives up, and syncMu is free.
LEMMA SyncEndKeeps ==
    ASSUME BpInv, NEW t \in Threads, SyncEnd(t)
    PROVE  BpInv'
<1> DEFINE c   == calls[t]
           d   == [c EXCEPT !.slots = {}, !.lines = {}, !.id = 0, !.answer = "none"]
           p   == IF c.answer = "ok" THEN c.then ELSE AfterError(c)
           new == GoTo(d, p)
<1>1. /\ c \in Calls /\ c.pc = "wait" /\ c.then \in Thens /\ c.lines \subseteq Lines
      /\ bps \subseteq Breakpoint
  BY Parts, CallFields DEF SyncEnd
<1>2. d \in Calls /\ d.kind = c.kind /\ d.then = c.then /\ d.client = c.client /\ d.line = c.line
  BY <1>1 DEF Calls
<1>3. /\ p \in {"place", "execute", "abort", "unplace", "done"} /\ p \in Pcs
      /\ p = "place" => c.then = "place"
      /\ p # "done" => c.then \in {"place", "execute", "abort"}
  BY <1>1 DEF AfterError, Thens, Pcs
<1> HIDE DEF d, p
<1>4. /\ new \in Calls /\ new.pc = p /\ new.kind = c.kind
      /\ new.client = c.client /\ (p # "done" => new.line = c.line)
  BY <1>2, <1>3, GoToCall
<1>5. Set(t, new)
  BY DEF SyncEnd, d, p
<1> HIDE DEF new
<1>6. /\ calls' \in [Threads -> Calls] /\ calls'[t] = new
      /\ \A u \in Threads : u # t => calls'[u] = calls[u]
  BY <1>4, <1>5, SetCall, Parts
<1>f. UNCHANGED <<nextBP, initialized, execMu, seq, inbox, list, resolved, stream, refusals>>
  BY DEF SyncEnd, adapterVars, boundVars
<1>7. /\ bps' \subseteq Breakpoint /\ SlotsFor(bps') = SlotsFor(bps)
      /\ \A b, e \in bps' : b.temp /\ e.temp => b = e
      /\ (\A b \in bps : ~b.temp) => (\A b \in bps' : ~b.temp)
  <2>1. CASE c.answer = "ok"
    <3>1. ApplySlots(c.slots, c.lines)
      BY <2>1 DEF SyncEnd
    <3> QED
      BY <1>1, <3>1, ApplySame DEF BpInv
  <2>2. CASE c.answer # "ok"
    <3>1. bps' = bps
      BY <2>2 DEF SyncEnd
    <3> QED
      BY <1>1, <3>1 DEF BpInv, Temporaries
  <2> QED
    BY <2>1, <2>2
<1>8. BpTypeOK'
  BY <1>6, <1>7, <1>f DEF BpInv, BpTypeOK
<1>9. /\ syncMu = t /\ initialized
      /\ \A u \in Threads : u # t => calls[u].pc \notin {"send", "wait"}
  BY <1>1, Parts DEF BpInv, LocksHeld
<1>10. /\ \A u \in Threads : Executing(u)' => Executing(u)
       /\ TargetsKept
  BY <1>1, <1>3, <1>4, <1>6 DEF Executing, ToPlace, TargetsKept
<1>11. LocksHeld'
  <2>1. \A u \in Threads : calls'[u].pc \notin {"send", "wait"}
    BY <1>3, <1>4, <1>6, <1>9
  <2>2. \A u \in Threads : Executing(u)' => execMu' = u
    BY <1>10, <1>f DEF BpInv, LocksHeld
  <2>3. \A u \in Threads : calls'[u].pc = "remove" => calls'[u].kind = "remove"
    BY <1>3, <1>4, <1>6 DEF BpInv, LocksHeld
  <2> QED
    BY <1>9, <1>f, <2>1, <2>2, <2>3 DEF LocksHeld
<1>12. Temporaries'
  BY <1>7, <1>10 DEF BpInv, Temporaries, TargetsKept
<1>13. NewestSent'
  <2>1. /\ \A u \in Threads : calls[u].pc = "sync" => calls'[u].pc = "sync"
        /\ \A u \in Threads : (calls'[u].pc = "send") = (calls[u].pc = "send")
        /\ \A u \in Threads : calls[u].pc = "send" => calls'[u].slots = calls[u].slots
    BY <1>1, <1>3, <1>4, <1>6
  <2>2. calls[Configure] = Idle => calls'[Configure] = Idle
    BY <1>1, <1>6, Parts, BeginCall
  <2>3. NewestSent
    BY DEF BpInv
  <2> QED
    BY <1>7, <1>f, <2>1, <2>2, <2>3, NewestFrame
<1> QED
  BY <1>8, <1>11, <1>12, <1>13 DEF BpInv

\* An answer reaches the caller that waits for it.
LEMMA OnResponseKeeps ==
    ASSUME BpInv, stream # <<>>, OnResponse(Head(stream)), stream' = Tail(stream),
           UNCHANGED <<nextBP, initialized, syncMu, execMu, seq, inbox, list, resolved, refusals>>
    PROVE  BpInv'
<1> DEFINE m == Head(stream)
<1>1. m \in Messages /\ m.lines \subseteq Lines /\ stream' \in Seq(Messages)
  <2>1. stream \in Seq(Messages)
    BY DEF BpInv, BpTypeOK
  <2>2. m \in Messages /\ Tail(stream) \in Seq(Messages)
    BY <2>1
  <2> HIDE DEF m
  <2> QED
    BY <2>2 DEF Messages
<1> HIDE DEF m
<1>2. bps' = bps
  BY DEF OnResponse
<1>3. ASSUME NEW u \in Threads
      PROVE  /\ calls'[u] \in Calls /\ calls'[u].pc = calls[u].pc /\ calls'[u].then = calls[u].then
             /\ calls'[u].kind = calls[u].kind /\ calls'[u].slots = calls[u].slots
             /\ calls'[u].client = calls[u].client /\ calls'[u].line = calls[u].line
             /\ calls[u].pc # "wait" => calls'[u] = calls[u]
  <2>1. calls[u] \in Calls
    BY Parts
  <2>2. CASE calls[u].pc = "wait" /\ calls[u].id = m.id /\ calls[u].answer = "none"
    <3>1. PICK a \in {"ok", "err"} : a = IF m.ok THEN "ok" ELSE "err"
      OBVIOUS
    <3>2. calls'[u] = [calls[u] EXCEPT !.answer = a, !.lines = m.lines]
      BY <2>2, <3>1 DEF OnResponse, m
    <3> QED
      BY <1>1, <2>1, <2>2, <3>2 DEF Calls
  <2>3. CASE ~(calls[u].pc = "wait" /\ calls[u].id = m.id /\ calls[u].answer = "none")
    BY <2>1, <2>3 DEF OnResponse, m
  <2> QED
    BY <2>2, <2>3
<1>4. calls' \in [Threads -> Calls]
  BY <1>3 DEF OnResponse
<1>5. BpTypeOK'
  BY <1>1, <1>2, <1>4 DEF BpInv, BpTypeOK
<1>7. calls[Configure] = Idle => calls'[Configure] = Idle
  BY <1>3, Parts, BeginCall
<1>8. /\ \A u \in Threads : Executing(u)' => Executing(u)
      /\ TargetsKept
  BY <1>3 DEF Executing, ToPlace, TargetsKept
<1>9. LocksHeld'
  BY <1>3, <1>7, <1>8, LocksFrame DEF BpInv
<1>10. Temporaries'
  BY <1>2, <1>8, TemporariesFrame DEF BpInv
<1>11. NewestSent'
  BY <1>2, <1>3, <1>7, NewestFrame DEF BpInv
<1> QED
  BY <1>5, <1>9, <1>10, <1>11 DEF BpInv

\* The read loop takes one message.
LEMMA DeliverKeeps ==
    ASSUME BpInv, Deliver
    PROVE  BpInv'
<1>f. UNCHANGED <<nextBP, initialized, syncMu, execMu, seq, inbox, list, resolved, refusals>>
  BY DEF Deliver, boundVars
<1>1. CASE Head(stream).msg = "response"
  BY <1>1, <1>f, OnResponseKeeps DEF Deliver
<1>2. CASE Head(stream).msg # "response"
  <2>1. OnBreakpoint(Head(stream)) /\ stream # <<>> /\ stream' = Tail(stream) /\ calls' = calls
    BY <1>2 DEF Deliver, OnBreakpoint
  <2>2. bps \subseteq Breakpoint
    BY Parts
  <2>3. /\ bps' \subseteq Breakpoint /\ SlotsFor(bps') = SlotsFor(bps)
        /\ Temporaries => (\A b, e \in bps' : b.temp /\ e.temp => b = e)
        /\ (\A b \in bps : ~b.temp) => (\A b \in bps' : ~b.temp)
    BY <2>1, <2>2, OnBreakpointSame
  <2>4. BpTypeOK'
    <3>1. stream' \in Seq(Messages)
      BY <2>1 DEF BpInv, BpTypeOK
    <3> QED
      BY <1>f, <2>1, <2>3, <3>1 DEF BpInv, BpTypeOK
  <2>5. LocksHeld'
    BY <1>f, <2>1 DEF BpInv, LocksHeld, Executing
  <2>6. Temporaries'
    BY <2>1, <2>3 DEF BpInv, Temporaries, ToPlace
  <2>7. NewestSent'
    BY <1>f, <2>1, <2>3, NewestFrame DEF BpInv
  <2> QED
    BY <2>4, <2>5, <2>6, <2>7 DEF BpInv
<1> QED
  BY <1>1, <1>2

----------------------------------------------------------------------------
(***************************************************************************)
(* Requests that change the list.                                          *)
(***************************************************************************)

\* A thread of a request that goes from idle to a sync and then ends; no
\* breakpoint becomes temporary.
LEMMA ListChanged ==
    ASSUME BpInv, NEW t \in Threads, calls[t] = Idle, initialized \/ t # Configure,
           NEW kind \in {"configure", "add", "replace"},
           NEW c \in Clients \cup {None}, Set(t, Syncing(Begin(t, kind, c), "done")),
           bps' \subseteq Breakpoint, nextBP' \in Nat, \A b \in bps' : b.temp => b \in bps,
           UNCHANGED <<initialized, syncMu, execMu, seq, inbox, list, resolved, stream, refusals>>
    PROVE  BpInv' /\ calls'[t] # calls[t] /\ calls'[t].kind = kind /\ calls'[t].client = c
<1> DEFINE new == Syncing(Begin(t, kind, c), "done")
<1>1. Begin(t, kind, c) \in Calls /\ Begin(t, kind, c).kind = kind /\ Begin(t, kind, c).client = c
  BY BeginCall
<1>2. new \in Calls /\ new.pc = "sync" /\ new.then = "done" /\ new.kind = kind /\ new.client = c
  BY <1>1, SyncingCall DEF Thens
<1> HIDE DEF new
<1>4. /\ calls' \in [Threads -> Calls] /\ calls'[t] = new
      /\ \A u \in Threads : u # t => calls'[u] = calls[u]
  BY <1>2, SetCall, Parts DEF new
<1>5. BpTypeOK'
  BY <1>4 DEF BpInv, BpTypeOK
<1>8. /\ \A u \in Threads : Executing(u)' => Executing(u)
      /\ TargetsKept
  BY <1>2, <1>4 DEF Executing, ToPlace, TargetsKept
<1>9. LocksHeld'
  <2>1. \A u \in Threads : calls'[u].pc \in {"send", "wait"} => u # t /\ calls[u].pc \in {"send", "wait"}
    BY <1>2, <1>4
  <2>2. \A u \in Threads : Executing(u)' => execMu' = u
    BY <1>8 DEF BpInv, LocksHeld
  <2>3. \A u \in Threads : calls'[u].pc = "remove" => calls'[u].kind = "remove"
    BY <1>2, <1>4 DEF BpInv, LocksHeld
  <2>4. ~initialized => calls'[Configure] = calls[Configure]
    BY <1>4, Parts
  <2> QED
    BY <2>1, <2>2, <2>3, <2>4 DEF BpInv, LocksHeld
<1>10. Temporaries'
  BY <1>8, TemporariesFrame DEF BpInv
<1>11. NewestSent'
  BY <1>2, <1>4 DEF NewestSent
<1> QED
  BY <1>2, <1>4, <1>5, <1>9, <1>10, <1>11, BeginCall DEF BpInv

\* A new breakpoint.
LEMMA NewType ==
    ASSUME NEW i \in Nat, NEW c \in Clients, NEW line \in Lines, NEW cond \in Conds, NEW log \in BOOLEAN
    PROVE  /\ NewBreakpoint(i, c, line, cond, log) \in Breakpoint
           /\ NewBreakpoint(i, c, line, cond, log).temp = FALSE
           /\ [NewBreakpoint(i, c, line, cond, log) EXCEPT !.editor = TRUE] \in Breakpoint
           /\ [NewBreakpoint(i, c, line, cond, log) EXCEPT !.editor = TRUE].temp = FALSE
           /\ [NewBreakpoint(i, c, line, cond, log) EXCEPT !.temp = TRUE] \in Breakpoint
<1> DEFINE b == NewBreakpoint(i, c, line, cond, log)
<1>1. b \in Breakpoint /\ b.temp = FALSE
  BY DEF NewBreakpoint, Breakpoint
<1> HIDE DEF b
<1>2. /\ [b EXCEPT !.editor = TRUE] \in Breakpoint /\ [b EXCEPT !.editor = TRUE].temp = FALSE
      /\ [b EXCEPT !.temp = TRUE] \in Breakpoint
  BY <1>1 DEF Breakpoint
<1> QED
  BY <1>1, <1>2 DEF b

\* A changed one is the same one, with another spec.
LEMMA UpdateType ==
    ASSUME NEW b \in Breakpoint, NEW cond \in Conds, NEW log \in BOOLEAN
    PROVE  /\ [Update(b, cond, log) EXCEPT !.temp = FALSE] \in Breakpoint
           /\ [Update(b, cond, log) EXCEPT !.temp = FALSE].temp = FALSE
           /\ [Update(b, cond, log) EXCEPT !.temp = FALSE].id = b.id
           /\ [Update(b, cond, log) EXCEPT !.editor = TRUE] \in Breakpoint
           /\ [Update(b, cond, log) EXCEPT !.editor = TRUE].temp = b.temp
           /\ [Update(b, cond, log) EXCEPT !.editor = TRUE].id = b.id
<1> DEFINE d == Update(b, cond, log)
<1>1. d \in Breakpoint /\ d.id = b.id /\ d.temp = b.temp
  BY DEF Update, Breakpoint
<1> HIDE DEF d
<1>2. /\ [d EXCEPT !.temp = FALSE] \in Breakpoint /\ [d EXCEPT !.temp = FALSE].temp = FALSE
      /\ [d EXCEPT !.temp = FALSE].id = d.id
  BY <1>1 DEF Breakpoint
<1>3. /\ [d EXCEPT !.editor = TRUE] \in Breakpoint /\ [d EXCEPT !.editor = TRUE].temp = d.temp
      /\ [d EXCEPT !.editor = TRUE].id = d.id
  BY <1>1 DEF Breakpoint
<1> QED
  BY <1>1, <1>2, <1>3 DEF d

\* addBreakpointLocked makes no breakpoint temporary and takes none away.
LEMMA AddedTo ==
    ASSUME bps \subseteq Breakpoint, nextBP \in Nat, NEW c \in Clients, NEW line \in Lines, NEW cond \in Conds,
           NEW log \in BOOLEAN, AddBreakpointLocked(c, line, cond, log)
    PROVE  /\ bps' \subseteq Breakpoint /\ nextBP' \in Nat /\ \A b \in bps' : b.temp => b \in bps
           /\ IdsOf(bps) \subseteq IdsOf(bps')
<1> DEFINE own == {b \in bps : b.owner = c /\ b.req = line}
<1>1. CASE own # {}
  <2>1. Older(own) \in bps /\ Older(own) \in Breakpoint
    BY <1>1, OlderIn
  <2> DEFINE o == Older(own)
             n == [Update(o, cond, log) EXCEPT !.temp = FALSE]
  <2>2. bps' = (bps \ {o}) \cup {n} /\ nextBP' = nextBP
    BY <1>1 DEF AddBreakpointLocked
  <2> HIDE DEF o
  <2>3. n \in Breakpoint /\ n.temp = FALSE /\ n.id = o.id /\ o \in bps
    BY <2>1, UpdateType DEF o
  <2> HIDE DEF n
  <2> QED
    BY <2>2, <2>3 DEF IdsOf
<1>2. CASE own = {}
  <2>1. PICK i \in Nat : i = nextBP + 1
    OBVIOUS
  <2> DEFINE n == NewBreakpoint(i, c, line, cond, log)
  <2>2. bps' = bps \cup {n} /\ nextBP' = i
    BY <1>2, <2>1 DEF AddBreakpointLocked
  <2>3. n \in Breakpoint /\ n.temp = FALSE
    BY DEF NewBreakpoint, Breakpoint
  <2> HIDE DEF n
  <2> QED
    BY <2>2, <2>3 DEF IdsOf
<1> QED
  BY <1>1, <1>2

\* matchItems gives a line breakpoints of old only.
LEMMA MatchedOld ==
    ASSUME NEW old \in SUBSET Breakpoint, NEW wanted, NEW l \in wanted
    PROVE  MatchItems(old, wanted)[l] \subseteq old
<1>1. ASSUME NEW S \in SUBSET old
      PROVE  Oldest(S) \subseteq old
  <2>1. S \subseteq Breakpoint
    OBVIOUS
  <2> QED
    BY <2>1, OlderIn DEF Oldest
<1> DEFINE byRequested(k) == Oldest({b \in old : b.req = k})
           rest == old \ UNION {byRequested(k) : k \in wanted}
<1>2. MatchItems(old, wanted)[l] = IF byRequested(l) # {} THEN byRequested(l)
                                   ELSE Oldest({b \in rest : b.line = l})
  BY DEF MatchItems
<1>3. byRequested(l) \subseteq old
  BY <1>1
<1>4. Oldest({b \in rest : b.line = l}) \subseteq old
  BY <1>1
<1> HIDE DEF byRequested, rest
<1> QED
  BY <1>2, <1>3, <1>4

\* Parts of a finite set of lines are counted.
LEMMA CountLines ==
    ASSUME NEW S, IsFiniteSet(S), NEW n \in Nat
    PROVE  \A T \in SUBSET S : n + Cardinality(T) \in Nat
BY FS_Subset, FS_CardinalityType

\* matchLocked makes no breakpoint temporary and takes away only what c's
\* editor had set.
LEMMA MatchedIn ==
    ASSUME bps \subseteq Breakpoint, nextBP \in Nat, NEW c \in Clients, NEW items \in Lists,
           MatchLocked(c, items)
    PROVE  /\ bps' \subseteq Breakpoint /\ nextBP' \in Nat /\ \A b \in bps' : b.temp => b \in bps
           /\ \A b \in bps : b.id \notin IdsOf(bps') => b.owner = c /\ b.editor
<1> DEFINE wanted  == DOMAIN items
           old     == {b \in bps : b.owner = c /\ ~b.temp}
           match   == MatchItems(old, wanted)
           matched == UNION Range(match)
           gone    == {b \in old \ matched : b.editor}
           fresh   == {l \in wanted : match[l] = {}}
           idOf(l) == nextBP + Cardinality({k \in fresh : k <= l})
           changed(l) == {[Update(b, items[l], FALSE) EXCEPT !.editor = TRUE] : b \in match[l]}
           added(l) == [NewBreakpoint(idOf(l), c, l, items[l], FALSE) EXCEPT !.editor = TRUE]
           C == UNION {changed(l) : l \in wanted}
           A == {added(l) : l \in fresh}
<1>1. /\ bps' = (bps \ (gone \cup matched)) \cup C \cup A
      /\ nextBP' = nextBP + Cardinality(fresh)
  BY DEF MatchLocked
<1>2. wanted \subseteq Lines /\ IsFiniteSet(wanted) /\ \A l \in wanted : items[l] \in Conds
  BY BreakpointsAssumption DEF Range
<1>3. \A l \in wanted : match[l] \subseteq old
  BY MatchedOld
<1>4. matched \subseteq old /\ \A b \in matched : \E l \in wanted : b \in match[l]
  <2>1. DOMAIN match = wanted
    BY DEF MatchItems
  <2> QED
    BY <1>3, <2>1 DEF Range
<1>5. old \subseteq bps /\ old \subseteq Breakpoint /\ \A b \in old : b.owner = c /\ b.temp = FALSE
  BY DEF Breakpoint
<1>6. fresh \subseteq wanted /\ \A l \in fresh : {k \in fresh : k <= l} \subseteq wanted
  OBVIOUS
<1>7. nextBP' \in Nat /\ \A l \in fresh : idOf(l) \in Nat
  BY <1>1, <1>2, <1>6, CountLines
<1> HIDE DEF match, matched, old, fresh, idOf, wanted, C, A
<1>8. ASSUME NEW l \in wanted, NEW b \in changed(l)
      PROVE  b \in Breakpoint /\ b.temp = FALSE
  <2>1. PICK d \in match[l] : b = [Update(d, items[l], FALSE) EXCEPT !.editor = TRUE]
    BY <1>8
  <2>2. d \in Breakpoint /\ d.temp = FALSE /\ items[l] \in Conds
    BY <1>2, <1>3, <1>5, <2>1
  <2> QED
    BY <2>1, <2>2, UpdateType
<1>9. ASSUME NEW l \in fresh
      PROVE  added(l) \in Breakpoint /\ added(l).temp = FALSE
  BY <1>2, <1>6, <1>7, NewType
<1>10. ASSUME NEW b \in matched
       PROVE  \E l \in wanted : \E d \in changed(l) : d.id = b.id
  <2>1. PICK l \in wanted : b \in match[l]
    BY <1>4
  <2>2. b \in Breakpoint /\ items[l] \in Conds
    BY <1>2, <1>3, <1>5, <2>1
  <2>3. [Update(b, items[l], FALSE) EXCEPT !.editor = TRUE].id = b.id
    BY <2>2, UpdateType
  <2> QED
    BY <2>1, <2>3
<1> HIDE DEF changed, added
<1>11. ASSUME NEW b \in bps'
       PROVE  b \in Breakpoint /\ (b.temp => b \in bps)
  <2>1. b \in C => \E l \in wanted : b \in changed(l)
    BY DEF C
  <2>2. b \in A => \E l \in fresh : b = added(l)
    BY DEF A
  <2>3. b \in bps \/ b \in C \/ b \in A
    BY <1>1, <1>11
  <2> QED
    BY <1>8, <1>9, <2>1, <2>2, <2>3
<1>12. ASSUME NEW b \in bps, b.id \notin IdsOf(bps')
       PROVE  b.owner = c /\ b.editor
  <2>1. b \notin bps'
    BY <1>12 DEF IdsOf
  <2>2. b \notin matched
    <3>1. SUFFICES ASSUME b \in matched PROVE FALSE
      OBVIOUS
    <3>2. PICK l \in wanted : \E d \in changed(l) : d.id = b.id
      BY <3>1, <1>10
    <3>3. PICK d \in changed(l) : d.id = b.id
      BY <3>2
    <3>4. d \in C
      BY <3>3 DEF C
    <3>5. d \in bps'
      BY <1>1, <3>4
    <3> QED
      BY <1>12, <3>3, <3>5 DEF IdsOf
  <2>3. b \in gone
    BY <1>1, <2>1, <2>2
  <2> QED
    BY <1>5, <2>3
<1> QED
  BY <1>7, <1>11, <1>12

\* AddBreakpoint.
LEMMA AddBreakpointKeeps ==
    ASSUME BpInv, NEW t \in Requests, NEW c \in Clients, NEW spec \in Specs,
           AddBreakpoint(t, c, spec.line, spec.cond, spec.log)
    PROVE  BpInv' /\ IdsOf(bps) \subseteq IdsOf(bps')
<1>1. spec.line \in Lines /\ spec.cond \in Conds /\ spec.log \in BOOLEAN
  BY BreakpointsAssumption
<1>2. /\ calls[t] = Idle /\ AddBreakpointLocked(c, spec.line, spec.cond, spec.log)
      /\ Set(t, Syncing(Begin(t, "add", c), "done"))
      /\ UNCHANGED <<initialized, syncMu, execMu, seq, inbox, list, resolved, stream, refusals>>
  BY DEF AddBreakpoint, May, adapterVars, boundVars
<1>3. /\ bps' \subseteq Breakpoint /\ nextBP' \in Nat /\ \A b \in bps' : b.temp => b \in bps
      /\ IdsOf(bps) \subseteq IdsOf(bps')
  BY <1>1, <1>2, AddedTo, Parts
<1>4. t \in Threads /\ t # Configure
  BY Parts
<1> QED
  BY <1>2, <1>3, <1>4, ListChanged

\* ReplaceBreakpoints.
LEMMA ReplaceKeeps ==
    ASSUME BpInv, NEW t \in Requests, NEW c \in Clients, NEW items \in Lists, Replace(t, c, items)
    PROVE  BpInv' /\ PermanentStep
<1>2. /\ calls[t] = Idle /\ MatchLocked(c, items)
      /\ Set(t, Syncing(Begin(t, "replace", c), "done"))
      /\ UNCHANGED <<initialized, syncMu, execMu, seq, inbox, list, resolved, stream, refusals>>
  BY DEF Replace, May, adapterVars, boundVars
<1>3. /\ bps' \subseteq Breakpoint /\ nextBP' \in Nat /\ \A b \in bps' : b.temp => b \in bps
      /\ \A b \in bps : b.id \notin IdsOf(bps') => b.owner = c /\ b.editor
  BY <1>2, MatchedIn, Parts
<1>4. t \in Threads /\ t # Configure
  BY Parts
<1>5. BpInv' /\ calls'[t] # calls[t] /\ calls'[t].kind = "replace" /\ calls'[t].client = c
  BY <1>2, <1>3, <1>4, ListChanged
<1> QED
  BY <1>3, <1>5 DEF PermanentStep

\* configurationPhase.
LEMMA ConfigurationKeeps ==
    ASSUME BpInv, ConfigurationPhase
    PROVE  BpInv' /\ IdsOf(bps) \subseteq IdsOf(bps')
<1> DEFINE new == {l \in StartSpecs : \A b \in bps : ~(b.owner = Starter /\ b.req = l)}
           old == {b \in bps : b.owner = Starter /\ b.req \in StartSpecs}
           idOf(l) == nextBP + Cardinality({k \in new : k <= l})
           changed(b) == [Update(b, "", FALSE) EXCEPT !.temp = FALSE]
           added(l) == NewBreakpoint(idOf(l), Starter, l, "", FALSE)
<1>1. /\ calls[Configure] = Idle /\ initialized
      /\ bps' = (bps \ old) \cup {changed(b) : b \in old} \cup {added(l) : l \in new}
      /\ nextBP' = nextBP + Cardinality(new)
      /\ Set(Configure, IF bps' = {} THEN Ended(Begin(Configure, "configure", None))
                        ELSE Syncing(Begin(Configure, "configure", None), "done"))
      /\ UNCHANGED <<initialized, syncMu, execMu, seq, inbox, list, resolved, stream, refusals>>
  BY DEF ConfigurationPhase, adapterVars, boundVars
<1>2. new \subseteq StartSpecs /\ \A l \in new : {k \in new : k <= l} \subseteq StartSpecs
  OBVIOUS
<1>3. nextBP' \in Nat /\ \A l \in new : idOf(l) \in Nat
  BY <1>1, <1>2, CountLines, BreakpointsAssumption, Parts
<1>4. old \subseteq bps /\ old \subseteq Breakpoint /\ bps \subseteq Breakpoint
  BY Parts
<1> HIDE DEF new, idOf, old
<1>5. ASSUME NEW b \in old
      PROVE  changed(b) \in Breakpoint /\ changed(b).temp = FALSE /\ changed(b).id = b.id
  BY <1>4, UpdateType, BreakpointsAssumption
<1>6. ASSUME NEW l \in new
      PROVE  added(l) \in Breakpoint /\ added(l).temp = FALSE
  BY <1>2, <1>3, NewType, BreakpointsAssumption
<1> HIDE DEF changed, added
<1>7. bps' \subseteq Breakpoint /\ \A b \in bps' : b.temp => b \in bps
  BY <1>1, <1>4, <1>5, <1>6
<1>8. IdsOf(bps) \subseteq IdsOf(bps')
  BY <1>1, <1>4, <1>5 DEF IdsOf
<1>9. Configure \in Threads
  BY Parts
<1>10. CASE bps' # {}
  BY <1>1, <1>3, <1>7, <1>8, <1>9, <1>10, ListChanged
<1>11. CASE bps' = {}
  <2>1. bps = {}
    BY <1>8, <1>11 DEF IdsOf
  <2> DEFINE call == Ended(Begin(Configure, "configure", None))
  <2>2. call \in Calls /\ call.pc = "done" /\ call.kind = "configure"
    <3>1. /\ Begin(Configure, "configure", None) \in Calls
          /\ Begin(Configure, "configure", None).kind = "configure"
      BY BeginCall
    <3>2. "done" \in Pcs
      BY DEF Pcs
    <3> QED
      BY <3>1, <3>2, GoToCall
  <2>3. Set(Configure, call)
    BY <1>1, <1>11
  <2> HIDE DEF call
  <2>4. /\ calls' \in [Threads -> Calls] /\ calls'[Configure] = call
        /\ \A u \in Threads : u # Configure => calls'[u] = calls[u]
    BY <1>9, <2>2, <2>3, SetCall, Parts
  <2>5. BpTypeOK'
    BY <1>1, <1>3, <1>7, <2>4 DEF BpInv, BpTypeOK
  <2>6. /\ \A u \in Threads : Executing(u)' => Executing(u)
        /\ TargetsKept
    BY <2>2, <2>4 DEF Executing, ToPlace, TargetsKept
  <2>7. LocksHeld'
    BY <1>1, <2>2, <2>4, <2>6 DEF BpInv, LocksHeld
  <2>8. Temporaries'
    BY <1>7, <2>6, TemporariesFrame DEF BpInv
  <2>9. NewestSent'
    <3>1. calls[Configure].pc = "idle"
      BY <1>1, BeginCall
    <3>2. /\ \A u \in Threads : calls[u].pc = "sync" => calls'[u].pc = "sync"
          /\ \A u \in Threads : (calls'[u].pc = "send") = (calls[u].pc = "send")
          /\ \A u \in Threads : calls[u].pc = "send" => calls'[u].slots = calls[u].slots
      BY <2>2, <2>4, <3>1
    <3>3. SlotsFor(bps') = <<>> /\ SlotsFor(bps) = <<>>
      BY <1>11, <2>1, SlotsForNone
    <3>n. NoneSending' = NoneSending
      BY <3>2 DEF NoneSending
    <3> SUFFICES ASSUME refusals = 0 PROVE NewestSent'
      BY <1>1 DEF NewestSent
    <3>4. CASE \E u \in Threads : calls[u].pc = "sync"
      BY <3>2, <3>4 DEF NewestSent
    <3>5. CASE \E u \in Threads : calls[u].pc = "send" /\ SlotsFor(calls[u].slots) = SlotsFor(bps)
      <4>1. PICK u \in Threads : calls[u].pc = "send" /\ SlotsFor(calls[u].slots) = SlotsFor(bps)
        BY <3>5
      <4>2. calls'[u].pc = "send" /\ SlotsFor(calls'[u].slots) = SlotsFor(bps')
        BY <3>2, <3>3, <4>1
      <4> QED
        BY <4>2 DEF NewestSent, SentLast
    <3>6. CASE NoneSending /\ inbox # <<>> /\ inbox[Len(inbox)].list = SlotsFor(bps)
      BY <1>1, <3>3, <3>6, <3>n DEF NewestSent, SentLast
    <3>7. CASE NoneSending /\ inbox = <<>> /\ list \in {<<>>, SlotsFor(bps)}
      BY <1>1, <3>3, <3>7, <3>n DEF NewestSent, SentLast
    <3> QED
      BY <3>4, <3>5, <3>6, <3>7 DEF BpInv, NewestSent, SentLast
  <2> QED
    BY <1>8, <2>5, <2>7, <2>8, <2>9 DEF BpInv
<1> QED
  BY <1>10, <1>11

\* removeBreakpoints in a thread that ends with it, or gives an execution up.
LEMMA RemovedKeeps ==
    ASSUME BpInv, NEW t \in Requests, NEW gone \in SUBSET bps, NEW call \in Calls, NEW then \in Thens,
           calls[t].pc \notin {"sync", "send", "wait"},
           RemoveBreakpoints(t, gone, call, then), UNCHANGED execMu,
           then = "done" \/ (then = "abort" /\ calls[t].pc = "unplace")
    PROVE  BpInv'
<1>1. /\ BpTypeOK' /\ NewestSent'
      /\ \A u \in Threads : u # t => calls'[u] = calls[u]
      /\ \/ calls'[t].pc = "sync" /\ calls'[t].then = then
         \/ calls'[t].pc = then
      /\ calls'[Configure] = calls[Configure]
      /\ bps' = bps \ gone
      /\ UNCHANGED <<nextBP, initialized, syncMu, seq, inbox, list>>
  BY RemoveShared
<1>2. /\ \A u \in Threads : Executing(u)' => Executing(u)
      /\ TargetsKept
  BY <1>1 DEF Executing, ToPlace, TargetsKept
<1>3. LocksHeld'
  <2>1. \A u \in Threads : calls'[u].pc \in {"send", "wait"} => calls[u].pc \in {"send", "wait"}
    BY <1>1
  <2>2. \A u \in Threads : calls'[u].pc = "remove" => calls[u].pc = "remove" /\ calls'[u].kind = calls[u].kind
    BY <1>1
  <2> QED
    BY <1>1, <1>2, <2>1, <2>2, LocksFrame DEF BpInv
<1>4. Temporaries'
  BY <1>1, <1>2, TemporariesFrame DEF BpInv
<1> QED
  BY <1>1, <1>3, <1>4 DEF BpInv

\* RemoveBreakpoint of an id, found: nothing is changed yet.
LEMMA FindBreakpointKeeps ==
    ASSUME BpInv, NEW t \in Requests, NEW c \in Clients, NEW b \in bps, NEW force \in BOOLEAN,
           FindBreakpoint(t, c, b, force)
    PROVE  BpInv'
<1> DEFINE new == [Begin(t, "remove", c) EXCEPT !.pc = "remove", !.temp = b.id]
<1>1. calls[t] = Idle /\ calls[t].pc = "idle" /\ t \in Threads /\ t # Configure
  BY Parts, BeginCall DEF FindBreakpoint, May
<1>2. new \in Calls /\ new.pc = "remove" /\ new.kind = "remove"
  <2>1. Begin(t, "remove", c) \in Calls /\ Begin(t, "remove", c).kind = "remove"
    BY BeginCall
  <2>2. b.id \in Nat /\ "remove" \in Pcs
    BY Parts DEF Breakpoint, Pcs
  <2> QED
    BY <2>1, <2>2 DEF Calls
<1>3. Set(t, new)
  BY DEF FindBreakpoint
<1> HIDE DEF new
<1>4. /\ calls' \in [Threads -> Calls] /\ calls'[t] = new
      /\ \A u \in Threads : u # t => calls'[u] = calls[u]
  BY <1>1, <1>2, <1>3, SetCall, Parts
<1>f. UNCHANGED <<bps, nextBP, initialized, syncMu, execMu, seq, inbox, list, resolved, stream, refusals>>
  BY DEF FindBreakpoint, sessionVars, adapterVars, boundVars
<1>5. BpTypeOK'
  BY <1>4, <1>f DEF BpInv, BpTypeOK
<1>8. /\ \A u \in Threads : Executing(u)' => Executing(u)
      /\ TargetsKept
  BY <1>2, <1>4 DEF Executing, ToPlace, TargetsKept
<1>9. LocksHeld'
  <2>1. \A u \in Threads : calls'[u].pc \in {"send", "wait"} => u # t /\ calls[u].pc \in {"send", "wait"}
    BY <1>2, <1>4
  <2>2. \A u \in Threads : Executing(u)' => execMu' = u
    BY <1>8, <1>f DEF BpInv, LocksHeld
  <2>3. \A u \in Threads : calls'[u].pc = "remove" => calls'[u].kind = "remove"
    BY <1>2, <1>4 DEF BpInv, LocksHeld
  <2>4. calls'[Configure] = calls[Configure]
    BY <1>1, <1>4, Parts
  <2> QED
    BY <1>f, <2>1, <2>2, <2>3, <2>4 DEF BpInv, LocksHeld
<1>10. Temporaries'
  BY <1>8, <1>f, TemporariesFrame DEF BpInv
<1>11. NewestSent'
  <2>1. /\ \A u \in Threads : calls[u].pc = "sync" => calls'[u].pc = "sync"
        /\ \A u \in Threads : (calls'[u].pc = "send") = (calls[u].pc = "send")
        /\ \A u \in Threads : calls[u].pc = "send" => calls'[u].slots = calls[u].slots
        /\ calls[Configure] = Idle => calls'[Configure] = Idle
    BY <1>1, <1>2, <1>4, Parts
  <2> QED
    BY <1>f, <2>1, NewestFrame DEF BpInv
<1> QED
  BY <1>5, <1>9, <1>10, <1>11 DEF BpInv

\* ... and removed: the thread that took it away is a removal.
LEMMA RemoveBreakpointKeeps ==
    ASSUME BpInv, NEW t \in Requests, RemoveBreakpoint(t)
    PROVE  BpInv' /\ PermanentStep
<1> DEFINE gone == {b \in bps : b.id = calls[t].temp}
           call == [calls[t] EXCEPT !.temp = 0]
<1>1. t \in Threads /\ calls[t] \in Calls /\ calls[t].pc = "remove" /\ calls[t].kind = "remove"
  BY Parts DEF RemoveBreakpoint, BpInv, LocksHeld
<1>2. call \in Calls /\ call.kind = "remove"
  BY <1>1 DEF Calls
<1>3. RemoveBreakpoints(t, gone, call, "done") /\ UNCHANGED execMu /\ gone \subseteq bps /\ "done" \in Thens
  BY DEF RemoveBreakpoint, Thens
<1> HIDE DEF gone, call
<1>4. /\ calls'[t].kind = "remove"
      /\ calls'[t].pc = "sync" \/ calls'[t].pc = "done"
  BY <1>1, <1>2, <1>3, RemoveShared
<1>5. BpInv'
  BY <1>1, <1>2, <1>3, RemovedKeeps
<1> QED
  BY <1>1, <1>4, <1>5 DEF PermanentStep

\* RemoveBreakpoint of all.
LEMMA RemoveAllKeeps ==
    ASSUME BpInv, NEW t \in Requests, NEW c \in Clients, NEW force \in BOOLEAN, RemoveAll(t, c, force)
    PROVE  BpInv' /\ PermanentStep
<1> DEFINE call == Begin(t, "remove", c)
<1>1. calls[t] = Idle /\ calls[t].pc = "idle" /\ calls[t].kind = "none"
  BY BeginCall DEF RemoveAll, May
<1>2. call \in Calls /\ call.kind = "remove" /\ call.client = c /\ "done" \in Thens
  BY BeginCall DEF Thens
<1>3. PICK gone \in SUBSET bps : RemoveBreakpoints(t, gone, call, "done")
  BY DEF RemoveAll
<1>4. UNCHANGED execMu
  BY DEF RemoveAll
<1> HIDE DEF call
<1>5. calls'[t].kind = "remove" /\ calls'[t].client = c
  BY <1>1, <1>2, <1>3, RemoveShared
<1>6. BpInv'
  BY <1>1, <1>2, <1>3, <1>4, RemovedKeeps
<1> QED
  BY <1>1, <1>5, <1>6 DEF PermanentStep

\* leave: what the client's editor had set.
LEMMA LeaveKeeps ==
    ASSUME BpInv, NEW t \in Requests, NEW c \in Clients, Leave(t, c)
    PROVE  BpInv' /\ PermanentStep
<1> DEFINE gone == {b \in bps : b.owner = c /\ b.editor /\ ~b.temp}
           call == Begin(t, "leave", c)
<1>1. calls[t] = Idle /\ calls[t].pc = "idle" /\ calls[t].kind = "none"
  BY BeginCall DEF Leave, May
<1>2. call \in Calls /\ call.kind = "leave" /\ call.client = c
  BY BeginCall
<1>3. RemoveBreakpoints(t, gone, call, "done") /\ UNCHANGED execMu /\ gone \subseteq bps /\ "done" \in Thens
  BY DEF Leave, Thens
<1> HIDE DEF gone, call
<1>4. calls'[t].kind = "leave" /\ calls'[t].client = c /\ bps' = bps \ gone
  BY <1>1, <1>2, <1>3, RemoveShared
<1>5. BpInv'
  BY <1>1, <1>2, <1>3, RemovedKeeps
<1>6. \A b \in bps : b.id \notin IdsOf(bps') => b.owner = c /\ b.editor
  BY <1>4 DEF gone, IdsOf
<1> QED
  BY <1>1, <1>4, <1>5, <1>6 DEF PermanentStep

----------------------------------------------------------------------------
(***************************************************************************)
(* Executions.                                                             *)
(***************************************************************************)

\* An execution begins with no temporary breakpoint, and alone.
LEMMA ExecuteKeeps ==
    ASSUME BpInv, NEW t \in Requests, NEW c \in Clients, NEW line \in Lines \cup {0}, NEW cond \in Conds,
           Execute(t, c, line, cond)
    PROVE  BpInv' /\ PermanentStep
<1> DEFINE gone == {b \in bps : b.temp}
           call == [Begin(t, "execute", c) EXCEPT !.line = line, !.cond = cond]
           then == IF line = 0 THEN "execute" ELSE "place"
<1>1. /\ calls[t] = Idle /\ calls[t].pc = "idle" /\ execMu = None /\ execMu' = t /\ initialized
      /\ t \in Threads /\ None \notin Threads
  BY BeginCall, Parts DEF Execute, May
<1>2. call \in Calls /\ call.kind = "execute" /\ call.client = c /\ call.line = line
  <2>1. /\ Begin(t, "execute", c) \in Calls /\ Begin(t, "execute", c).kind = "execute"
        /\ Begin(t, "execute", c).client = c
    BY BeginCall
  <2> QED
    BY <2>1 DEF Calls
<1>3. RemoveBreakpoints(t, gone, call, then) /\ gone \subseteq bps
  BY DEF Execute, Leftovers
<1>4. then \in Thens /\ then \in {"execute", "place"} /\ (then = "place" => line \in Lines)
  BY DEF Thens
<1> HIDE DEF call, then
<1>5. /\ BpTypeOK' /\ NewestSent'
      /\ \A u \in Threads : u # t => calls'[u] = calls[u]
      /\ calls'[t].kind = call.kind /\ calls'[t].client = call.client
      /\ \/ calls'[t].pc = "sync" /\ calls'[t].then = then
         \/ calls'[t].pc = then
      /\ calls'[Configure] = calls[Configure]
      /\ bps' = bps \ gone
      /\ UNCHANGED <<nextBP, initialized, syncMu, seq, inbox, list>>
  BY <1>1, <1>2, <1>3, <1>4, RemoveShared
<1>6. then = "place" => calls'[t].line = line
  <2>1. Set(t, IF gone # {} THEN Syncing(call, then) ELSE GoTo(call, then))
    BY <1>3 DEF RemoveBreakpoints
  <2>2. Syncing(call, then).line = call.line
    BY <1>2, <1>4 DEF Syncing, Calls
  <2>3. then = "place" => GoTo(call, then).line = call.line
    BY <1>2, <1>4 DEF GoTo, Calls
  <2>4. calls'[t] = IF gone # {} THEN Syncing(call, then) ELSE GoTo(call, then)
    BY <1>1, <2>1, Parts DEF Set
  <2> QED
    BY <1>2, <2>2, <2>3, <2>4
<1>7. \A u \in Threads : u # t => ~Executing(u)' /\ ~ToPlace(u)'
  <2>1. \A u \in Threads : ~Executing(u)
    BY <1>1 DEF BpInv, LocksHeld
  <2> QED
    BY <1>5, <2>1 DEF Executing, ToPlace
<1>8. LocksHeld'
  <2>1. \A u \in Threads : calls'[u].pc \in {"send", "wait"} => calls[u].pc \in {"send", "wait"} /\ u # t
    BY <1>4, <1>5
  <2>2. \A u \in Threads : Executing(u)' => execMu' = u
    BY <1>1, <1>7
  <2>3. \A u \in Threads : calls'[u].pc = "remove" => calls'[u].kind = "remove"
    BY <1>4, <1>5 DEF BpInv, LocksHeld
  <2> QED
    BY <1>1, <1>5, <2>1, <2>2, <2>3 DEF BpInv, LocksHeld
<1>9. Temporaries'
  <2>1. \A b \in bps' : ~b.temp
    BY <1>5
  <2>2. ToPlace(t)' => calls'[t].client \in Clients /\ calls'[t].line \in Lines
    BY <1>2, <1>4, <1>5, <1>6 DEF ToPlace
  <2> QED
    BY <1>7, <2>1, <2>2 DEF Temporaries
<1>10. PermanentStep
  BY <1>5 DEF PermanentStep, IdsOf
<1> QED
  BY <1>5, <1>8, <1>9, <1>10 DEF BpInv

\* placeTarget: the one temporary breakpoint, placed where there was none.
LEMMA PlaceTargetKeeps ==
    ASSUME BpInv, NEW t \in Requests, PlaceTarget(t)
    PROVE  BpInv' /\ IdsOf(bps) \subseteq IdsOf(bps')
<1> DEFINE c   == calls[t]
           own == {b \in bps : b.owner = c.client /\ b.req = c.line /\ ~b.log}
<1>1. /\ t \in Threads /\ t # Configure /\ c \in Calls /\ c.pc = "place"
      /\ c.cond \in Conds /\ nextBP \in Nat
  BY Parts, CallFields DEF PlaceTarget
<1>2. /\ execMu = t /\ \A b \in bps : ~b.temp
      /\ c.client \in Clients /\ c.line \in Lines
      /\ \A u \in Threads : u # t => ~Executing(u) /\ ~ToPlace(u)
  <2>1. \A u \in Threads : ToPlace(u) => Executing(u)
    BY DEF ToPlace, Executing
  <2> QED
    BY <1>1, <2>1 DEF BpInv, LocksHeld, Temporaries, ToPlace
<1>f. UNCHANGED <<initialized, syncMu, execMu, seq, inbox, list, resolved, stream, refusals>>
  BY DEF PlaceTarget, adapterVars, boundVars
<1>3. CASE own # {}
  <2> DEFINE new == [c EXCEPT !.pc = "execute"]
  <2>1. new \in Calls /\ new.pc = "execute" /\ new.kind = c.kind
    BY <1>1 DEF Calls, Pcs
  <2>2. Set(t, new) /\ bps' = bps /\ nextBP' = nextBP
    BY <1>3 DEF PlaceTarget
  <2> HIDE DEF new
  <2>3. /\ calls' \in [Threads -> Calls] /\ calls'[t] = new
        /\ \A u \in Threads : u # t => calls'[u] = calls[u]
    BY <1>1, <2>1, <2>2, SetCall, Parts
  <2>4. BpTypeOK'
    BY <1>f, <2>2, <2>3 DEF BpInv, BpTypeOK
  <2>5. /\ \A u \in Threads : Executing(u)' => Executing(u)
        /\ TargetsKept
    BY <1>1, <2>1, <2>3 DEF Executing, ToPlace, TargetsKept
  <2>6. /\ \A u \in Threads : calls[u].pc = "sync" => calls'[u].pc = "sync"
        /\ \A u \in Threads : (calls'[u].pc = "send") = (calls[u].pc = "send")
        /\ \A u \in Threads : calls[u].pc = "send" => calls'[u].slots = calls[u].slots
        /\ calls[Configure] = Idle => calls'[Configure] = Idle
    BY <1>1, <2>1, <2>3, Parts
  <2>7. LocksHeld'
    <3>1. \A u \in Threads : calls'[u].pc \in {"send", "wait"} => calls[u].pc \in {"send", "wait"}
      BY <2>1, <2>3
    <3>2. \A u \in Threads : calls'[u].pc = "remove" => calls[u].pc = "remove" /\ calls'[u].kind = calls[u].kind
      BY <2>1, <2>3
    <3> QED
      BY <1>f, <2>5, <2>6, <3>1, <3>2, LocksFrame DEF BpInv
  <2>8. Temporaries'
    BY <2>2, <2>5, TemporariesFrame DEF BpInv
  <2>9. NewestSent'
    BY <1>f, <2>2, <2>6, NewestFrame DEF BpInv
  <2> QED
    BY <2>2, <2>4, <2>7, <2>8, <2>9 DEF BpInv
<1>4. CASE own = {}
  <2>1. PICK i \in Nat : i = nextBP + 1
    BY <1>1
  <2> DEFINE n   == [NewBreakpoint(i, c.client, c.line, c.cond, FALSE) EXCEPT !.temp = TRUE]
             new == [Syncing(c, "execute") EXCEPT !.temp = i]
  <2>2. Set(t, new) /\ bps' = bps \cup {n} /\ nextBP' = i
    BY <1>4, <2>1 DEF PlaceTarget
  <2>3. n \in Breakpoint
    BY <1>1, <1>2, NewType
  <2>4. new \in Calls /\ new.pc = "sync" /\ new.then = "execute" /\ new.kind = c.kind
    <3>1. /\ Syncing(c, "execute") \in Calls /\ Syncing(c, "execute").pc = "sync"
          /\ Syncing(c, "execute").then = "execute" /\ Syncing(c, "execute").kind = c.kind
      BY <1>1, SyncingCall DEF Thens
    <3> QED
      BY <3>1 DEF Calls
  <2> HIDE DEF n, new
  <2>5. /\ calls' \in [Threads -> Calls] /\ calls'[t] = new
        /\ \A u \in Threads : u # t => calls'[u] = calls[u]
    BY <1>1, <2>2, <2>4, SetCall, Parts
  <2>6. BpTypeOK'
    BY <1>f, <2>2, <2>3, <2>5 DEF BpInv, BpTypeOK
  <2>7. \A u \in Threads : ~ToPlace(u)' /\ (Executing(u)' => u = t)
    BY <1>2, <2>4, <2>5 DEF Executing, ToPlace
  <2>8. LocksHeld'
    <3>1. \A u \in Threads : calls'[u].pc \in {"send", "wait"} => u # t /\ calls[u].pc \in {"send", "wait"}
      BY <2>4, <2>5
    <3>2. \A u \in Threads : calls'[u].pc = "remove" => calls'[u].kind = "remove"
      BY <2>4, <2>5 DEF BpInv, LocksHeld
    <3>3. calls'[Configure] = calls[Configure]
      BY <1>1, <2>5, Parts
    <3> QED
      BY <1>2, <1>f, <2>7, <3>1, <3>2, <3>3 DEF BpInv, LocksHeld
  <2>9. Temporaries'
    BY <1>2, <2>2, <2>7 DEF Temporaries
  <2>10. NewestSent'
    BY <1>1, <2>4, <2>5 DEF NewestSent
  <2> QED
    BY <2>2, <2>6, <2>8, <2>9, <2>10 DEF BpInv, IdsOf
<1> QED
  BY <1>3, <1>4

\* The request is sent: execMu is let go, and nobody else was executing.
LEMMA ExecuteSendKeeps ==
    ASSUME BpInv, NEW t \in Requests, NEW ok \in BOOLEAN, ExecuteSend(t, ok)
    PROVE  BpInv'
<1> DEFINE p   == IF ok THEN "running" ELSE "unplace"
           new == [calls[t] EXCEPT !.pc = p]
<1>1. t \in Threads /\ t # Configure /\ calls[t] \in Calls /\ calls[t].pc = "execute"
  BY Parts DEF ExecuteSend
<1>2. p \in {"running", "unplace"} /\ p \in Pcs /\ (p = "unplace" => ~ok)
  BY DEF Pcs
<1>3. Set(t, new)
  BY DEF ExecuteSend
<1>m. execMu' = IF ok THEN None ELSE execMu
  BY DEF ExecuteSend
<1> HIDE DEF p
<1>4. new \in Calls /\ new.pc = p /\ new.kind = calls[t].kind
  BY <1>1, <1>2 DEF Calls
<1> HIDE DEF new
<1>5. /\ calls' \in [Threads -> Calls] /\ calls'[t] = new
      /\ \A u \in Threads : u # t => calls'[u] = calls[u]
  BY <1>1, <1>3, <1>4, SetCall, Parts
<1>f. UNCHANGED <<bps, nextBP, initialized, syncMu, seq, inbox, list, resolved, stream, refusals>>
  BY DEF ExecuteSend, adapterVars, boundVars
<1>6. BpTypeOK'
  BY <1>5, <1>f DEF BpInv, BpTypeOK
<1>7. /\ execMu = t
      /\ \A u \in Threads : u # t => ~Executing(u)
  BY <1>1 DEF BpInv, LocksHeld, Executing
<1>8. /\ \A u \in Threads : Executing(u)' => u = t /\ ~ok
      /\ TargetsKept
  BY <1>2, <1>4, <1>5, <1>7 DEF Executing, ToPlace, TargetsKept
<1>9. /\ \A u \in Threads : calls[u].pc = "sync" => calls'[u].pc = "sync"
      /\ \A u \in Threads : (calls'[u].pc = "send") = (calls[u].pc = "send")
      /\ \A u \in Threads : calls[u].pc = "send" => calls'[u].slots = calls[u].slots
      /\ calls'[Configure] = calls[Configure]
  BY <1>1, <1>2, <1>4, <1>5, Parts
<1>10. LocksHeld'
  <2>1. \A u \in Threads : calls'[u].pc \in {"send", "wait"} => u # t /\ calls[u].pc \in {"send", "wait"}
    BY <1>2, <1>4, <1>5
  <2>2. \A u \in Threads : Executing(u)' => execMu' = u
    BY <1>7, <1>8, <1>m
  <2>3. \A u \in Threads : calls'[u].pc = "remove" => calls'[u].kind = "remove"
    BY <1>2, <1>4, <1>5 DEF BpInv, LocksHeld
  <2> QED
    BY <1>9, <1>f, <2>1, <2>2, <2>3 DEF BpInv, LocksHeld
<1>11. Temporaries'
  BY <1>8, <1>f, TemporariesFrame DEF BpInv
<1>12. NewestSent'
  BY <1>9, <1>f, NewestFrame DEF BpInv
<1> QED
  BY <1>6, <1>10, <1>11, <1>12 DEF BpInv

\* The removal of run-until's own breakpoint: it goes only while temporary.
LEMMA UnplaceKeeps ==
    ASSUME BpInv, NEW t \in Requests, NEW then \in {"abort", "done"},
           calls[t].pc = (IF then = "abort" THEN "unplace" ELSE "stopped"),
           RemoveBreakpoints(t, StillTemporary(calls[t].temp), [calls[t] EXCEPT !.temp = 0], then),
           UNCHANGED execMu
    PROVE  BpInv' /\ PermanentStep
<1> DEFINE gone == StillTemporary(calls[t].temp)
           call == [calls[t] EXCEPT !.temp = 0]
<1>1. t \in Threads /\ calls[t] \in Calls
  BY Parts
<1>2. call \in Calls
  BY <1>1 DEF Calls
<1>3. gone \subseteq bps /\ (\A b \in gone : b.temp) /\ then \in Thens
  BY DEF StillTemporary, Thens
<1>p. /\ calls[t].pc \notin {"sync", "send", "wait"}
      /\ then = "done" \/ (then = "abort" /\ calls[t].pc = "unplace")
  OBVIOUS
<1> HIDE DEF gone, call
<1>4. RemoveBreakpoints(t, gone, call, then)
  BY DEF gone, call
<1>5. bps' = bps \ gone
  BY <1>4 DEF RemoveBreakpoints
<1>6. BpInv'
  BY <1>2, <1>3, <1>4, <1>p, RemovedKeeps
<1>7. PermanentStep
  BY <1>3, <1>5 DEF PermanentStep, IdsOf
<1> QED
  BY <1>6, <1>7

\* A thread that ends, with execMu or without.
LEMMA EndedKeeps ==
    ASSUME BpInv, NEW t \in Requests, calls[t].pc \in {"abort", "running"}, Set(t, Ended(calls[t])),
           execMu' = IF calls[t].pc = "abort" THEN None ELSE execMu,
           UNCHANGED <<bps, nextBP, initialized, syncMu, seq, inbox, list, resolved, stream, refusals>>
    PROVE  BpInv'
<1> DEFINE new == Ended(calls[t])
<1>1. t \in Threads /\ t # Configure /\ calls[t] \in Calls
  BY Parts
<1>2. new \in Calls /\ new.pc = "done"
  <2>1. "done" \in Pcs
    BY DEF Pcs
  <2> QED
    BY <1>1, <2>1, GoToCall
<1> HIDE DEF new
<1>5. /\ calls' \in [Threads -> Calls] /\ calls'[t] = new
      /\ \A u \in Threads : u # t => calls'[u] = calls[u]
  BY <1>1, <1>2, SetCall, Parts DEF new
<1>6. BpTypeOK'
  BY <1>5 DEF BpInv, BpTypeOK
<1>8. /\ \A u \in Threads : Executing(u)' => Executing(u) /\ u # t
      /\ TargetsKept
  BY <1>2, <1>5 DEF Executing, ToPlace, TargetsKept
<1>9. /\ \A u \in Threads : calls[u].pc = "sync" => calls'[u].pc = "sync"
      /\ \A u \in Threads : (calls'[u].pc = "send") = (calls[u].pc = "send")
      /\ \A u \in Threads : calls[u].pc = "send" => calls'[u].slots = calls[u].slots
      /\ calls'[Configure] = calls[Configure]
  BY <1>1, <1>2, <1>5, Parts
<1>10. LocksHeld'
  <2>1. \A u \in Threads : calls'[u].pc \in {"send", "wait"} => u # t /\ calls[u].pc \in {"send", "wait"}
    BY <1>2, <1>5
  <2>2. \A u \in Threads : Executing(u)' => execMu' = u
    <3>1. CASE calls[t].pc = "abort"
      <4>1. execMu = t
        BY <1>1, <3>1 DEF BpInv, LocksHeld, Executing
      <4> QED
        BY <1>8, <4>1 DEF BpInv, LocksHeld
    <3>2. CASE calls[t].pc # "abort"
      BY <1>8, <3>2 DEF BpInv, LocksHeld
    <3> QED
      BY <3>1, <3>2
  <2>3. \A u \in Threads : calls'[u].pc = "remove" => calls'[u].kind = "remove"
    BY <1>2, <1>5 DEF BpInv, LocksHeld
  <2> QED
    BY <1>9, <2>1, <2>2, <2>3 DEF BpInv, LocksHeld
<1>11. Temporaries'
  BY <1>8, TemporariesFrame DEF BpInv
<1>12. NewestSent'
  BY <1>9, NewestFrame DEF BpInv
<1> QED
  BY <1>6, <1>10, <1>11, <1>12 DEF BpInv

\* What a request's thread does next.
LEMMA ProceedKeeps ==
    ASSUME BpInv, NEW t \in Requests, Proceed(t)
    PROVE  BpInv' /\ PermanentStep
<1>i. IdsOf(bps) \subseteq IdsOf(bps') => PermanentStep
  BY DEF PermanentStep, IdsOf
<1>1. CASE RemoveBreakpoint(t)
  BY <1>1, RemoveBreakpointKeeps
<1>2. CASE PlaceTarget(t)
  BY <1>2, <1>i, PlaceTargetKeeps
<1>3. CASE Unplace(t)
  BY <1>3, UnplaceKeeps DEF Unplace
<1>4. CASE Abort(t)
  <2>1. /\ calls[t].pc = "abort" /\ Set(t, Ended(calls[t])) /\ execMu' = None
        /\ UNCHANGED <<bps, nextBP, initialized, syncMu, seq, inbox, list, resolved, stream, refusals>>
    BY <1>4 DEF Abort, sessionVars, adapterVars, boundVars
  <2> QED
    BY <1>i, <2>1, EndedKeeps
<1>5. ASSUME NEW ok \in BOOLEAN, ExecuteSend(t, ok)
      PROVE  BpInv' /\ PermanentStep
  BY <1>5, <1>i, ExecuteSendKeeps DEF ExecuteSend
<1>6. CASE RunUntilStopped(t)
  BY <1>6, UnplaceKeeps DEF RunUntilStopped
<1>7. CASE WaitTimeout(t)
  <2>1. /\ calls[t].pc = "running" /\ Set(t, Ended(calls[t])) /\ execMu' = execMu
        /\ UNCHANGED <<bps, nextBP, initialized, syncMu, seq, inbox, list, resolved, stream, refusals>>
    BY <1>7 DEF WaitTimeout, sessionVars, adapterVars, boundVars
  <2> QED
    BY <1>i, <2>1, EndedKeeps
<1> QED
  BY <1>1, <1>2, <1>3, <1>4, <1>5, <1>6, <1>7 DEF Proceed

\* A new request.
LEMMA RequestKeeps ==
    ASSUME BpInv, NEW t \in Requests, Request(t)
    PROVE  BpInv' /\ PermanentStep
<1>i. IdsOf(bps) \subseteq IdsOf(bps') => PermanentStep
  BY DEF PermanentStep, IdsOf
<1>1. ASSUME NEW c \in Clients, NEW spec \in Specs, AddBreakpoint(t, c, spec.line, spec.cond, spec.log)
      PROVE  BpInv' /\ PermanentStep
  BY <1>1, <1>i, AddBreakpointKeeps
<1>2. ASSUME NEW c \in Clients, NEW items \in Lists, Replace(t, c, items)
      PROVE  BpInv' /\ PermanentStep
  BY <1>2, ReplaceKeeps
<1>3. ASSUME NEW c \in Clients, NEW b \in bps, NEW force \in BOOLEAN, FindBreakpoint(t, c, b, force)
      PROVE  BpInv' /\ PermanentStep
  BY <1>3, <1>i, FindBreakpointKeeps DEF FindBreakpoint, sessionVars
<1>4. ASSUME NEW c \in Clients, NEW force \in BOOLEAN, RemoveAll(t, c, force)
      PROVE  BpInv' /\ PermanentStep
  BY <1>4, RemoveAllKeeps
<1>5. ASSUME NEW c \in Clients, Leave(t, c)
      PROVE  BpInv' /\ PermanentStep
  BY <1>5, LeaveKeeps
<1>6. ASSUME NEW c \in Clients, Execute(t, c, 0, "")
      PROVE  BpInv' /\ PermanentStep
  BY <1>6, ExecuteKeeps, BreakpointsAssumption
<1>7. ASSUME NEW c \in Clients, NEW spec \in Specs, Execute(t, c, spec.line, spec.cond)
      PROVE  BpInv' /\ PermanentStep
  <2>1. spec.line \in Lines \cup {0} /\ spec.cond \in Conds
    BY BreakpointsAssumption
  <2> QED
    BY <1>7, <2>1, ExecuteKeeps
<1> QED
  BY <1>1, <1>2, <1>3, <1>4, <1>5, <1>6, <1>7 DEF Request

\* syncBreakpoints: what it does to a breakpoint leaves its id.
LEMMA SyncKeeps ==
    ASSUME BpInv, NEW t \in Threads, Sync(t)
    PROVE  BpInv' /\ PermanentStep
<1>i. IdsOf(bps) \subseteq IdsOf(bps') => PermanentStep
  BY DEF PermanentStep, IdsOf
<1>1. CASE SyncSkip(t)
  BY <1>1, <1>i, SyncSkipKeeps DEF SyncSkip, sessionVars
<1>2. CASE SyncStart(t)
  BY <1>2, <1>i, SyncStartKeeps DEF SyncStart, sessionVars
<1>3. CASE SyncSend(t)
  BY <1>3, <1>i, SyncSendKeeps DEF SyncSend, sessionVars
<1>4. CASE SyncTimeout(t)
  BY <1>4, <1>i, SyncTimeoutKeeps DEF SyncTimeout, sessionVars
<1>5. CASE SyncEnd(t)
  <2>1. bps \subseteq Breakpoint /\ calls[t].lines \subseteq Lines
    BY Parts, CallFields
  <2>2. bps' = bps \/ ApplySlots(calls[t].slots, calls[t].lines)
    BY <1>5 DEF SyncEnd
  <2>3. IdsOf(bps') = IdsOf(bps)
    BY <2>1, <2>2, ApplySame
  <2> QED
    BY <1>5, <1>i, <2>3, SyncEndKeeps
<1> QED
  BY <1>1, <1>2, <1>3, <1>4, <1>5 DEF Sync

----------------------------------------------------------------------------
(***************************************************************************)
(* The adapter.                                                            *)
(***************************************************************************)

\* The adapter takes the oldest list: the newest one becomes what it keeps, or
\* is still among those it has not taken.
LEMMA AdapterTakesKeeps ==
    ASSUME BpInv, AdapterTakes
    PROVE  BpInv'
<1> DEFINE m == Head(inbox)
           S == [id : Nat, list : SlotLists]
<1>1. /\ inbox \in Seq(S) /\ inbox # <<>> /\ inbox' = Tail(inbox)
      /\ stream \in Seq(Messages) /\ resolved \subseteq Lines /\ list \in SlotLists /\ refusals \in Nat
  BY DEF AdapterTakes, BpInv, BpTypeOK
<1>2. m \in [id : Nat, list : SlotLists] /\ m.id \in Nat /\ m.list \in SlotLists
  <2>1. m \in S
    <3> HIDE DEF S
    <3> QED
      BY <1>1
  <2> HIDE DEF m
  <2> QED
    BY <2>1
<1>3. DOMAIN m.list \subseteq Lines
  BY <1>2 DEF SlotLists
<1>f. UNCHANGED <<bps, nextBP, initialized, calls, syncMu, execMu, seq>>
  BY DEF AdapterTakes, sessionVars, threadVars
<1>4. initialized
  BY <1>1 DEF BpInv, LocksHeld
<1>5. \/ /\ list' = m.list /\ resolved' \subseteq Lines
         /\ stream' = Append(stream, [msg |-> "response", id |-> m.id, ok |-> TRUE, lines |-> resolved'])
         /\ refusals' = refusals
      \/ /\ refusals' = refusals + 1 /\ list' = list /\ resolved' = resolved
         /\ stream' = Append(stream, [msg |-> "response", id |-> m.id, ok |-> FALSE, lines |-> {}])
  BY <1>1, <1>3 DEF AdapterTakes
<1>6. BpTypeOK'
  <2>1. inbox' \in Seq([id : Nat, list : SlotLists])
    BY <1>1
  <2>2. /\ list' \in SlotLists /\ resolved' \subseteq Lines /\ refusals' \in Nat
    BY <1>1, <1>2, <1>5
  <2>3. stream' \in Seq(Messages)
    <3>1. \E ok \in BOOLEAN, lines \in SUBSET Lines :
              stream' = Append(stream, [msg |-> "response", id |-> m.id, ok |-> ok, lines |-> lines])
      BY <1>5, <2>2
    <3> HIDE DEF m
    <3>2. PICK ok \in BOOLEAN, lines \in SUBSET Lines :
              stream' = Append(stream, [msg |-> "response", id |-> m.id, ok |-> ok, lines |-> lines])
      BY <3>1
    <3>3. [msg |-> "response", id |-> m.id, ok |-> ok, lines |-> lines] \in Messages
      BY <1>2 DEF Messages
    <3> QED
      BY <1>1, <3>2, <3>3
  <2> QED
    BY <1>f, <2>1, <2>2, <2>3 DEF BpInv, BpTypeOK
<1>7. LocksHeld'
  BY <1>4, <1>f DEF BpInv, LocksHeld, Executing
<1>8. Temporaries'
  BY <1>f DEF BpInv, Temporaries, ToPlace
<1>9. NewestSent'
  <2> SUFFICES ASSUME refusals' = 0 PROVE NewestSent'
    BY DEF NewestSent
  <2>1. refusals = 0 /\ list' = m.list
    BY <1>1, <1>5
  <2>2. CASE \E u \in Threads : calls[u].pc = "sync"
    BY <1>f, <2>2 DEF NewestSent
  <2>3. CASE \E u \in Threads : calls[u].pc = "send" /\ SlotsFor(calls[u].slots) = SlotsFor(bps)
    BY <1>f, <2>3 DEF NewestSent, SentLast
  <2>4. CASE NoneSending /\ inbox[Len(inbox)].list = SlotsFor(bps)
    <3>n. NoneSending'
      BY <1>f, <2>4 DEF NoneSending
    <3>1. CASE Tail(inbox) = <<>>
      <4>1. Head(inbox) = inbox[Len(inbox)]
        <5>1. Len(inbox) = 1
          <6> HIDE DEF S
          <6>1. Len(inbox) \in Nat /\ Len(inbox) # 0 /\ Len(Tail(inbox)) = Len(inbox) - 1
            BY <1>1
          <6> QED
            BY <3>1, <6>1
        <5> QED
          BY <1>1, <5>1
      <4> QED
        BY <1>1, <1>f, <2>1, <2>4, <3>1, <3>n, <4>1 DEF NewestSent, SentLast
    <3>2. CASE Tail(inbox) # <<>>
      <4>1. Tail(inbox)[Len(Tail(inbox))] = inbox[Len(inbox)]
        BY <1>1, <3>2
      <4> QED
        BY <1>1, <1>f, <2>4, <3>2, <3>n, <4>1 DEF NewestSent, SentLast
    <3> QED
      BY <3>1, <3>2
  <2> QED
    BY <1>1, <2>1, <2>2, <2>3, <2>4 DEF BpInv, NewestSent, SentLast
<1> QED
  BY <1>6, <1>7, <1>8, <1>9 DEF BpInv

\* It resolves another line.
LEMMA AdapterResolvesKeeps ==
    ASSUME BpInv, NEW l \in Lines, AdapterResolves(l)
    PROVE  BpInv'
<1>1. /\ stream \in Seq(Messages) /\ resolved \subseteq Lines
      /\ stream' = Append(stream, [msg |-> "breakpoint", id |-> 0, ok |-> TRUE, lines |-> {l}])
      /\ resolved' = resolved \cup {l}
  BY DEF AdapterResolves, BpInv, BpTypeOK
<1>f. UNCHANGED <<bps, nextBP, initialized, calls, syncMu, execMu, seq, inbox, list, refusals>>
  BY DEF AdapterResolves, sessionVars, threadVars
<1>2. stream' \in Seq(Messages)
  <2>1. [msg |-> "breakpoint", id |-> 0, ok |-> TRUE, lines |-> {l}] \in Messages
    BY DEF Messages
  <2> QED
    BY <1>1, <2>1
<1>3. BpTypeOK'
  BY <1>1, <1>2, <1>f DEF BpInv, BpTypeOK
<1>4. LocksHeld'
  BY <1>f DEF BpInv, LocksHeld, Executing
<1>5. Temporaries'
  BY <1>f DEF BpInv, Temporaries, ToPlace
<1>6. NewestSent'
  BY <1>f, NewestFrame DEF BpInv
<1> QED
  BY <1>3, <1>4, <1>5, <1>6 DEF BpInv

\* It is initialized.
LEMMA AdapterInitializedKeeps ==
    ASSUME BpInv, AdapterInitialized
    PROVE  BpInv'
<1>f. UNCHANGED <<bps, nextBP, calls, syncMu, execMu, seq, inbox, list, resolved, stream, refusals>> /\ initialized'
  BY DEF AdapterInitialized, threadVars, adapterVars, boundVars
<1>3. BpTypeOK'
  BY <1>f DEF BpInv, BpTypeOK, AdapterInitialized
<1>4. LocksHeld'
  BY <1>f DEF BpInv, LocksHeld, Executing
<1>5. Temporaries'
  BY <1>f DEF BpInv, Temporaries, ToPlace
<1>6. NewestSent'
  BY <1>f, NewestFrame DEF BpInv
<1> QED
  BY <1>3, <1>4, <1>5, <1>6 DEF BpInv

\* The program stops: run-until's wait sees it.
LEMMA ProgramStopsKeeps ==
    ASSUME BpInv, ProgramStops
    PROVE  BpInv'
<1>1. ASSUME NEW u \in Threads
      PROVE  /\ calls'[u] \in Calls /\ calls'[u].kind = calls[u].kind
             /\ calls[u].pc # "running" => calls'[u] = calls[u]
             /\ calls[u].pc = "running" => calls'[u].pc = "stopped"
  <2>1. calls[u] \in Calls
    BY Parts
  <2>2. calls'[u] = IF calls[u].pc = "running" THEN [calls[u] EXCEPT !.pc = "stopped"] ELSE calls[u]
    BY DEF ProgramStops
  <2>3. CASE calls[u].pc = "running"
    BY <2>1, <2>2, <2>3 DEF Calls, Pcs
  <2>4. CASE calls[u].pc # "running"
    BY <2>1, <2>2, <2>4
  <2> QED
    BY <2>3, <2>4
<1>2. calls' \in [Threads -> Calls]
  BY <1>1 DEF ProgramStops
<1>f. UNCHANGED <<bps, nextBP, initialized, syncMu, execMu, seq, inbox, list, resolved, stream, refusals>>
  BY DEF ProgramStops, adapterVars, boundVars
<1>3. BpTypeOK'
  BY <1>2, <1>f DEF BpInv, BpTypeOK
<1>4. calls[Configure] = Idle => calls'[Configure] = Idle
  BY <1>1, Parts, BeginCall
<1>5. /\ \A u \in Threads : Executing(u)' => Executing(u)
      /\ TargetsKept
  BY <1>1 DEF Executing, ToPlace, TargetsKept
<1>6. LocksHeld'
  <2>1. \A u \in Threads : calls'[u].pc \in {"send", "wait"} => calls[u].pc \in {"send", "wait"}
    BY <1>1
  <2>2. \A u \in Threads : calls'[u].pc = "remove" => calls[u].pc = "remove" /\ calls'[u].kind = calls[u].kind
    BY <1>1
  <2> QED
    BY <1>4, <1>5, <1>f, <2>1, <2>2, LocksFrame DEF BpInv
<1>7. Temporaries'
  BY <1>5, <1>f, TemporariesFrame DEF BpInv
<1>8. NewestSent'
  <2>1. /\ \A u \in Threads : calls[u].pc = "sync" => calls'[u].pc = "sync"
        /\ \A u \in Threads : (calls'[u].pc = "send") = (calls[u].pc = "send")
        /\ \A u \in Threads : calls[u].pc = "send" => calls'[u].slots = calls[u].slots
    BY <1>1
  <2> QED
    BY <1>4, <1>f, <2>1, NewestFrame DEF BpInv
<1> QED
  BY <1>3, <1>6, <1>7, <1>8 DEF BpInv

----------------------------------------------------------------------------
(***************************************************************************)
(* The theorems.                                                           *)
(***************************************************************************)

\* Initially nothing was sent and nothing is to be.
LEMMA BpInit ==
    Init => BpInv
<1> SUFFICES ASSUME Init PROVE BpInv
  OBVIOUS
<1>1. Idle \in Calls /\ Idle.pc = "idle"
  BY BeginCall DEF Threads
<1>2. \A t \in Threads : calls[t] = Idle
  BY DEF Init
<1>3. BpTypeOK
  <2>1. list \in SlotLists /\ inbox \in Seq([id : Nat, list : SlotLists]) /\ stream \in Seq(Messages)
    BY SlotsForNone DEF Init
  <2>2. calls \in [Threads -> Calls]
    BY <1>1 DEF Init
  <2> QED
    BY <2>1, <2>2 DEF Init, BpTypeOK
<1>4. LocksHeld
  BY <1>1, <1>2 DEF Init, LocksHeld, Executing, Threads, Configure
<1>5. Temporaries
  BY <1>1, <1>2 DEF Init, Temporaries, ToPlace
<1>6. NewestSent
  BY <1>1, <1>2 DEF Init, NewestSent, NoneSending, Threads
<1> QED
  BY <1>3, <1>4, <1>5, <1>6 DEF BpInv

\* Every step keeps the invariant, and takes no permanent breakpoint away that
\* was not to go.
LEMMA BpNext ==
    ASSUME BpInv, Next
    PROVE  BpInv' /\ PermanentStep
<1>i. IdsOf(bps) \subseteq IdsOf(bps') => PermanentStep
  BY DEF PermanentStep, IdsOf
<1>1. ASSUME NEW t \in Requests, Request(t) \/ Proceed(t)
      PROVE  BpInv' /\ PermanentStep
  BY <1>1, RequestKeeps, ProceedKeeps
<1>2. ASSUME NEW t \in Threads, Sync(t)
      PROVE  BpInv' /\ PermanentStep
  BY <1>2, SyncKeeps
<1>3. CASE ConfigurationPhase
  BY <1>3, <1>i, ConfigurationKeeps
<1>4. CASE Deliver
  <2>1. bps \subseteq Breakpoint
    BY Parts
  <2>2. bps' = bps \/ OnBreakpoint(Head(stream))
    BY <1>4 DEF Deliver, OnResponse
  <2>3. IdsOf(bps') = IdsOf(bps)
    BY <2>1, <2>2, OnBreakpointSame
  <2> QED
    BY <1>4, <1>i, <2>3, DeliverKeeps
<1>5. CASE AdapterInitialized
  BY <1>5, <1>i, AdapterInitializedKeeps DEF AdapterInitialized
<1>6. CASE AdapterTakes
  BY <1>6, <1>i, AdapterTakesKeeps DEF AdapterTakes, sessionVars
<1>7. ASSUME NEW l \in Lines, AdapterResolves(l)
      PROVE  BpInv' /\ PermanentStep
  BY <1>7, <1>i, AdapterResolvesKeeps DEF AdapterResolves, sessionVars
<1>8. CASE ProgramStops
  BY <1>8, <1>i, ProgramStopsKeeps DEF ProgramStops
<1> QED
  BY <1>1, <1>2, <1>3, <1>4, <1>5, <1>6, <1>7, <1>8 DEF Next

\* A step that changes nothing.
LEMMA BpStutter ==
    ASSUME BpInv, UNCHANGED vars
    PROVE  BpInv'
<1>f. UNCHANGED <<bps, nextBP, initialized, calls, syncMu, execMu, seq, inbox, list, resolved, stream, refusals>>
  BY DEF vars, sessionVars, threadVars, adapterVars, boundVars
<1>1. BpTypeOK'
  BY <1>f DEF BpInv, BpTypeOK
<1>2. LocksHeld'
  BY <1>f DEF BpInv, LocksHeld, Executing
<1>3. Temporaries'
  BY <1>f DEF BpInv, Temporaries, ToPlace
<1>4. NewestSent'
  BY <1>f, NewestFrame DEF BpInv
<1> QED
  BY <1>1, <1>2, <1>3, <1>4 DEF BpInv

\* The inductive invariant of the breakpoints: types, who holds syncMu and
\* execMu, the one temporary breakpoint, and the list that was sent last.
THEOREM BreakpointsKept == Spec => []BpInv
<1>1. BpInv /\ [Next]_vars => BpInv'
  BY BpNext, BpStutter
<1> QED
  BY <1>1, BpInit, PTL DEF Spec

\* syncBreakpoints: when nothing is on its way, the adapter has the current
\* list, whatever requests overlapped and whoever gave up waiting, unless it
\* refused one.
THEOREM AdapterHasNewest == Spec => []ListNewest
<1>1. ASSUME BpInv PROVE ListNewest
  <2> SUFFICES ASSUME Quiet, refusals = 0 PROVE list = SlotsFor(bps)
    BY DEF ListNewest
  <2>1. \A t \in Threads : calls[t].pc # "sync" /\ calls[t].pc # "send"
    BY DEF Quiet
  <2>2. calls[Configure] # Idle
    BY BeginCall DEF Quiet
  <2>3. inbox = <<>>
    BY DEF Quiet
  <2> QED
    BY <1>1, <2>1, <2>2, <2>3 DEF BpInv, NewestSent, SentLast
<1> QED
  BY <1>1, BreakpointsKept, PTL

\* removeTemporary, placeTarget and stillTemporary: there is never more than
\* one temporary breakpoint, and cleaning up after executions takes no
\* permanent one.
THEOREM OnlyTemporaryGo == Spec => TemporaryOnly
<1>1. ASSUME BpInv PROVE OneTemporary
  <2> DEFINE T == {b \in bps : b.temp}
  <2>1. \A b, d \in T : b = d
    BY <1>1 DEF BpInv, Temporaries
  <2>2. CASE T = {}
    BY <2>2, FS_EmptySet DEF OneTemporary
  <2>3. CASE T # {}
    <3>1. PICK b \in T : TRUE
      BY <2>3
    <3>2. T = {b}
      BY <2>1, <3>1
    <3>3. Cardinality(T) = 1
      BY <3>2, FS_Singleton
    <3> QED
      BY <3>3 DEF OneTemporary
  <2> QED
    BY <2>2, <2>3
<1>2. BpInv /\ [Next]_vars => [PermanentStep]_vars
  BY BpNext
<1>3. Spec => []BpInv
  BY BreakpointsKept
<1>4. Spec => []OneTemporary
  BY <1>1, <1>3, PTL
<1>5. Spec => PermanentKept
  BY <1>2, <1>3, PTL DEF Spec, PermanentKept
<1> QED
  BY <1>4, <1>5 DEF TemporaryOnly

----------------------------------------------------------------------------
(***************************************************************************)
(* What a session shows of the adapter's copy (applySlotsLocked,           *)
(* updateBreakpointLocked), and with it where the program is seen to stop. *)
(* An id stands for one requested line, in the list and in the snapshots   *)
(* under way; an answer that is applied belongs to the newest request, so  *)
(* it is about the list the adapter keeps; and a breakpoint the adapter    *)
(* has answered for is in every list it has, gets or is about to get, so   *)
(* an event about it is still so when it is read.                          *)
(***************************************************************************)
\* The lines a set of breakpoints asks for.
Reqs(S) == {b.req : b \in S}

\* An id stands for one requested line, in the list and in the snapshots under
\* way, and new ones are larger.
IdsApart ==
    /\ \A b \in bps : b.id <= nextBP
    /\ \A b, d \in bps : b.id = d.id => b.req = d.req
    /\ \A t \in Threads : calls[t].pc \in {"send", "wait"} =>
          \A s \in calls[t].slots : s.id <= nextBP /\ \A b \in bps : b.id = s.id => b.req = s.req

\* The adapter keeps the list of t's snapshot and will get no other; lines, and
\* what its messages after the n-th say, are resolved.
Fresh(t, lines, n) ==
    /\ inbox = <<>> /\ lines \subseteq resolved /\ DOMAIN list = Reqs(calls[t].slots)
    /\ \A j \in 1..Len(stream) : j > n /\ stream[j].msg = "breakpoint" => stream[j].lines \subseteq resolved

\* What a thread that has not given up waiting is told is so.
WaitsFor(t) ==
    /\ calls[t].id = seq
    /\ calls[t].answer = "none" =>
          /\ \A i \in 1..Len(inbox) : inbox[i].id = seq => inbox[i].list = SlotsFor(calls[t].slots)
          /\ \A i \in 1..Len(stream) :
                stream[i].msg = "response" /\ stream[i].ok /\ stream[i].id = seq => Fresh(t, stream[i].lines, i)
    /\ calls[t].answer = "ok" => Fresh(t, calls[t].lines, 0)

\* Requests go out under growing ids, and who waits has the newest.
AnswersFresh ==
    /\ \A i \in 1..Len(inbox) : inbox[i].id <= seq /\ (inbox[i].id = seq => i = Len(inbox))
    /\ \A i \in 1..Len(stream) : stream[i].id <= seq
    /\ \A t \in Threads : calls[t].pc = "wait" /\ calls[t].answer # "err" => WaitsFor(t)
    /\ \A t \in Threads : calls[t].pc # "wait" => calls[t].answer = "none"

\* A breakpoint the adapter knows is in every list it has, gets or is about to.
KnownTo(b) ==
    /\ b.adapterID = b.req /\ b.req \in DOMAIN list
    /\ \A i \in 1..Len(inbox) : b.req \in DOMAIN inbox[i].list
    /\ \A t \in Threads : calls[t].pc = "send" => b.req \in Reqs(calls[t].slots)
    /\ \A i \in 1..Len(stream) : stream[i].msg = "breakpoint" /\ b.req \in stream[i].lines => b.req \in resolved

\* What a breakpoint shows of the adapter is so.
Shown(b) ==
    /\ b.adapterID # 0 => KnownTo(b)
    /\ b.verified => b.adapterID # 0 /\ b.line = Place(b.req) /\ b.req \in resolved

\* The inductive invariant.
ResInv == IdsApart /\ AnswersFresh /\ resolved \subseteq DOMAIN list /\ \A b \in bps : Shown(b)

\* A breakpoint as another, but for what it asks for.
Same(b, d) ==
    /\ b.id = d.id /\ b.req = d.req /\ b.line = d.line /\ b.adapterID = d.adapterID
    /\ b.verified => d.verified

\* A breakpoint is one that was there, or a new one.
Came(b) ==
    \/ \E d \in bps : Same(b, d)
    \/ b.id > nextBP /\ b.id <= nextBP' /\ b.adapterID = 0 /\ ~b.verified

\* A call that is not in a request to the adapter.
Elsewhere(c) == c.pc \notin {"send", "wait"} /\ c.answer = "none"

\* A step of the session that sends nothing to the adapter and takes nothing
\* from it: the breakpoints that were there are what they were.
LEMMA ShownFrame ==
    ASSUME BpInv, ResInv, UNCHANGED <<seq, inbox, list, resolved, stream>>,
           nextBP' \in Nat, nextBP' >= nextBP, bps' \subseteq Breakpoint,
           \A b \in bps' : Came(b),
           \A b, d \in bps' : b.id = d.id /\ b.id > nextBP => b.req = d.req,
           \A t \in Threads : calls'[t] = calls[t] \/ Elsewhere(calls'[t])
    PROVE  ResInv'
<1>1. /\ nextBP \in Nat /\ bps \subseteq Breakpoint
      /\ \A t \in Threads : calls[t] \in Calls /\ calls[t].slots \subseteq Breakpoint
  BY Parts, CallFields
<1>2. \A b \in bps \cup bps' : b.id \in Nat
  BY <1>1 DEF Breakpoint
<1>3. \A t \in Threads : \A s \in calls[t].slots : s.id \in Nat
  BY <1>1 DEF Breakpoint
<1>4. \A b \in bps' : b.id <= nextBP => \E d \in bps : Same(b, d)
  BY <1>1, <1>2 DEF Came
<1>5. IdsApart'
  <2>1. \A b \in bps' : b.id <= nextBP'
    BY <1>1, <1>2 DEF Came, Same, ResInv, IdsApart
  <2>2. ASSUME NEW b \in bps', NEW d \in bps', b.id = d.id
        PROVE  b.req = d.req
    <3>1. CASE b.id > nextBP
      BY <2>2, <3>1
    <3>2. CASE b.id <= nextBP
      BY <1>4, <2>2, <3>2 DEF Same, ResInv, IdsApart
    <3> QED
      BY <1>1, <1>2, <3>1, <3>2
  <2>3. ASSUME NEW t \in Threads, calls'[t].pc \in {"send", "wait"}, NEW s \in calls'[t].slots
        PROVE  s.id <= nextBP' /\ \A b \in bps' : b.id = s.id => b.req = s.req
    <3>1. calls'[t] = calls[t] /\ s \in calls[t].slots
      BY <2>3 DEF Elsewhere
    <3>2. s.id <= nextBP /\ s.id \in Nat /\ \A b \in bps : b.id = s.id => b.req = s.req
      BY <1>3, <2>3, <3>1 DEF ResInv, IdsApart
    <3>3. s.id <= nextBP'
      BY <1>1, <3>2
    <3>4. ASSUME NEW b \in bps', b.id = s.id
          PROVE  b.req = s.req
      BY <1>4, <3>2, <3>4 DEF Same
    <3> QED
      BY <3>3, <3>4
  <2> QED
    BY <2>1, <2>2, <2>3 DEF IdsApart
<1>6. AnswersFresh'
  <2>1. ASSUME NEW t \in Threads, calls'[t].pc = "wait", calls'[t].answer # "err"
        PROVE  WaitsFor(t)'
    <3>1. calls'[t] = calls[t]
      BY <2>1 DEF Elsewhere
    <3>2. WaitsFor(t)
      BY <2>1, <3>1 DEF ResInv, AnswersFresh
    <3> QED
      BY <3>1, <3>2 DEF WaitsFor, Fresh
  <2>2. \A t \in Threads : calls'[t].pc # "wait" => calls'[t].answer = "none"
    BY DEF ResInv, AnswersFresh, Elsewhere
  <2> QED
    BY <2>1, <2>2 DEF ResInv, AnswersFresh
<1>7. ASSUME NEW b \in bps'
      PROVE  Shown(b)'
  <2>1. CASE \E d \in bps : Same(b, d)
    <3>1. PICK d \in bps : Same(b, d)
      BY <2>1
    <3>2. Shown(d)
      BY DEF ResInv
    <3>3. b.adapterID # 0 => KnownTo(b)'
      <4> SUFFICES ASSUME b.adapterID # 0 PROVE KnownTo(b)'
        OBVIOUS
      <4>1. KnownTo(d) /\ b.req = d.req /\ b.adapterID = d.adapterID
        BY <3>1, <3>2 DEF Shown, Same
      <4>2. \A t \in Threads : calls'[t].pc = "send" => b.req \in Reqs(calls'[t].slots)
        BY <4>1 DEF KnownTo, Elsewhere
      <4> QED
        BY <4>1, <4>2 DEF KnownTo
    <3> QED
      BY <3>1, <3>2, <3>3 DEF Shown, Same
  <2>2. CASE b.adapterID = 0 /\ ~b.verified
    BY <2>2 DEF Shown
  <2> QED
    BY <2>1, <2>2 DEF Came
<1> QED
  BY <1>5, <1>6, <1>7 DEF ResInv

\* A call's answer is kept where it goes on.
LEMMA AnswerKept ==
    ASSUME NEW c \in Calls, NEW p \in Pcs, NEW q \in Thens, NEW t, NEW k, NEW u
    PROVE  /\ c.answer = "none" => GoTo(c, p).answer = "none"
           /\ Syncing(c, q).answer = c.answer /\ Ended(c).answer = "none"
           /\ Begin(t, k, u).answer = "none"
BY DEF GoTo, Syncing, Ended, Begin, Idle, Calls

\* A thread's step to somewhere else than into a request to the adapter.
LEMMA ElsewhereFrame ==
    ASSUME BpInv, NEW t \in Threads, NEW call \in Calls, Set(t, call), Elsewhere(call)
    PROVE  \A u \in Threads : calls'[u] = calls[u] \/ Elsewhere(calls'[u])
<1>1. /\ calls'[t] = call
      /\ \A u \in Threads : u # t => calls'[u] = calls[u]
  BY SetCall, Parts
<1> QED
  BY <1>1

\* And one that adds no breakpoint.
LEMMA FewerFrame ==
    ASSUME BpInv, ResInv, UNCHANGED <<nextBP, seq, inbox, list, resolved, stream>>, bps' \subseteq bps,
           \A t \in Threads : calls'[t] = calls[t] \/ Elsewhere(calls'[t])
    PROVE  ResInv'
<1>1. nextBP \in Nat /\ bps \subseteq Breakpoint
  BY Parts
<1>2. \A b \in bps' : Came(b)
  BY DEF Came, Same
<1>3. \A b \in bps' : b.id <= nextBP /\ b.id \in Nat
  BY <1>1 DEF ResInv, IdsApart, Breakpoint
<1>4. \A b, d \in bps' : b.id = d.id /\ b.id > nextBP => b.req = d.req
  BY <1>1, <1>3
<1> QED
  BY <1>1, <1>2, <1>4, ShownFrame

\* removeBreakpoints.
LEMMA RemovedShown ==
    ASSUME BpInv, ResInv, NEW t \in Requests, NEW gone, NEW call \in Calls, NEW then \in Thens,
           call.answer = "none", RemoveBreakpoints(t, gone, call, then)
    PROVE  ResInv'
<1>1. t \in Threads /\ then \in Pcs /\ then \notin {"send", "wait"}
  BY Parts DEF Thens, Pcs
<1> DEFINE new == IF gone # {} THEN Syncing(call, then) ELSE GoTo(call, then)
<1>2. new \in Calls /\ Elsewhere(new)
  <2>1. CASE gone # {}
    BY <1>1, <2>1, SyncingCall, AnswerKept DEF Elsewhere
  <2>2. CASE gone = {}
    BY <1>1, <2>2, GoToCall, AnswerKept DEF Elsewhere
  <2> QED
    BY <2>1, <2>2
<1>3. Set(t, new)
  BY DEF RemoveBreakpoints
<1> HIDE DEF new
<1>4. \A u \in Threads : calls'[u] = calls[u] \/ Elsewhere(calls'[u])
  BY <1>1, <1>2, <1>3, ElsewhereFrame
<1>5. bps' \subseteq bps /\ UNCHANGED <<nextBP, seq, inbox, list, resolved, stream>>
  BY DEF RemoveBreakpoints, adapterVars
<1> QED
  BY <1>4, <1>5, FewerFrame

\* A request that ends without a change, a list that is not sent, and the
\* program's stops.
LEMMA OthersShown ==
    ASSUME BpInv, ResInv,
           \/ \E t \in Threads : SyncSkip(t) \/ SyncTimeout(t)
           \/ \E t \in Requests : Abort(t) \/ WaitTimeout(t) \/ (\E ok \in BOOLEAN : ExecuteSend(t, ok))
           \/ \E t \in Requests, c \in Clients, b \in bps, force \in BOOLEAN : FindBreakpoint(t, c, b, force)
           \/ AdapterInitialized \/ ProgramStops
    PROVE  ResInv'
<1> USE DEF sessionVars, threadVars, adapterVars, boundVars
<1>t. \A t \in Requests : t \in Threads
  BY Parts
<1>1. ASSUME NEW t \in Threads, SyncSkip(t)
      PROVE  ResInv'
  <2>1. /\ calls[t] \in Calls /\ calls[t].then \in Thens /\ calls[t].then \in Pcs
        /\ calls[t].answer = "none"
    BY <1>1, Parts, CallFields DEF Thens, Pcs, SyncSkip, ResInv, AnswersFresh
  <2>2. GoTo(calls[t], calls[t].then) \in Calls /\ Elsewhere(GoTo(calls[t], calls[t].then))
    BY <2>1, GoToCall, AnswerKept DEF Thens, Elsewhere
  <2> QED
    BY <1>1, <2>2, ElsewhereFrame, FewerFrame DEF SyncSkip
<1>2. ASSUME NEW t \in Requests, Abort(t) \/ WaitTimeout(t)
      PROVE  ResInv'
  <2>1. Ended(calls[t]) \in Calls /\ Elsewhere(Ended(calls[t]))
    <3>1. calls[t] \in Calls /\ "done" \in Pcs
      BY <1>t, Parts DEF Pcs
    <3> QED
      BY <3>1, GoToCall, AnswerKept DEF Elsewhere, Thens
  <2> QED
    BY <1>2, <1>t, <2>1, ElsewhereFrame, FewerFrame DEF Abort, WaitTimeout
<1>3. ASSUME NEW t \in Requests, NEW ok \in BOOLEAN, ExecuteSend(t, ok)
      PROVE  ResInv'
  <2> DEFINE new == IF ok THEN [calls[t] EXCEPT !.pc = "running"] ELSE [calls[t] EXCEPT !.pc = "unplace"]
  <2>1. calls[t] \in Calls /\ calls[t].answer = "none"
    BY <1>3, <1>t, Parts DEF ExecuteSend, ResInv, AnswersFresh
  <2>2. new \in Calls /\ Elsewhere(new)
    BY <2>1 DEF Calls, Pcs, Elsewhere
  <2>3. Set(t, new) /\ UNCHANGED <<bps, nextBP, seq, inbox, list, resolved, stream>>
    BY <1>3 DEF ExecuteSend
  <2> HIDE DEF new
  <2> QED
    BY <1>t, <2>2, <2>3, ElsewhereFrame, FewerFrame
<1>4. ASSUME NEW t \in Requests, NEW c \in Clients, NEW b \in bps, NEW force \in BOOLEAN,
             FindBreakpoint(t, c, b, force)
      PROVE  ResInv'
  <2> DEFINE new == [Begin(t, "remove", c) EXCEPT !.pc = "remove", !.temp = b.id]
  <2>1. Begin(t, "remove", c) \in Calls /\ b.id \in Nat /\ Begin(t, "remove", c).answer = "none"
    <3>1. Begin(t, "remove", c).answer = "none"
      BY DEF Begin, Idle
    <3> QED
      BY <3>1, BeginCall, Parts DEF Breakpoint
  <2>2. new \in Calls /\ Elsewhere(new)
    BY <2>1 DEF Calls, Pcs, Elsewhere
  <2>3. Set(t, new) /\ UNCHANGED <<bps, nextBP, seq, inbox, list, resolved, stream>>
    BY <1>4 DEF FindBreakpoint
  <2> HIDE DEF new
  <2> QED
    BY <1>t, <2>2, <2>3, ElsewhereFrame, FewerFrame
<1>5. CASE AdapterInitialized
  BY <1>5, FewerFrame DEF AdapterInitialized
<1>6. CASE ProgramStops
  <2>1. \A t \in Threads : calls'[t] = calls[t] \/ Elsewhere(calls'[t])
    <3> SUFFICES ASSUME NEW t \in Threads, calls[t].pc = "running"
                 PROVE  calls'[t].pc = "stopped" /\ calls'[t].answer = "none"
      BY <1>6 DEF ProgramStops, Elsewhere
    <3>1. calls[t] \in Calls /\ calls[t].answer = "none"
      BY Parts DEF ResInv, AnswersFresh
    <3>2. calls'[t] = [calls[t] EXCEPT !.pc = "stopped"]
      BY <1>6 DEF ProgramStops
    <3> QED
      BY <3>1, <3>2 DEF Calls
  <2> QED
    BY <1>6, <2>1, FewerFrame DEF ProgramStops
<1>7. ASSUME NEW t \in Threads, SyncTimeout(t)
      PROVE  ResInv'
  <2> DEFINE new == [calls[t] EXCEPT !.answer = "err"]
  <2>1. calls[t] \in Calls /\ calls[t].pc = "wait"
    BY <1>7, Parts DEF SyncTimeout
  <2>2. new \in Calls /\ new.answer = "err" /\ new.pc = "wait" /\ new.slots = calls[t].slots
    BY <2>1 DEF Calls
  <2>3. Set(t, new) /\ UNCHANGED <<bps, nextBP, seq, inbox, list, resolved, stream>>
    BY <1>7 DEF SyncTimeout
  <2> HIDE DEF new
  <2>4. /\ calls'[t] = new
        /\ \A u \in Threads : u # t => calls'[u] = calls[u]
    BY <2>2, <2>3, SetCall, Parts
  <2>5. IdsApart'
    BY <2>1, <2>2, <2>3, <2>4 DEF ResInv, IdsApart
  <2>6. AnswersFresh'
    <3>1. ASSUME NEW u \in Threads, calls'[u].pc = "wait", calls'[u].answer # "err"
          PROVE  WaitsFor(u)'
      <4>1. calls'[u] = calls[u] /\ WaitsFor(u)
        BY <2>2, <2>4, <3>1 DEF ResInv, AnswersFresh
      <4> QED
        BY <2>3, <4>1 DEF WaitsFor, Fresh
    <3> QED
      BY <2>2, <2>3, <2>4, <3>1 DEF ResInv, AnswersFresh
  <2>7. \A b \in bps' : Shown(b)'
    BY <2>1, <2>2, <2>3, <2>4 DEF ResInv, Shown, KnownTo
  <2> QED
    BY <2>3, <2>5, <2>6, <2>7 DEF ResInv
<1> QED
  BY <1>1, <1>2, <1>3, <1>4, <1>5, <1>6, <1>7

\* A snapshot has every breakpoint of the list, under the same ids.
LEMMA SyncStartShown ==
    ASSUME BpInv, ResInv, NEW t \in Threads, SyncStart(t)
    PROVE  ResInv'
<1> DEFINE new == [calls[t] EXCEPT !.pc = "send", !.slots = bps]
<1>1. calls[t] \in Calls /\ bps \subseteq Breakpoint /\ calls[t].answer = "none"
  BY Parts DEF SyncStart, ResInv, AnswersFresh
<1>2. new \in Calls /\ new.pc = "send" /\ new.slots = bps /\ new.answer = "none"
  BY <1>1 DEF Calls, Pcs
<1>3. Set(t, new) /\ UNCHANGED <<bps, nextBP, seq, inbox, list, resolved, stream>>
  BY DEF SyncStart, sessionVars, adapterVars
<1> HIDE DEF new
<1>4. /\ calls'[t] = new
      /\ \A u \in Threads : u # t => calls'[u] = calls[u]
  BY <1>2, <1>3, SetCall, Parts
<1>5. IdsApart'
  BY <1>2, <1>3, <1>4 DEF ResInv, IdsApart
<1>6. AnswersFresh'
  <2>1. ASSUME NEW u \in Threads, calls'[u].pc = "wait", calls'[u].answer # "err"
        PROVE  WaitsFor(u)'
    <3>1. calls'[u] = calls[u] /\ WaitsFor(u)
      BY <1>2, <1>4, <2>1 DEF ResInv, AnswersFresh
    <3> QED
      BY <1>3, <3>1 DEF WaitsFor, Fresh
  <2> QED
    BY <1>2, <1>3, <1>4, <2>1 DEF ResInv, AnswersFresh
<1>7. \A b \in bps' : Shown(b)'
  <2>1. \A b \in bps : b.req \in Reqs(new.slots)
    BY <1>2 DEF Reqs
  <2> QED
    BY <1>2, <1>3, <1>4, <2>1 DEF ResInv, Shown, KnownTo
<1> QED
  BY <1>3, <1>5, <1>6, <1>7 DEF ResInv

\* The list goes out under a new id; nobody else waits.
LEMMA SyncSendShown ==
    ASSUME BpInv, ResInv, NEW t \in Threads, SyncSend(t)
    PROVE  ResInv'
<1> DEFINE new == [calls[t] EXCEPT !.pc = "wait", !.id = seq + 1]
           m == [id |-> seq + 1, list |-> SlotsFor(calls[t].slots)]
           S == [id : Nat, list : SlotLists]
<1>1. /\ calls[t] \in Calls /\ seq \in Nat /\ calls[t].pc = "send" /\ calls[t].slots \subseteq Breakpoint
      /\ inbox \in Seq(S)
  BY Parts, CallFields DEF SyncSend, BpInv, BpTypeOK
<1>2. new \in Calls /\ new.pc = "wait" /\ new.slots = calls[t].slots /\ new.id = seq + 1 /\ new.answer = "none"
  <2>1. seq + 1 \in Nat /\ calls[t].answer = "none"
    BY <1>1 DEF ResInv, AnswersFresh
  <2> QED
    BY <1>1, <2>1 DEF Calls, Pcs
<1>3. /\ Set(t, new) /\ seq' = seq + 1 /\ inbox' = Append(inbox, m)
      /\ UNCHANGED <<bps, nextBP, list, resolved, stream>>
  BY DEF SyncSend, sessionVars
<1>m. m \in S /\ m.id = seq + 1 /\ m.list = SlotsFor(calls[t].slots)
  BY <1>1, SlotsForType
<1> HIDE DEF new
<1>4. /\ calls'[t] = new
      /\ \A u \in Threads : u # t => calls'[u] = calls[u]
  BY <1>2, <1>3, SetCall, Parts
<1>5. \A u \in Threads : u # t => calls[u].pc \notin {"send", "wait"}
  BY <1>1 DEF BpInv, LocksHeld
<1> HIDE DEF m, S
<1>6. /\ Len(inbox) \in Nat /\ Len(inbox') = Len(inbox) + 1
      /\ \A i \in 1..Len(inbox) : inbox'[i] = inbox[i]
      /\ inbox'[Len(inbox')] = m
  BY <1>1, <1>3, <1>m
<1>7. IdsApart'
  BY <1>1, <1>2, <1>3, <1>4 DEF ResInv, IdsApart
<1>8. \A i \in 1..Len(inbox) : inbox[i].id <= seq /\ inbox[i].id \in Nat
  <2>1. \A i \in 1..Len(inbox) : inbox[i] \in S
    BY <1>1
  <2> QED
    BY <2>1 DEF ResInv, AnswersFresh, S
<1>9. \A i \in 1..Len(stream) : stream[i].id <= seq /\ stream[i].id \in Nat
  <2>1. stream \in Seq(Messages)
    BY DEF BpInv, BpTypeOK
  <2>2. \A i \in 1..Len(stream) : stream[i] \in Messages
    BY <2>1
  <2> QED
    BY <2>2 DEF ResInv, AnswersFresh, Messages
<1>10. AnswersFresh'
  <2>1. ASSUME NEW i \in 1..Len(inbox')
        PROVE  inbox'[i].id <= seq' /\ (inbox'[i].id = seq' => i = Len(inbox'))
    <3>1. CASE i \in 1..Len(inbox)
      BY <1>1, <1>3, <1>6, <1>8, <3>1
    <3>2. CASE i = Len(inbox')
      BY <1>1, <1>3, <1>6, <1>m, <3>2
    <3> QED
      BY <1>6, <3>1, <3>2
  <2>2. \A i \in 1..Len(stream') : stream'[i].id <= seq' /\ stream'[i].id # seq'
    BY <1>1, <1>3, <1>9
  <2>3. ASSUME NEW u \in Threads, calls'[u].pc = "wait", calls'[u].answer # "err"
        PROVE  WaitsFor(u)'
    <3>1. u = t /\ calls'[u].id = seq' /\ calls'[u].slots = calls[t].slots
      BY <1>2, <1>3, <1>4, <1>5, <2>3
    <3>2. ASSUME NEW i \in 1..Len(inbox'), inbox'[i].id = seq'
          PROVE  inbox'[i].list = SlotsFor(calls'[u].slots)
      BY <1>6, <1>m, <2>1, <3>1, <3>2
    <3>3. calls'[u].answer # "ok"
      BY <1>2, <1>4, <3>1
    <3> QED
      BY <2>2, <3>1, <3>2, <3>3 DEF WaitsFor
  <2>4. \A u \in Threads : calls'[u].pc # "wait" => calls'[u].answer = "none"
    BY <1>2, <1>4 DEF ResInv, AnswersFresh
  <2> QED
    BY <2>1, <2>2, <2>3, <2>4 DEF AnswersFresh
<1>11. ASSUME NEW b \in bps'
       PROVE  Shown(b)'
  <2>1. b \in bps /\ Shown(b)
    BY <1>3 DEF ResInv
  <2>2. ASSUME KnownTo(b) PROVE KnownTo(b)'
    <3>1. b.req \in Reqs(calls[t].slots)
      BY <1>1, <2>2 DEF KnownTo
    <3>2. b.req \in DOMAIN m.list
      BY <1>m, <3>1 DEF SlotsFor, Reqs
    <3>3. \A i \in 1..Len(inbox') : b.req \in DOMAIN inbox'[i].list
      BY <1>6, <2>2, <3>2 DEF KnownTo
    <3>4. \A u \in Threads : calls'[u].pc # "send"
      BY <1>2, <1>4, <1>5
    <3> QED
      BY <1>3, <2>2, <3>3, <3>4 DEF KnownTo
  <2> QED
    BY <1>3, <2>1, <2>2 DEF Shown
<1> QED
  BY <1>3, <1>7, <1>10, <1>11 DEF ResInv

\* applySlotsLocked: a breakpoint of the snapshot is shown as the answer says,
\* the others as they were.
LEMMA AppliedTo ==
    ASSUME bps \subseteq Breakpoint, NEW slots, NEW lines \in SUBSET Lines, ApplySlots(slots, lines),
           NEW e \in bps'
    PROVE  \E b \in bps :
              /\ e.id = b.id /\ e.req = b.req
              /\ b.id \notin IdsOf(slots) => e = b
              /\ b.id \in IdsOf(slots) => e.adapterID = b.req
              /\ b.id \in IdsOf(slots) /\ e.verified => b.req \in lines /\ e.line = Place(b.req)
<1>1. PICK b \in bps : e = IF b.id \in IdsOf(slots)
                           THEN [b EXCEPT !.adapterID = b.req, !.verified = b.req \in lines,
                                          !.line = IF b.req \in lines THEN Place(b.req) ELSE b.req]
                           ELSE b
  BY DEF ApplySlots
<1>2. b \in Breakpoint
  OBVIOUS
<1>3. CASE b.id \in IdsOf(slots)
  <2>1. PICK p : p = IF b.req \in lines THEN Place(b.req) ELSE b.req
    OBVIOUS
  <2>2. CASE b.req \in lines
    <3>1. e = [b EXCEPT !.adapterID = b.req, !.verified = TRUE, !.line = p]
      BY <1>1, <1>3, <2>1, <2>2
    <3>2. e.id = b.id /\ e.req = b.req /\ e.adapterID = b.req /\ e.line = p
      BY <1>2, <3>1 DEF Breakpoint
    <3> QED
      BY <1>3, <2>1, <2>2, <3>2
  <2>3. CASE b.req \notin lines
    <3>0. (b.req \in lines) = FALSE
      BY <2>3
    <3>1. e = [b EXCEPT !.adapterID = b.req, !.verified = FALSE, !.line = p]
      BY <1>1, <1>3, <2>1, <3>0
    <3>2. e.id = b.id /\ e.req = b.req /\ e.adapterID = b.req /\ ~e.verified
      BY <1>2, <3>1 DEF Breakpoint
    <3> QED
      BY <1>3, <3>2
  <2> QED
    BY <2>2, <2>3
<1>4. CASE b.id \notin IdsOf(slots)
  BY <1>1, <1>4
<1> QED
  BY <1>3, <1>4

\* The end of a sync: an answer that is applied is about the list the adapter
\* keeps, and says of it what is so.
LEMMA SyncEndShown ==
    ASSUME BpInv, ResInv, NEW t \in Threads, SyncEnd(t)
    PROVE  ResInv'
<1> DEFINE c   == calls[t]
           d   == [c EXCEPT !.slots = {}, !.lines = {}, !.id = 0, !.answer = "none"]
           p   == IF c.answer = "ok" THEN c.then ELSE AfterError(c)
           new == GoTo(d, p)
<1>1. /\ c \in Calls /\ c.pc = "wait" /\ c.then \in Thens /\ c.lines \subseteq Lines
      /\ bps \subseteq Breakpoint /\ c.slots \subseteq Breakpoint
  BY Parts, CallFields DEF SyncEnd
<1>2. d \in Calls /\ d.answer = "none"
  BY <1>1 DEF Calls
<1>3. p \in Pcs /\ p \notin {"send", "wait"}
  BY <1>1 DEF AfterError, Thens, Pcs
<1> HIDE DEF d, p
<1>4. new \in Calls /\ Elsewhere(new)
  BY <1>2, <1>3, GoToCall, AnswerKept DEF Elsewhere, Thens
<1>5. Set(t, new)
  BY DEF SyncEnd, d, p
<1> HIDE DEF new
<1>6. \A u \in Threads : calls'[u] = calls[u] \/ Elsewhere(calls'[u])
  BY <1>4, <1>5, ElsewhereFrame
<1>f. UNCHANGED <<nextBP, seq, inbox, list, resolved, stream>>
  BY DEF SyncEnd, adapterVars
<1>7. \A u \in Threads : calls'[u].pc \notin {"send", "wait"}
  <2>1. calls'[t] = new /\ \A u \in Threads : u # t => calls'[u] = calls[u]
    BY <1>4, <1>5, SetCall, Parts
  <2>2. \A u \in Threads : u # t => calls[u].pc \notin {"send", "wait"}
    BY <1>1 DEF BpInv, LocksHeld
  <2> QED
    BY <1>4, <2>1, <2>2 DEF Elsewhere
<1>8. CASE c.answer # "ok"
  <2>1. bps' = bps
    BY <1>8 DEF SyncEnd
  <2> QED
    BY <1>6, <1>f, <2>1, FewerFrame
<1>9. CASE c.answer = "ok"
  <2>1. ApplySlots(c.slots, c.lines)
    BY <1>9 DEF SyncEnd
  <2>2. Fresh(t, c.lines, 0)
    BY <1>1, <1>9 DEF ResInv, AnswersFresh, WaitsFor
  <2>3. \A e \in bps' : \E b \in bps : e.id = b.id /\ e.req = b.req
    BY <1>1, <2>1, AppliedTo
  <2>4. IdsApart'
    BY <1>7, <1>f, <2>3 DEF ResInv, IdsApart
  <2>5. AnswersFresh'
    BY <1>6, <1>7, <1>f DEF ResInv, AnswersFresh, Elsewhere
  <2>6. ASSUME NEW e \in bps'
        PROVE  Shown(e)'
    <3>1. PICK b \in bps : /\ e.id = b.id /\ e.req = b.req
                           /\ b.id \notin IdsOf(c.slots) => e = b
                           /\ b.id \in IdsOf(c.slots) => e.adapterID = b.req
                           /\ b.id \in IdsOf(c.slots) /\ e.verified => b.req \in c.lines /\ e.line = Place(b.req)
      BY <1>1, <2>1, AppliedTo
    <3>2. CASE b.id \notin IdsOf(c.slots)
      <4>1. Shown(e)
        BY <3>1, <3>2 DEF ResInv
      <4> QED
        BY <1>7, <1>f, <4>1 DEF Shown, KnownTo
    <3>3. CASE b.id \in IdsOf(c.slots)
      <4>1. PICK s \in c.slots : s.id = b.id
        BY <3>3 DEF IdsOf
      <4>2. b.req = s.req
        BY <1>1, <4>1 DEF ResInv, IdsApart
      <4>3. e.req \in DOMAIN list
        BY <2>2, <3>1, <4>1, <4>2 DEF Fresh, Reqs
      <4>4. /\ inbox = <<>> /\ c.lines \subseteq resolved
            /\ \A j \in 1..Len(stream) : stream[j].msg = "breakpoint" => stream[j].lines \subseteq resolved
        BY <2>2 DEF Fresh
      <4>5. KnownTo(e)'
        BY <1>7, <1>f, <3>1, <3>3, <4>3, <4>4 DEF KnownTo
      <4>6. e.adapterID # 0
        BY <1>1, <3>1, <3>3, BreakpointsAssumption DEF Breakpoint
      <4> QED
        BY <1>f, <3>1, <3>3, <4>4, <4>5, <4>6 DEF Shown
    <3> QED
      BY <3>2, <3>3
  <2> QED
    BY <1>f, <2>4, <2>5, <2>6 DEF ResInv
<1> QED
  BY <1>8, <1>9

\* What is left of the adapter's messages when one is read.
LEMMA OneRead ==
    ASSUME NEW S, NEW s \in Seq(S), s # <<>>
    PROVE  /\ Len(s) \in Nat /\ Len(s) >= 1 /\ Len(Tail(s)) = Len(s) - 1
           /\ Head(s) = s[1] /\ s[1] \in S
           /\ \A i \in 1..Len(Tail(s)) : Tail(s)[i] = s[i + 1] /\ i + 1 \in 1..Len(s)
<1>1. Len(s) \in Nat /\ Len(s) # 0
  OBVIOUS
<1> QED
  BY <1>1

\* An answer is read: it is the caller's if it still waits for that one.
LEMMA OnResponseShown ==
    ASSUME BpInv, ResInv, stream # <<>>, Head(stream).msg = "response", OnResponse(Head(stream)),
           stream' = Tail(stream),
           UNCHANGED <<nextBP, seq, inbox, list, resolved>>
    PROVE  ResInv'
<1> DEFINE m == Head(stream)
<1>1. /\ stream \in Seq(Messages) /\ bps' = bps
      /\ \A u \in Threads : calls[u] \in Calls
  BY Parts DEF BpInv, BpTypeOK, OnResponse
<1>2. /\ Len(stream) \in Nat /\ Len(stream) >= 1 /\ Len(stream') = Len(stream) - 1
      /\ m = stream[1] /\ m \in Messages
      /\ \A i \in 1..Len(stream') : stream'[i] = stream[i + 1] /\ i + 1 \in 1..Len(stream)
  BY <1>1, OneRead
<1>3. ASSUME NEW u \in Threads
      PROVE  /\ calls'[u].pc = calls[u].pc /\ calls'[u].slots = calls[u].slots /\ calls'[u].id = calls[u].id
             /\ calls'[u] = calls[u] \/ /\ calls[u].pc = "wait" /\ calls[u].answer = "none" /\ calls[u].id = m.id
                                        /\ calls'[u].lines = m.lines
                                        /\ \/ m.ok /\ calls'[u].answer = "ok"
                                           \/ calls'[u].answer = "err"
  <2>1. CASE calls[u].pc = "wait" /\ calls[u].id = m.id /\ calls[u].answer = "none"
    <3>1. calls'[u] = [calls[u] EXCEPT !.answer = IF m.ok THEN "ok" ELSE "err", !.lines = m.lines]
      BY <2>1 DEF OnResponse
    <3> HIDE DEF m
    <3>2. CASE m.ok
      <4>1. calls'[u] = [calls[u] EXCEPT !.answer = "ok", !.lines = m.lines]
        BY <3>1, <3>2
      <4> QED
        BY <1>1, <2>1, <3>2, <4>1 DEF Calls
    <3>3. CASE ~m.ok
      <4>1. calls'[u] = [calls[u] EXCEPT !.answer = "err", !.lines = m.lines]
        BY <3>1, <3>3
      <4> QED
        BY <1>1, <2>1, <4>1 DEF Calls
    <3> QED
      BY <3>2, <3>3
  <2>2. CASE ~(calls[u].pc = "wait" /\ calls[u].id = m.id /\ calls[u].answer = "none")
    BY <2>2 DEF OnResponse
  <2> QED
    BY <2>1, <2>2
<1> HIDE DEF m
<1>4. IdsApart'
  BY <1>1, <1>3 DEF ResInv, IdsApart
<1>5. ASSUME NEW u \in Threads, NEW lines, NEW n \in 1..Len(stream), Fresh(u, lines, n)
      PROVE  Fresh(u, lines, n - 1)'
  <2>1. ASSUME NEW j \in 1..Len(stream'), j > n - 1, stream'[j].msg = "breakpoint"
        PROVE  stream'[j].lines \subseteq resolved
    <3>1. j + 1 \in 1..Len(stream) /\ j + 1 > n /\ stream'[j] = stream[j + 1]
      BY <1>2, <2>1
    <3> QED
      BY <1>5, <2>1, <3>1 DEF Fresh
  <2> QED
    BY <1>3, <1>5, <2>1 DEF Fresh
<1>6. ASSUME NEW u \in Threads, calls'[u].pc = "wait", calls'[u].answer # "err"
      PROVE  WaitsFor(u)'
  <2>1. WaitsFor(u) /\ calls'[u].id = seq'
    <3>1. calls[u].pc = "wait" /\ calls[u].answer # "err"
      BY <1>3, <1>6
    <3> QED
      BY <1>3, <3>1 DEF ResInv, AnswersFresh, WaitsFor
  <2>2. CASE calls'[u] = calls[u] /\ calls[u].answer = "none"
    <3>1. \A i \in 1..Len(inbox') : inbox'[i].id = seq' => inbox'[i].list = SlotsFor(calls'[u].slots)
      BY <2>1, <2>2 DEF WaitsFor
    <3>2. ASSUME NEW i \in 1..Len(stream'), stream'[i].msg = "response", stream'[i].ok, stream'[i].id = seq'
          PROVE  Fresh(u, stream[i].lines, i)'
      <4>1. i + 1 \in 1..Len(stream) /\ stream'[i] = stream[i + 1] /\ (i + 1) - 1 = i
        BY <1>2
      <4>2. Fresh(u, stream[i + 1].lines, i + 1)
        BY <2>1, <2>2, <3>2, <4>1 DEF WaitsFor
      <4>3. PICK l : l = stream[i + 1].lines
        OBVIOUS
      <4>4. Fresh(u, l, i)' /\ l = stream'[i].lines
        <5>1. Fresh(u, l, (i + 1) - 1)'
          BY <1>5, <4>1, <4>2, <4>3
        <5> QED
          BY <4>1, <4>3, <5>1
      <4> QED
        BY <4>4 DEF Fresh
    <3> QED
      BY <2>1, <2>2, <3>1, <3>2 DEF WaitsFor
  <2>3. CASE calls'[u] = calls[u] /\ calls[u].answer = "ok"
    <3>1. Fresh(u, calls[u].lines, 0)
      BY <2>1, <2>3 DEF WaitsFor
    <3>2. ASSUME NEW j \in 1..Len(stream'), stream'[j].msg = "breakpoint"
          PROVE  stream'[j].lines \subseteq resolved
      <4>1. j + 1 \in 1..Len(stream) /\ stream'[j] = stream[j + 1] /\ j + 1 > 0
        BY <1>2
      <4> QED
        BY <3>1, <3>2, <4>1 DEF Fresh
    <3>3. Fresh(u, calls[u].lines, 0)'
      BY <2>3, <3>1, <3>2 DEF Fresh
    <3> QED
      BY <2>1, <2>3, <3>3 DEF WaitsFor
  <2>4. CASE calls[u].answer = "none" /\ calls[u].id = m.id /\ m.ok /\ calls'[u].answer = "ok"
             /\ calls'[u].lines = m.lines
    <3>1. stream[1].msg = "response" /\ stream[1].ok /\ stream[1].id = seq /\ 1 \in 1..Len(stream)
      BY <1>2, <2>1, <2>4 DEF m, WaitsFor
    <3>2. Fresh(u, m.lines, 1)
      BY <1>2, <2>1, <2>4, <3>1 DEF WaitsFor
    <3>3. PICK l : l = m.lines
      OBVIOUS
    <3>4. Fresh(u, l, 0)' /\ l = calls'[u].lines
      <4>1. Fresh(u, l, 1 - 1)'
        BY <1>5, <3>1, <3>2, <3>3
      <4> QED
        BY <2>4, <3>3, <4>1
    <3> QED
      BY <2>1, <2>4, <3>4 DEF WaitsFor, Fresh
  <2>5. calls'[u].answer \in {"none", "ok"} /\ calls[u].answer \in {"none", "ok", "err"}
    <3>1. calls[u].answer \in {"none", "ok", "err"}
      BY <1>1, CallFields
    <3> QED
      BY <1>3, <1>6, <3>1
  <2> QED
    BY <1>3, <1>6, <2>2, <2>3, <2>4, <2>5
<1>7. AnswersFresh'
  <2>1. \A i \in 1..Len(stream') : stream'[i].id <= seq'
    BY <1>2 DEF ResInv, AnswersFresh
  <2>2. \A u \in Threads : calls'[u].pc # "wait" => calls'[u].answer = "none"
    BY <1>3 DEF ResInv, AnswersFresh
  <2> QED
    BY <1>6, <2>1, <2>2 DEF ResInv, AnswersFresh
<1>8. ASSUME NEW b \in bps'
      PROVE  Shown(b)'
  <2>1. Shown(b)
    BY <1>1 DEF ResInv
  <2>2. ASSUME KnownTo(b) PROVE KnownTo(b)'
    <3>1. \A i \in 1..Len(stream') :
              stream'[i].msg = "breakpoint" /\ b.req \in stream'[i].lines => b.req \in resolved
      BY <1>2, <2>2 DEF KnownTo
    <3> QED
      BY <1>3, <2>2, <3>1 DEF KnownTo
  <2> QED
    BY <2>1, <2>2 DEF Shown
<1> QED
  BY <1>4, <1>7, <1>8 DEF ResInv

\* A breakpoint event: who knows of the line is told what is so.
LEMMA OnBreakpointShown ==
    ASSUME BpInv, ResInv, stream # <<>>, Head(stream).msg # "response", OnBreakpoint(Head(stream)),
           stream' = Tail(stream),
           UNCHANGED <<nextBP, seq, inbox, list, resolved>>
    PROVE  ResInv'
<1> DEFINE m == Head(stream)
<1>1. stream \in Seq(Messages) /\ calls' = calls /\ bps \subseteq Breakpoint
  BY Parts DEF BpInv, BpTypeOK, OnBreakpoint
<1>2. /\ Len(stream) \in Nat /\ Len(stream) >= 1 /\ Len(stream') = Len(stream) - 1
      /\ m = stream[1] /\ m \in Messages
      /\ \A i \in 1..Len(stream') : stream'[i] = stream[i + 1] /\ i + 1 \in 1..Len(stream)
  BY <1>1, OneRead
<1> HIDE DEF m
<1>3. m.msg = "breakpoint" /\ m.lines \subseteq Lines
  BY <1>2 DEF Messages, m
<1>4. ASSUME NEW e \in bps'
      PROVE  \E b \in bps : /\ e.id = b.id /\ e.req = b.req /\ e.adapterID = b.adapterID
                            /\ b.adapterID \notin m.lines => e = b
                            /\ b.adapterID \in m.lines => e.line = Place(b.req)
  <2>1. PICK b \in bps : e = IF b.adapterID \in m.lines
                             THEN [b EXCEPT !.verified = TRUE, !.line = Place(b.req)] ELSE b
    BY <1>4 DEF OnBreakpoint, m
  <2>2. CASE b.adapterID \in m.lines
    <3>1. PICK p : p = Place(b.req)
      OBVIOUS
    <3>2. e = [b EXCEPT !.verified = TRUE, !.line = p]
      BY <2>1, <2>2, <3>1
    <3> QED
      BY <1>1, <2>2, <3>1, <3>2 DEF Breakpoint
  <2> QED
    BY <2>1, <2>2
<1>5. IdsApart'
  BY <1>1, <1>4 DEF ResInv, IdsApart
<1>6. AnswersFresh'
  <2>1. \A i \in 1..Len(stream') : stream'[i].id <= seq'
    BY <1>2 DEF ResInv, AnswersFresh
  <2>2. ASSUME NEW t \in Threads, NEW lines, NEW n \in Nat, NEW k \in Nat, k = n + 1 \/ (n = 0 /\ k = 0),
               Fresh(t, lines, k)
        PROVE  Fresh(t, lines, n)'
    <3>1. ASSUME NEW j \in 1..Len(stream'), j > n, stream'[j].msg = "breakpoint"
          PROVE  stream'[j].lines \subseteq resolved
      <4>1. j + 1 \in 1..Len(stream) /\ j + 1 > k /\ stream'[j] = stream[j + 1]
        BY <1>2, <2>2, <3>1
      <4> QED
        BY <2>2, <3>1, <4>1 DEF Fresh
    <3> QED
      BY <1>1, <2>2, <3>1 DEF Fresh
  <2>3. ASSUME NEW t \in Threads, calls'[t].pc = "wait", calls'[t].answer # "err"
        PROVE  WaitsFor(t)'
    <3>1. WaitsFor(t)
      BY <1>1, <2>3 DEF ResInv, AnswersFresh
    <3>2. ASSUME NEW i \in 1..Len(stream'), calls[t].answer = "none",
                 stream'[i].msg = "response", stream'[i].ok, stream'[i].id = seq'
          PROVE  Fresh(t, stream[i].lines, i)'
      <4>1. i + 1 \in 1..Len(stream) /\ stream'[i] = stream[i + 1] /\ i \in Nat /\ i + 1 \in Nat
        BY <1>2
      <4>2. PICK l : l = stream[i + 1].lines
        OBVIOUS
      <4>3. Fresh(t, l, i + 1)
        BY <3>1, <3>2, <4>1, <4>2 DEF WaitsFor
      <4>4. PICK k \in Nat : k = i + 1
        BY <4>1
      <4>5. Fresh(t, l, i)' /\ l = stream'[i].lines
        BY <2>2, <4>1, <4>2, <4>3, <4>4
      <4> QED
        BY <4>5
    <3>3. ASSUME calls[t].answer = "ok"
          PROVE  Fresh(t, calls[t].lines, 0)'
      <4>1. PICK l : l = calls[t].lines
        OBVIOUS
      <4>2. Fresh(t, l, 0)
        BY <3>1, <3>3, <4>1 DEF WaitsFor
      <4>3. Fresh(t, l, 0)' /\ l = calls'[t].lines
        BY <1>1, <2>2, <4>1, <4>2
      <4> QED
        BY <4>3
    <3> QED
      BY <1>1, <3>1, <3>2, <3>3 DEF WaitsFor
  <2> QED
    BY <1>1, <2>1, <2>3 DEF ResInv, AnswersFresh
<1>7. ASSUME NEW e \in bps'
      PROVE  Shown(e)'
  <2>1. PICK b \in bps : /\ e.id = b.id /\ e.req = b.req /\ e.adapterID = b.adapterID
                         /\ b.adapterID \notin m.lines => e = b
                         /\ b.adapterID \in m.lines => e.line = Place(b.req)
    BY <1>4
  <2>2. Shown(b)
    BY DEF ResInv
  <2>3. ASSUME KnownTo(b) PROVE KnownTo(e)'
    <3>1. \A i \in 1..Len(stream') :
              stream'[i].msg = "breakpoint" /\ b.req \in stream'[i].lines => b.req \in resolved
      BY <1>2, <2>3 DEF KnownTo
    <3> QED
      BY <1>1, <2>1, <2>3, <3>1 DEF KnownTo
  <2>4. CASE b.adapterID \notin m.lines
    BY <2>1, <2>2, <2>3, <2>4 DEF Shown
  <2>5. CASE b.adapterID \in m.lines
    <3>1. b.adapterID # 0
      BY <1>3, <2>5, BreakpointsAssumption
    <3>2. KnownTo(b)
      BY <2>2, <3>1 DEF Shown
    <3>3. b.req \in resolved
      BY <1>2, <1>3, <2>5, <3>2 DEF KnownTo
    <3> QED
      BY <2>1, <2>3, <2>5, <3>1, <3>2, <3>3 DEF Shown
  <2> QED
    BY <2>4, <2>5
<1> QED
  BY <1>5, <1>6, <1>7 DEF ResInv

\* A message of either kind is read.
LEMMA DeliverShown ==
    ASSUME BpInv, ResInv, Deliver
    PROVE  ResInv'
<1>1. /\ stream # <<>> /\ stream' = Tail(stream)
      /\ UNCHANGED <<nextBP, seq, inbox, list, resolved>>
  BY DEF Deliver
<1>2. CASE Head(stream).msg = "response"
  BY <1>1, <1>2, OnResponseShown DEF Deliver
<1>3. CASE Head(stream).msg # "response"
  BY <1>1, <1>3, OnBreakpointShown DEF Deliver
<1> QED
  BY <1>2, <1>3

\* The adapter takes a list: every breakpoint it knows of is in it.
LEMMA AdapterTakesShown ==
    ASSUME BpInv, ResInv, AdapterTakes
    PROVE  ResInv'
<1> DEFINE m == Head(inbox)
           S == [id : Nat, list : SlotLists]
<1>1. /\ inbox \in Seq(S) /\ stream \in Seq(Messages) /\ seq \in Nat
      /\ inbox # <<>> /\ inbox' = Tail(inbox) /\ resolved \subseteq Lines
      /\ UNCHANGED <<bps, nextBP, calls, seq>>
  BY DEF BpInv, BpTypeOK, AdapterTakes, sessionVars, threadVars
<1> HIDE DEF S
<1>2. /\ Len(inbox) \in Nat /\ Len(inbox) >= 1 /\ Len(inbox') = Len(inbox) - 1
      /\ m = inbox[1] /\ m \in S
      /\ \A i \in 1..Len(inbox') : inbox'[i] = inbox[i + 1] /\ i + 1 \in 1..Len(inbox)
  BY <1>1, OneRead
<1>3. m.id \in Nat /\ m.list \in SlotLists
  <2> HIDE DEF m
  <2> QED
    BY <1>2 DEF S
<1>4. \E ok \in BOOLEAN, lines \in SUBSET Lines :
         /\ stream' = Append(stream, [msg |-> "response", id |-> m.id, ok |-> ok, lines |-> lines])
         /\ lines \subseteq resolved' /\ resolved' \subseteq DOMAIN list'
         /\ ok => list' = m.list
         /\ list' = m.list \/ list' = list
         /\ resolved \cap DOMAIN list' \subseteq resolved'
  <2>0. resolved \subseteq DOMAIN list /\ DOMAIN m.list \subseteq Lines
    BY <1>3 DEF ResInv, SlotLists
  <2>1. CASE /\ list' = m.list
             /\ \E new \in SUBSET (DOMAIN m.list \ DOMAIN list) :
                   resolved' = (resolved \cap DOMAIN m.list) \cup new
             /\ stream' = Append(stream, [msg |-> "response", id |-> m.id, ok |-> TRUE, lines |-> resolved'])
    <3> HIDE DEF m
    <3>1. resolved' \subseteq DOMAIN list' /\ resolved \cap DOMAIN list' \subseteq resolved' /\ resolved' \in SUBSET Lines
      BY <2>0, <2>1
    <3> QED
      BY <2>1, <3>1
  <2>2. CASE /\ list' = list /\ resolved' = resolved
             /\ stream' = Append(stream, [msg |-> "response", id |-> m.id, ok |-> FALSE, lines |-> {}])
    <3> HIDE DEF m
    <3>1. {} \in SUBSET Lines
      OBVIOUS
    <3> QED
      BY <2>0, <2>2, <3>1
  <2> QED
    BY <2>1, <2>2 DEF AdapterTakes
<1>5. PICK ok \in BOOLEAN, lines \in SUBSET Lines :
         /\ stream' = Append(stream, [msg |-> "response", id |-> m.id, ok |-> ok, lines |-> lines])
         /\ lines \subseteq resolved' /\ resolved' \subseteq DOMAIN list'
         /\ ok => list' = m.list
         /\ list' = m.list \/ list' = list
         /\ resolved \cap DOMAIN list' \subseteq resolved'
  BY <1>4
<1> DEFINE r == [msg |-> "response", id |-> m.id, ok |-> ok, lines |-> lines]
<1>r. r \in Messages /\ r.msg = "response" /\ r.id = m.id /\ (r.ok => ok) /\ r.lines = lines
  BY <1>3 DEF Messages
<1> HIDE DEF m, r
<1>6. /\ Len(stream) \in Nat /\ Len(stream') = Len(stream) + 1
      /\ \A i \in 1..Len(stream) : stream'[i] = stream[i]
      /\ stream'[Len(stream')] = r
  <2>1. stream' = Append(stream, r)
    BY <1>5 DEF r
  <2> QED
    BY <1>1, <1>r, <2>1
<1>7. IdsApart'
  BY <1>1 DEF ResInv, IdsApart
<1>8. ASSUME NEW t \in Threads, calls'[t].pc = "wait", calls'[t].answer # "err"
      PROVE  WaitsFor(t)'
  <2>1. WaitsFor(t) /\ calls'[t] = calls[t]
    BY <1>1, <1>8 DEF ResInv, AnswersFresh
  <2>2. calls[t].answer # "ok"
    BY <1>1, <2>1 DEF WaitsFor, Fresh
  <2>3. ASSUME NEW i \in 1..Len(inbox'), calls[t].answer = "none", inbox'[i].id = seq'
        PROVE  inbox'[i].list = SlotsFor(calls'[t].slots)
    BY <1>1, <1>2, <2>1, <2>3 DEF WaitsFor
  <2>4. ASSUME NEW i \in 1..Len(stream'), calls[t].answer = "none",
               stream'[i].msg = "response", stream'[i].ok, stream'[i].id = seq'
        PROVE  Fresh(t, stream[i].lines, i)'
    <3>1. i = Len(stream')
      <4> SUFFICES ASSUME i \in 1..Len(stream) PROVE FALSE
        BY <1>6
      <4>1. Fresh(t, stream[i].lines, i)
        BY <1>1, <1>6, <2>1, <2>4 DEF WaitsFor
      <4> QED
        BY <1>1, <4>1 DEF Fresh
    <3>2. m.id = seq /\ ok /\ stream'[i].lines = lines
      BY <1>1, <1>6, <1>r, <2>4, <3>1
    <3>3. 1 \in 1..Len(inbox) /\ inbox[1].id = seq
      BY <1>2, <3>2
    <3>4. Len(inbox) = 1 /\ m.list = SlotsFor(calls[t].slots)
      <4>1. 1 = Len(inbox)
        BY <3>3 DEF ResInv, AnswersFresh
      <4> QED
        BY <1>2, <2>1, <2>4, <3>3, <4>1 DEF WaitsFor
    <3>5. inbox' = <<>>
      <4>1. inbox' \in Seq(S) /\ Len(inbox') = 0
        BY <1>1, <1>2, <3>4
      <4> QED
        BY <4>1
    <3>6. DOMAIN list' = Reqs(calls'[t].slots)
      BY <1>5, <2>1, <3>2, <3>4 DEF SlotsFor, Reqs
    <3>7. \A j \in 1..Len(stream') : ~(j > i)
      BY <1>6, <3>1
    <3> QED
      BY <1>5, <3>2, <3>5, <3>6, <3>7 DEF Fresh
  <2> QED
    BY <1>1, <2>1, <2>2, <2>3, <2>4 DEF WaitsFor
<1>9. AnswersFresh'
  <2>1. ASSUME NEW i \in 1..Len(inbox')
        PROVE  inbox'[i].id <= seq' /\ (inbox'[i].id = seq' => i = Len(inbox'))
    <3>1. inbox'[i] = inbox[i + 1] /\ i + 1 \in 1..Len(inbox) /\ Len(inbox') = Len(inbox) - 1
      BY <1>2
    <3>2. inbox[i + 1].id <= seq /\ (inbox[i + 1].id = seq => i + 1 = Len(inbox))
      BY <3>1 DEF ResInv, AnswersFresh
    <3>3. i + 1 = Len(inbox) => i = Len(inbox')
      BY <1>2, <3>1
    <3> QED
      BY <1>1, <3>1, <3>2, <3>3
  <2>2. \A i \in 1..Len(stream') : stream'[i].id <= seq'
    <3>1. m.id <= seq
      BY <1>2 DEF ResInv, AnswersFresh
    <3>2. \A i \in 1..Len(stream) : stream[i].id <= seq
      BY DEF ResInv, AnswersFresh
    <3>3. ASSUME NEW i \in 1..Len(stream')
          PROVE  i \in 1..Len(stream) \/ i = Len(stream')
      BY <1>6
    <3>4. stream'[Len(stream')].id <= seq /\ \A i \in 1..Len(stream) : stream'[i].id <= seq
      BY <1>6, <1>r, <3>1, <3>2
    <3> QED
      BY <1>1, <3>3, <3>4
  <2>3. \A t \in Threads : calls'[t].pc # "wait" => calls'[t].answer = "none"
    BY <1>1 DEF ResInv, AnswersFresh
  <2> QED
    BY <1>8, <2>1, <2>2, <2>3 DEF AnswersFresh
<1>10. ASSUME NEW b \in bps'
       PROVE  Shown(b)'
  <2>1. b \in bps /\ Shown(b)
    BY <1>1 DEF ResInv
  <2>2. ASSUME KnownTo(b)
        PROVE  KnownTo(b)' /\ (b.req \in resolved => b.req \in resolved')
    <3>1. b.req \in DOMAIN list'
      BY <1>2, <1>5, <2>2 DEF KnownTo
    <3>2. b.req \in resolved => b.req \in resolved'
      BY <1>5, <3>1
    <3>3. \A i \in 1..Len(inbox') : b.req \in DOMAIN inbox'[i].list
      BY <1>2, <2>2 DEF KnownTo
    <3>4. ASSUME NEW i \in 1..Len(stream'), stream'[i].msg = "breakpoint", b.req \in stream'[i].lines
          PROVE  b.req \in resolved'
      <4>1. i \in 1..Len(stream)
        BY <1>6, <1>r, <3>4
      <4> QED
        BY <1>6, <2>2, <3>2, <3>4, <4>1 DEF KnownTo
    <3> QED
      BY <1>1, <2>2, <3>1, <3>2, <3>3, <3>4 DEF KnownTo
  <2> QED
    BY <2>1, <2>2 DEF Shown
<1> QED
  BY <1>5, <1>7, <1>9, <1>10 DEF ResInv

\* It resolves another line, and says so.
LEMMA AdapterResolvesShown ==
    ASSUME BpInv, ResInv, NEW l \in Lines, AdapterResolves(l)
    PROVE  ResInv'
<1> DEFINE r == [msg |-> "breakpoint", id |-> 0, ok |-> TRUE, lines |-> {l}]
<1>1. /\ stream \in Seq(Messages) /\ seq \in Nat /\ stream' = Append(stream, r)
      /\ l \in DOMAIN list /\ resolved' = resolved \cup {l}
      /\ UNCHANGED <<bps, nextBP, calls, seq, inbox, list>>
  BY DEF BpInv, BpTypeOK, AdapterResolves, sessionVars, threadVars
<1>r. r \in Messages /\ r.msg = "breakpoint" /\ r.id = 0 /\ r.lines = {l}
  BY DEF Messages
<1> HIDE DEF r
<1>2. /\ Len(stream) \in Nat /\ Len(stream') = Len(stream) + 1
      /\ \A i \in 1..Len(stream) : stream'[i] = stream[i]
      /\ stream'[Len(stream')] = r
  BY <1>1, <1>r
<1>3. IdsApart'
  BY <1>1 DEF ResInv, IdsApart
<1>4. ASSUME NEW t \in Threads, NEW lines, NEW n, Fresh(t, lines, n)
      PROVE  Fresh(t, lines, n)'
  <2>1. ASSUME NEW j \in 1..Len(stream'), j > n, stream'[j].msg = "breakpoint"
        PROVE  stream'[j].lines \subseteq resolved'
    <3>1. CASE j \in 1..Len(stream)
      BY <1>1, <1>2, <1>4, <2>1, <3>1 DEF Fresh
    <3>2. CASE j = Len(stream')
      BY <1>1, <1>2, <1>r, <3>2
    <3> QED
      BY <1>2, <3>1, <3>2
  <2> QED
    BY <1>1, <1>4, <2>1 DEF Fresh
<1>5. ASSUME NEW t \in Threads, calls'[t].pc = "wait", calls'[t].answer # "err"
      PROVE  WaitsFor(t)'
  <2>1. WaitsFor(t)
    BY <1>1, <1>5 DEF ResInv, AnswersFresh
  <2>2. ASSUME NEW i \in 1..Len(stream'), calls[t].answer = "none",
               stream'[i].msg = "response", stream'[i].ok, stream'[i].id = seq'
        PROVE  Fresh(t, stream[i].lines, i)'
    <3>1. i \in 1..Len(stream) /\ stream'[i] = stream[i]
      BY <1>2, <1>r, <2>2
    <3>2. PICK ls : ls = stream[i].lines
      OBVIOUS
    <3>3. Fresh(t, ls, i)
      BY <1>1, <2>1, <2>2, <3>1, <3>2 DEF WaitsFor
    <3>4. Fresh(t, ls, i)' /\ ls = stream'[i].lines
      BY <1>4, <3>1, <3>2, <3>3
    <3> QED
      BY <3>4
  <2>3. ASSUME calls[t].answer = "ok"
        PROVE  Fresh(t, calls[t].lines, 0)'
    <3>1. PICK ls : ls = calls[t].lines
      OBVIOUS
    <3>2. Fresh(t, ls, 0)
      BY <2>1, <2>3, <3>1 DEF WaitsFor
    <3>3. Fresh(t, ls, 0)' /\ ls = calls'[t].lines
      BY <1>1, <1>4, <3>1, <3>2
    <3> QED
      BY <3>3
  <2> QED
    BY <1>1, <2>1, <2>2, <2>3 DEF WaitsFor
<1>6. AnswersFresh'
  <2>1. \A i \in 1..Len(stream') : stream'[i].id <= seq'
    <3>1. 0 <= seq
      BY <1>1
    <3> QED
      BY <1>1, <1>2, <1>r, <3>1 DEF ResInv, AnswersFresh
  <2> QED
    BY <1>1, <1>5, <2>1 DEF ResInv, AnswersFresh
<1>7. ASSUME NEW b \in bps'
      PROVE  Shown(b)'
  <2>1. b \in bps /\ Shown(b)
    BY <1>1 DEF ResInv
  <2>2. ASSUME KnownTo(b) PROVE KnownTo(b)'
    <3>1. ASSUME NEW i \in 1..Len(stream'), stream'[i].msg = "breakpoint", b.req \in stream'[i].lines
          PROVE  b.req \in resolved'
      <4>1. CASE i \in 1..Len(stream)
        BY <1>1, <1>2, <2>2, <3>1, <4>1 DEF KnownTo
      <4>2. CASE i = Len(stream')
        BY <1>1, <1>2, <1>r, <3>1, <4>2
      <4> QED
        BY <1>2, <4>1, <4>2
    <3> QED
      BY <1>1, <2>2, <3>1 DEF KnownTo
  <2> QED
    BY <1>1, <2>1, <2>2 DEF Shown
<1> QED
  BY <1>1, <1>3, <1>6, <1>7 DEF ResInv

\* New ids are larger than those given out, and apart.
LEMMA IdsGivenOut ==
    ASSUME NEW S, IsFiniteSet(S), S \subseteq Nat, NEW n \in Nat
    PROVE  /\ n + Cardinality(S) \in Nat /\ n + Cardinality(S) >= n
           /\ \A l \in S : /\ n + Cardinality({k \in S : k <= l}) \in Nat
                           /\ n + Cardinality({k \in S : k <= l}) > n
                           /\ n + Cardinality({k \in S : k <= l}) <= n + Cardinality(S)
           /\ \A l, j \in S :
                 n + Cardinality({k \in S : k <= l}) = n + Cardinality({k \in S : k <= j}) => l = j
<1> DEFINE Upto(l) == {k \in S : k <= l}
<1>1. Cardinality(S) \in Nat
  BY FS_CardinalityType
<1>2. ASSUME NEW l \in S
      PROVE  /\ IsFiniteSet(Upto(l)) /\ Cardinality(Upto(l)) \in Nat /\ l \in Upto(l)
             /\ Cardinality(Upto(l)) <= Cardinality(S) /\ Cardinality(Upto(l)) # 0
  <2>1. Upto(l) \subseteq S /\ l \in Upto(l)
    BY <1>2
  <2> HIDE DEF Upto
  <2>2. IsFiniteSet(Upto(l)) /\ Cardinality(Upto(l)) <= Cardinality(S)
    BY <2>1, FS_Subset
  <2>3. Cardinality(Upto(l)) \in Nat /\ (Cardinality(Upto(l)) = 0 <=> Upto(l) = {})
    BY <2>2, FS_CardinalityType, FS_EmptySet
  <2> QED
    BY <2>1, <2>2, <2>3
<1>3. ASSUME NEW l \in S, NEW j \in S, Cardinality(Upto(l)) = Cardinality(Upto(j)), l < j
      PROVE  FALSE
  <2>0. l \in Nat /\ j \in Nat /\ \A k \in S : k \in Nat
    OBVIOUS
  <2>1. Upto(l) \subseteq Upto(j) /\ j \notin Upto(l)
    <3>1. l < j
      BY <1>3
    <3>2. ASSUME NEW k \in S, k <= l
          PROVE  k <= j
      BY <2>0, <3>1, <3>2
    <3>3. ~(j <= l)
      BY <2>0, <3>1
    <3> QED
      BY <3>2, <3>3
  <2>2. IsFiniteSet(Upto(j)) /\ j \in Upto(j)
    BY <1>2
  <2> HIDE DEF Upto
  <2>3. Upto(l) = Upto(j)
    BY <1>3, <2>1, <2>2, FS_Subset
  <2> QED
    BY <2>1, <2>2, <2>3
<1>4. ASSUME NEW l \in S, NEW j \in S, Cardinality(Upto(l)) = Cardinality(Upto(j))
      PROVE  l = j
  <2>1. l \in Nat /\ j \in Nat
    OBVIOUS
  <2>2. ~(l < j) /\ ~(j < l)
    BY <1>3, <1>4
  <2> QED
    BY <2>1, <2>2
<1>5. \A l \in S : /\ n + Cardinality(Upto(l)) \in Nat /\ n + Cardinality(Upto(l)) > n
                   /\ n + Cardinality(Upto(l)) <= n + Cardinality(S)
  <2> HIDE DEF Upto
  <2> QED
    BY <1>1, <1>2
<1>6. \A l, j \in S : n + Cardinality(Upto(l)) = n + Cardinality(Upto(j)) => l = j
  <2> SUFFICES ASSUME NEW l \in S, NEW j \in S, n + Cardinality(Upto(l)) = n + Cardinality(Upto(j))
               PROVE  l = j
    OBVIOUS
  <2>1. Cardinality(Upto(l)) \in Nat /\ Cardinality(Upto(j)) \in Nat
    BY <1>2
  <2>2. Cardinality(Upto(l)) = Cardinality(Upto(j))
    <3> HIDE DEF Upto
    <3> QED
      BY <2>1
  <2> QED
    BY <1>4, <2>2
<1> QED
  BY <1>1, <1>5, <1>6

\* A breakpoint with an id and a line that the adapter does not know.
Unknown(b, i, line) == b.id = i /\ b.req = line /\ b.adapterID = 0 /\ ~b.verified

\* A new breakpoint is one of those.
LEMMA NewShown ==
    ASSUME NEW i, NEW c, NEW line, NEW cond, NEW log
    PROVE  /\ Unknown(NewBreakpoint(i, c, line, cond, log), i, line)
           /\ Unknown([NewBreakpoint(i, c, line, cond, log) EXCEPT !.editor = TRUE], i, line)
           /\ Unknown([NewBreakpoint(i, c, line, cond, log) EXCEPT !.temp = TRUE], i, line)
BY DEF NewBreakpoint, Unknown

\* A changed one is shown as it was.
LEMMA UpdateSame ==
    ASSUME NEW b \in Breakpoint, NEW cond, NEW log
    PROVE  /\ Same([Update(b, cond, log) EXCEPT !.temp = FALSE], b)
           /\ Same([Update(b, cond, log) EXCEPT !.editor = TRUE], b)
BY DEF Update, Breakpoint, Same

\* A request that changes the list and is then to sync it.
LEMMA ChangedShown ==
    ASSUME BpInv, ResInv, BpInv', NEW t \in Threads, NEW call \in Calls, Set(t, call), Elsewhere(call),
           UNCHANGED <<seq, inbox, list, resolved, stream>>,
           nextBP' >= nextBP, \A b \in bps' : Came(b),
           \A b, d \in bps' : b.id = d.id /\ b.id > nextBP => b.req = d.req
    PROVE  ResInv'
<1>1. nextBP' \in Nat /\ bps' \subseteq Breakpoint
  BY DEF BpInv, BpTypeOK
<1>2. \A u \in Threads : calls'[u] = calls[u] \/ Elsewhere(calls'[u])
  BY ElsewhereFrame
<1> QED
  BY <1>1, <1>2, ShownFrame

\* The call of a request that is to sync.
LEMMA SyncingElsewhere ==
    ASSUME NEW t, NEW k \in {"none", "configure", "add", "replace", "remove", "leave", "execute"},
           NEW c \in Clients \cup {None}
    PROVE  /\ Syncing(Begin(t, k, c), "done") \in Calls /\ Elsewhere(Syncing(Begin(t, k, c), "done"))
           /\ Ended(Begin(t, k, c)) \in Calls /\ Elsewhere(Ended(Begin(t, k, c)))
<1>1. Begin(t, k, c) \in Calls /\ Begin(t, k, c).answer = "none"
  <2>1. Begin(t, k, c).answer = "none"
    BY DEF Begin, Idle
  <2> QED
    BY <2>1, BeginCall
<1>2. "done" \in Thens /\ "done" \in Pcs
  BY DEF Thens, Pcs
<1>3. Syncing(Begin(t, k, c), "done") \in Calls /\ Elsewhere(Syncing(Begin(t, k, c), "done"))
  BY <1>1, <1>2, SyncingCall, AnswerKept DEF Elsewhere
<1>4. Ended(Begin(t, k, c)) \in Calls /\ Elsewhere(Ended(Begin(t, k, c)))
  BY <1>1, <1>2, GoToCall, AnswerKept DEF Elsewhere
<1> QED
  BY <1>3, <1>4

\* AddBreakpoint.
LEMMA AddBreakpointShown ==
    ASSUME BpInv, ResInv, BpInv', NEW t \in Requests, NEW c \in Clients, NEW spec \in Specs,
           AddBreakpoint(t, c, spec.line, spec.cond, spec.log)
    PROVE  ResInv'
<1> DEFINE own == {b \in bps : b.owner = c /\ b.req = spec.line}
           call == Syncing(Begin(t, "add", c), "done")
<1>1. /\ t \in Threads /\ nextBP \in Nat /\ bps \subseteq Breakpoint
      /\ \A b \in bps : b.id \in Nat /\ b.id <= nextBP
  BY Parts DEF Breakpoint, ResInv, IdsApart
<1>2. /\ AddBreakpointLocked(c, spec.line, spec.cond, spec.log) /\ Set(t, call)
      /\ UNCHANGED <<seq, inbox, list, resolved, stream>>
  BY DEF AddBreakpoint, adapterVars
<1>3. call \in Calls /\ Elsewhere(call)
  BY SyncingElsewhere
<1> HIDE DEF call
<1>4. CASE own # {}
  <2> DEFINE o == Older(own)
             n == [Update(o, spec.cond, spec.log) EXCEPT !.temp = FALSE]
  <2>1. o \in bps /\ o \in Breakpoint
    BY <1>1, <1>4, OlderIn
  <2>2. bps' = (bps \ {o}) \cup {n} /\ nextBP' = nextBP
    BY <1>2, <1>4 DEF AddBreakpointLocked
  <2>3. Same(n, o)
    BY <2>1, UpdateSame
  <2> HIDE DEF o, n
  <2>4. \A b \in bps' : \E d \in bps : Same(b, d)
    BY <2>1, <2>2, <2>3 DEF Same
  <2>5. \A b \in bps' : Came(b) /\ b.id \in Nat /\ b.id <= nextBP
    BY <1>1, <2>4 DEF Came, Same
  <2> QED
    BY <1>1, <1>2, <1>3, <2>2, <2>5, ChangedShown
<1>5. CASE own = {}
  <2> DEFINE n == NewBreakpoint(nextBP + 1, c, spec.line, spec.cond, spec.log)
  <2>1. bps' = bps \cup {n} /\ nextBP' = nextBP + 1
    BY <1>2, <1>5 DEF AddBreakpointLocked
  <2>2. n.id = nextBP + 1 /\ n.adapterID = 0 /\ ~n.verified
    <3>1. Unknown(n, nextBP + 1, spec.line)
      BY NewShown
    <3> HIDE DEF n
    <3> QED
      BY <3>1 DEF Unknown
  <2> HIDE DEF n
  <2>3. \A b \in bps' : Came(b)
    BY <1>1, <2>1, <2>2 DEF Came, Same
  <2>4. \A b \in bps' : b.id > nextBP => b = n
    BY <1>1, <2>1
  <2>5. nextBP' >= nextBP
    BY <1>1, <2>1
  <2> QED
    BY <1>1, <1>2, <1>3, <2>3, <2>4, <2>5, ChangedShown
<1> QED
  BY <1>4, <1>5

\* placeTarget.
LEMMA PlaceTargetShown ==
    ASSUME BpInv, ResInv, BpInv', NEW t \in Requests, PlaceTarget(t)
    PROVE  ResInv'
<1> DEFINE c == calls[t]
           own == {b \in bps : b.owner = c.client /\ b.req = c.line /\ ~b.log}
<1>1. /\ t \in Threads /\ nextBP \in Nat /\ bps \subseteq Breakpoint
      /\ \A b \in bps : b.id \in Nat /\ b.id <= nextBP
  BY Parts DEF Breakpoint, ResInv, IdsApart
<1>2. /\ c \in Calls /\ c.answer = "none"
      /\ UNCHANGED <<seq, inbox, list, resolved, stream>>
  BY <1>1, Parts DEF PlaceTarget, adapterVars, ResInv, AnswersFresh
<1>3. CASE own # {}
  <2> DEFINE call == [c EXCEPT !.pc = "execute"]
  <2>1. Set(t, call) /\ UNCHANGED <<bps, nextBP>>
    BY <1>3 DEF PlaceTarget
  <2>2. call \in Calls /\ Elsewhere(call)
    BY <1>2 DEF Calls, Pcs, Elsewhere
  <2> HIDE DEF call
  <2> QED
    BY <1>1, <1>2, <2>1, <2>2, ElsewhereFrame, FewerFrame
<1>4. CASE own = {}
  <2> DEFINE call == [Syncing(c, "execute") EXCEPT !.temp = nextBP + 1]
             n == [NewBreakpoint(nextBP + 1, c.client, c.line, c.cond, FALSE) EXCEPT !.temp = TRUE]
  <2>1. Set(t, call) /\ bps' = bps \cup {n} /\ nextBP' = nextBP + 1
    BY <1>4 DEF PlaceTarget
  <2>2. call \in Calls /\ Elsewhere(call)
    <3>1. nextBP + 1 \in Nat
      BY <1>1
    <3> QED
      BY <1>2, <3>1 DEF Calls, Pcs, Elsewhere, Syncing, Thens
  <2>3. n.id = nextBP + 1 /\ n.adapterID = 0 /\ ~n.verified
    <3>1. Unknown(n, nextBP + 1, c.line)
      BY NewShown
    <3> HIDE DEF n
    <3> QED
      BY <3>1 DEF Unknown
  <2> HIDE DEF call, n
  <2>4. \A b \in bps' : Came(b)
    BY <1>1, <2>1, <2>3 DEF Came, Same
  <2>5. \A b \in bps' : b.id > nextBP => b = n
    BY <1>1, <2>1
  <2>6. nextBP' >= nextBP
    BY <1>1, <2>1
  <2> QED
    BY <1>1, <1>2, <2>1, <2>2, <2>4, <2>5, <2>6, ChangedShown
<1> QED
  BY <1>3, <1>4

\* ReplaceBreakpoints.
LEMMA ReplaceShown ==
    ASSUME BpInv, ResInv, BpInv', NEW t \in Requests, NEW c \in Clients, NEW items \in Lists,
           Replace(t, c, items)
    PROVE  ResInv'
<1> DEFINE wanted  == DOMAIN items
           old     == {b \in bps : b.owner = c /\ ~b.temp}
           match   == MatchItems(old, wanted)
           matched == UNION Range(match)
           gone    == {b \in old \ matched : b.editor}
           fresh   == {l \in wanted : match[l] = {}}
           idOf(l) == nextBP + Cardinality({k \in fresh : k <= l})
           changed(l) == {[Update(b, items[l], FALSE) EXCEPT !.editor = TRUE] : b \in match[l]}
           added(l) == [NewBreakpoint(idOf(l), c, l, items[l], FALSE) EXCEPT !.editor = TRUE]
           call == Syncing(Begin(t, "replace", c), "done")
<1>1. /\ t \in Threads /\ nextBP \in Nat /\ bps \subseteq Breakpoint
      /\ \A b \in bps : b.id \in Nat /\ b.id <= nextBP
  BY Parts DEF Breakpoint, ResInv, IdsApart
<1>2. /\ Set(t, call) /\ UNCHANGED <<seq, inbox, list, resolved, stream>>
      /\ bps' = (bps \ (gone \cup matched)) \cup (UNION {changed(l) : l \in wanted}) \cup {added(l) : l \in fresh}
      /\ nextBP' = nextBP + Cardinality(fresh)
  BY DEF Replace, MatchLocked, adapterVars
<1>3. call \in Calls /\ Elsewhere(call)
  BY SyncingElsewhere
<1>4. fresh \subseteq Nat /\ IsFiniteSet(fresh)
  <2>1. wanted \subseteq Lines /\ IsFiniteSet(wanted) /\ fresh \subseteq wanted
    BY BreakpointsAssumption
  <2> QED
    BY <2>1, FS_Subset, BreakpointsAssumption
<1> HIDE DEF fresh
<1>5. /\ nextBP' >= nextBP
      /\ \A l \in fresh : idOf(l) \in Nat /\ idOf(l) > nextBP /\ idOf(l) <= nextBP'
      /\ \A l, j \in fresh : idOf(l) = idOf(j) => l = j
  BY <1>1, <1>2, <1>4, IdsGivenOut
<1> HIDE DEF idOf
<1>6. \A l \in fresh : /\ added(l).id = idOf(l) /\ added(l).req = l
                    /\ added(l).adapterID = 0 /\ ~added(l).verified
  <2>1. \A l \in fresh : Unknown(added(l), idOf(l), l)
    BY NewShown
  <2> HIDE DEF added
  <2> QED
    BY <2>1 DEF Unknown
<1>7. ASSUME NEW l \in wanted, NEW b \in changed(l)
      PROVE  \E d \in bps : Same(b, d)
  <2>1. PICK d \in match[l] : b = [Update(d, items[l], FALSE) EXCEPT !.editor = TRUE]
    BY <1>7
  <2>2. match[l] \subseteq bps
    <3>1. old \subseteq Breakpoint /\ old \subseteq bps
      BY <1>1
    <3> HIDE DEF old, wanted
    <3>2. match[l] \subseteq old
      BY <3>1, MatchedOld
    <3> QED
      BY <3>1, <3>2
  <2>3. d \in bps /\ d \in Breakpoint
    BY <1>1, <2>1, <2>2
  <2> QED
    BY <2>1, <2>3, UpdateSame
<1> HIDE DEF match, matched, old, wanted, changed, added, gone, call
<1>8. ASSUME NEW b \in bps'
      PROVE  (\E d \in bps : Same(b, d)) \/ \E l \in fresh : b = added(l)
  <2>1. b \in bps => Same(b, b)
    BY DEF Same
  <2>2. b \in bps \/ (\E l \in wanted : b \in changed(l)) \/ (\E l \in fresh : b = added(l))
    BY <1>2, <1>8
  <2> QED
    BY <1>7, <2>1, <2>2
<1>9. \A b \in bps' : Came(b)
  BY <1>5, <1>6, <1>8 DEF Came
<1>10. ASSUME NEW b \in bps', NEW d \in bps', b.id = d.id, b.id > nextBP
       PROVE  b.req = d.req
  <2>1. (\E l \in fresh : b = added(l)) /\ (\E l \in fresh : d = added(l))
    BY <1>1, <1>8, <1>10 DEF Same
  <2>2. PICK l \in fresh, j \in fresh : b = added(l) /\ d = added(j)
    BY <2>1
  <2>3. idOf(l) = idOf(j)
    BY <1>6, <1>10, <2>2
  <2> QED
    BY <1>5, <2>2, <2>3
<1> QED
  BY <1>1, <1>2, <1>3, <1>5, <1>9, <1>10, ChangedShown

\* configurationPhase.
LEMMA ConfigurationShown ==
    ASSUME BpInv, ResInv, BpInv', ConfigurationPhase
    PROVE  ResInv'
<1> DEFINE new == {l \in StartSpecs : \A b \in bps : ~(b.owner = Starter /\ b.req = l)}
           old == {b \in bps : b.owner = Starter /\ b.req \in StartSpecs}
           idOf(l) == nextBP + Cardinality({k \in new : k <= l})
           changed(b) == [Update(b, "", FALSE) EXCEPT !.temp = FALSE]
           added(l) == NewBreakpoint(idOf(l), Starter, l, "", FALSE)
           call == IF bps' = {} THEN Ended(Begin(Configure, "configure", None))
                   ELSE Syncing(Begin(Configure, "configure", None), "done")
<1>1. /\ Configure \in Threads /\ nextBP \in Nat /\ bps \subseteq Breakpoint
      /\ \A b \in bps : b.id \in Nat /\ b.id <= nextBP
  BY Parts DEF Breakpoint, ResInv, IdsApart
<1>2. /\ Set(Configure, call) /\ UNCHANGED <<seq, inbox, list, resolved, stream>>
      /\ bps' = (bps \ old) \cup {changed(b) : b \in old} \cup {added(l) : l \in new}
      /\ nextBP' = nextBP + Cardinality(new)
  BY DEF ConfigurationPhase, adapterVars
<1>3. call \in Calls /\ Elsewhere(call)
  BY SyncingElsewhere
<1>4. new \subseteq Nat /\ IsFiniteSet(new)
  <2>1. StartSpecs \subseteq Lines /\ IsFiniteSet(StartSpecs) /\ new \subseteq StartSpecs
    BY BreakpointsAssumption
  <2> QED
    BY <2>1, FS_Subset, BreakpointsAssumption
<1>5. \A b \in old : b \in bps /\ Same(changed(b), b)
  BY <1>1, UpdateSame
<1> HIDE DEF new, old, call, changed
<1>6. /\ nextBP' >= nextBP
      /\ \A l \in new : idOf(l) \in Nat /\ idOf(l) > nextBP /\ idOf(l) <= nextBP'
      /\ \A l, j \in new : idOf(l) = idOf(j) => l = j
  <2>1. IsFiniteSet(new) /\ new \subseteq Nat /\ nextBP \in Nat /\ nextBP' = nextBP + Cardinality(new)
    BY <1>1, <1>2, <1>4
  <2>2. /\ nextBP + Cardinality(new) >= nextBP
        /\ \A l \in new : /\ idOf(l) \in Nat /\ idOf(l) > nextBP
                         /\ idOf(l) <= nextBP + Cardinality(new)
        /\ \A l, j \in new : idOf(l) = idOf(j) => l = j
    <3>1. PICK S, n : S = new /\ n = nextBP
      OBVIOUS
    <3>2. IsFiniteSet(S) /\ S \subseteq Nat /\ n \in Nat
      BY <2>1, <3>1
    <3>3. /\ n + Cardinality(S) >= n
          /\ \A l \in S : /\ n + Cardinality({k \in S : k <= l}) \in Nat
                          /\ n + Cardinality({k \in S : k <= l}) > n
                          /\ n + Cardinality({k \in S : k <= l}) <= n + Cardinality(S)
          /\ \A l, j \in S :
                n + Cardinality({k \in S : k <= l}) = n + Cardinality({k \in S : k <= j}) => l = j
      BY <3>2, IdsGivenOut
    <3> QED
      BY <3>1, <3>3
  <2> HIDE DEF idOf
  <2> QED
    BY <2>1, <2>2
<1> HIDE DEF idOf
<1>7. \A l \in new : /\ added(l).id = idOf(l) /\ added(l).req = l
                    /\ added(l).adapterID = 0 /\ ~added(l).verified
  <2>1. \A l \in new : Unknown(added(l), idOf(l), l)
    BY NewShown
  <2> HIDE DEF added
  <2> QED
    BY <2>1 DEF Unknown
<1> HIDE DEF added
<1>8. ASSUME NEW b \in bps'
      PROVE  (\E d \in bps : Same(b, d)) \/ \E l \in new : b = added(l)
  <2>1. b \in bps => Same(b, b)
    BY DEF Same
  <2> QED
    BY <1>2, <1>5, <1>8, <2>1
<1>9. \A b \in bps' : Came(b)
  BY <1>6, <1>7, <1>8 DEF Came
<1>10. ASSUME NEW b \in bps', NEW d \in bps', b.id = d.id, b.id > nextBP
       PROVE  b.req = d.req
  <2>1. (\E l \in new : b = added(l)) /\ (\E l \in new : d = added(l))
    BY <1>1, <1>8, <1>10 DEF Same
  <2>2. PICK l \in new, j \in new : b = added(l) /\ d = added(j)
    BY <2>1
  <2>3. idOf(l) = idOf(j)
    BY <1>7, <1>10, <2>2
  <2> QED
    BY <1>6, <2>2, <2>3
<1> QED
  BY <1>1, <1>2, <1>3, <1>6, <1>9, <1>10, ChangedShown

\* The steps of a request.
LEMMA RequestShown ==
    ASSUME BpInv, ResInv, BpInv', NEW t \in Requests, Request(t) \/ Proceed(t)
    PROVE  ResInv'
<1>t. t \in Threads /\ {"done", "place", "execute", "abort"} = Thens
  BY Parts DEF Thens
<1>b. \A k \in {"remove", "leave", "execute"}, c \in Clients :
         Begin(t, k, c) \in Calls /\ Begin(t, k, c).answer = "none"
  <2>1. \A k, c : Begin(t, k, c).answer = "none"
    BY DEF Begin, Idle
  <2> QED
    BY <2>1, BeginCall
<1>1. ASSUME NEW c \in Clients, NEW force \in BOOLEAN, RemoveAll(t, c, force) \/ Leave(t, c)
      PROVE  ResInv'
  BY <1>1, <1>b, <1>t, RemovedShown DEF RemoveAll, Leave
<1>2. ASSUME NEW c \in Clients, NEW line \in Lines \cup {0}, NEW cond \in Conds, Execute(t, c, line, cond)
      PROVE  ResInv'
  <2> DEFINE call == [Begin(t, "execute", c) EXCEPT !.line = line, !.cond = cond]
             then == IF line = 0 THEN "execute" ELSE "place"
  <2>1. call \in Calls /\ call.answer = "none"
    <3>1. Begin(t, "execute", c) \in Calls /\ Begin(t, "execute", c).answer = "none"
      BY <1>b
    <3> QED
      BY <3>1 DEF Calls
  <2>2. RemoveBreakpoints(t, Leftovers(c), call, then)
    BY <1>2 DEF Execute
  <2>3. then \in Thens
    BY <1>t
  <2> HIDE DEF call, then
  <2> QED
    BY <2>1, <2>2, <2>3, RemovedShown
<1>3. ASSUME NEW then \in Thens, NEW gone, calls[t].pc # "wait",
             RemoveBreakpoints(t, gone, [calls[t] EXCEPT !.temp = 0], then)
      PROVE  ResInv'
  <2> DEFINE call == [calls[t] EXCEPT !.temp = 0]
  <2>1. calls[t] \in Calls /\ calls[t].answer = "none"
    BY <1>3, <1>t, Parts DEF ResInv, AnswersFresh
  <2>2. call \in Calls /\ call.answer = "none"
    BY <2>1 DEF Calls
  <2>3. RemoveBreakpoints(t, gone, call, then)
    BY <1>3
  <2> HIDE DEF call
  <2> QED
    BY <2>2, <2>3, RemovedShown
<1>4. CASE Proceed(t)
  <2>1. CASE RemoveBreakpoint(t) \/ Unplace(t) \/ RunUntilStopped(t)
    BY <1>3, <1>t, <2>1 DEF RemoveBreakpoint, Unplace, RunUntilStopped
  <2> QED
    BY <1>4, <2>1, PlaceTargetShown, OthersShown DEF Proceed
<1>5. ASSUME NEW spec \in Specs
      PROVE  spec.line \in Lines \cup {0} /\ spec.cond \in Conds
  BY <1>5, BreakpointsAssumption
<1>6. CASE Request(t)
  <2>1. CASE \E c \in Clients, spec \in Specs : AddBreakpoint(t, c, spec.line, spec.cond, spec.log)
    BY <2>1, AddBreakpointShown
  <2>2. CASE \E c \in Clients, items \in Lists : Replace(t, c, items)
    BY <2>2, ReplaceShown
  <2>3. CASE \E c \in Clients, b \in bps, force \in BOOLEAN : FindBreakpoint(t, c, b, force)
    BY <2>3, OthersShown
  <2>4. CASE \E c \in Clients : Leave(t, c) \/ \E force \in BOOLEAN : RemoveAll(t, c, force)
    BY <1>1, <2>4
  <2>5. CASE \E c \in Clients : Execute(t, c, 0, "") \/ \E spec \in Specs : Execute(t, c, spec.line, spec.cond)
    BY <1>2, <1>5, <2>5, BreakpointsAssumption
  <2> QED
    BY <1>6, <2>1, <2>2, <2>3, <2>4, <2>5 DEF Request
<1> QED
  BY <1>4, <1>6

\* It holds at first.
LEMMA ResInit == Init => ResInv
<1> SUFFICES ASSUME Init PROVE ResInv
  OBVIOUS
<1>1. /\ bps = {} /\ inbox = <<>> /\ stream = <<>> /\ resolved = {}
      /\ \A t \in Threads : calls[t] = Idle
  BY DEF Init
<1>2. \A t \in Threads : calls[t].pc = "idle" /\ calls[t].answer = "none"
  <2>1. Idle.pc = "idle" /\ Idle.answer = "none"
    BY DEF Idle
  <2> QED
    BY <1>1, <2>1
<1>3. Len(inbox) = 0 /\ Len(stream) = 0
  BY <1>1
<1> QED
  BY <1>1, <1>2, <1>3 DEF ResInv, IdsApart, AnswersFresh

\* Every step keeps it.
LEMMA ResNext ==
    ASSUME BpInv, BpInv', ResInv, [Next]_vars
    PROVE  ResInv'
<1>1. CASE UNCHANGED vars
  <2>1. UNCHANGED <<bps, nextBP, calls, seq, inbox, list, resolved, stream>>
    BY <1>1 DEF vars, sessionVars, threadVars, adapterVars
  <2> QED
    BY <2>1, FewerFrame
<1>2. ASSUME NEW t \in Threads, Sync(t)
      PROVE  ResInv'
  BY <1>2, OthersShown, SyncStartShown, SyncSendShown, SyncEndShown DEF Sync
<1>3. CASE ConfigurationPhase \/ Deliver \/ AdapterTakes \/ \E l \in Lines : AdapterResolves(l)
  BY <1>3, ConfigurationShown, DeliverShown, AdapterTakesShown, AdapterResolvesShown
<1>4. CASE AdapterInitialized \/ ProgramStops
  BY <1>4, OthersShown
<1>5. ASSUME NEW t \in Requests, Request(t) \/ Proceed(t)
      PROVE  ResInv'
  BY <1>5, RequestShown
<1> QED
  BY <1>1, <1>2, <1>3, <1>4, <1>5 DEF Next

\* The inductive invariant of what the session shows of the adapter's copy.
THEOREM ResolutionKept == Spec => []ResInv
<1>1. BpInv /\ BpInv' /\ ResInv /\ [Next]_vars => ResInv'
  BY ResNext
<1> QED
  BY <1>1, ResInit, BreakpointsKept, PTL DEF Spec

\* What the session shows as verified is: the adapter resolved that line and
\* keeps it, and the breakpoint is shown where the adapter placed it, at any
\* time, whatever was given up on, refused or overtaken (applySlotsLocked,
\* updateBreakpointLocked).
THEOREM VerifiedIsResolved == Spec => []VerifiedResolved
<1>1. ResInv => VerifiedResolved
  BY DEF ResInv, Shown, VerifiedResolved
<1> QED
  BY <1>1, ResolutionKept, PTL

\* Once all breakpoints are verified, the program is seen to stop at a line
\* exactly when a breakpoint there wants it, for any clients, lines,
\* placements, conditions and logpoints (slotsFor, needsFilterLocked, decide).
THEOREM ProgramStopsExactly == Spec => []StopsExactly
<1>1. ASSUME BpInv, ResInv, ListNewest
      PROVE  StopsWanted
  <2> SUFFICES ASSUME Quiet, refusals = 0, \A b \in bps : b.verified,
                      NEW p \in Lines, NEW true \in SUBSET (Conds \ {""})
               PROVE  (AdapterStops(p, true) /\ (NeedsFilter => Decide(p, true))) = Wanted(p, true)
    BY DEF StopsWanted
  <2>1. list = SlotsFor(bps)
    BY <1>1 DEF ListNewest
  <2>2. \A b \in bps : b.line = Place(b.req) /\ b.req \in resolved
    BY <1>1 DEF ResInv, Shown
  <2>3. \A l \in resolved : \E b \in bps : b.req = l
    BY <1>1, <2>1 DEF ResInv, SlotsFor
  <2> DEFINE At(l) == {b \in bps : b.req = l}
  <2>4. ASSUME NEW b \in bps
        PROVE  /\ list[b.req] = "" \/ \A d \in bps : d.req = b.req => d.cond = list[b.req]
               /\ (\A d \in bps : d.req = b.req => d.cond = b.cond) => list[b.req] = b.cond
    <3>1. list[b.req] = SlotCondition(At(b.req)) /\ b \in At(b.req)
      BY <2>1, <2>4 DEF SlotsFor
    <3> QED
      BY <3>1, SlotConditions
  <2>5. ASSUME Wanted(p, true)
        PROVE  AdapterStops(p, true) /\ Decide(p, true)
    <3>1. PICK b \in bps : Place(b.req) = p /\ ~b.log /\ (b.cond = "" \/ b.cond \in true)
      BY <2>5 DEF Wanted
    <3>2. AdapterStops(p, true)
      BY <2>2, <2>4, <3>1 DEF AdapterStops
    <3>3. Decide(p, true)
      BY <2>2, <3>1 DEF Decide, Held, Plan
    <3> QED
      BY <3>2, <3>3
  <2>6. ASSUME AdapterStops(p, true), NeedsFilter => Decide(p, true)
        PROVE  Wanted(p, true)
    <3>1. PICK l \in resolved : Place(l) = p /\ (list[l] = "" \/ list[l] \in true)
      BY <2>6 DEF AdapterStops
    <3>2. PICK b \in bps : b.req = l
      BY <2>3
    <3>3. CASE ~NeedsFilter
      <4>1. ~b.log /\ \A d \in bps : d.req = b.req => d.cond = b.cond
        <5>1. ~b.log
          BY <3>3 DEF NeedsFilter
        <5>2. ASSUME NEW d \in bps, d.req = b.req
              PROVE  d.cond = b.cond
          <6>1. d.line = b.line
            BY <2>2, <5>2
          <6> QED
            BY <3>3, <6>1 DEF NeedsFilter
        <5> QED
          BY <5>1, <5>2
      <4>2. list[l] = b.cond
        BY <2>4, <3>2, <4>1
      <4> QED
        BY <3>1, <3>2, <4>1, <4>2 DEF Wanted
    <3>4. CASE Decide(p, true)
      <4>1. b \in Plan(p)
        BY <2>2, <3>1, <3>2 DEF Plan
      <4>2. PICK d \in Plan(p) : Held(d, Plan(p), true) /\ ~d.log
        BY <3>4, <4>1 DEF Decide
      <4>3. d \in bps /\ Place(d.req) = p
        BY <2>2 DEF Plan
      <4>4. CASE d.cond = "" \/ d.cond \in true
        BY <4>2, <4>3, <4>4 DEF Wanted
      <4>5. CASE \A e \in Plan(p) : e.cond = d.cond
        <5>1. \A e \in bps : e.req = b.req => e.cond = b.cond
          BY <2>2, <3>1, <3>2, <4>1, <4>5 DEF Plan
        <5>2. list[l] = b.cond /\ b.cond = d.cond
          BY <2>4, <3>2, <4>1, <4>5, <5>1
        <5> QED
          BY <3>1, <4>2, <4>3, <5>2 DEF Wanted
      <4> QED
        BY <4>2, <4>4, <4>5 DEF Held
    <3> QED
      BY <2>6, <3>3, <3>4
  <2>7. (AdapterStops(p, true) /\ (NeedsFilter => Decide(p, true))) <=> Wanted(p, true)
    BY <2>5, <2>6
  <2>8. Wanted(p, true) \in BOOLEAN
    BY DEF Wanted
  <2> QED
    BY <2>7, <2>8
<1>2. Spec => []BpInv /\ []ListNewest
  BY BreakpointsKept, AdapterHasNewest
<1>3. Spec => []ResInv
  BY ResolutionKept
<1>4. VerifiedResolved /\ StopsWanted => StopsExactly
  BY DEF StopsExactly
<1> QED
  BY <1>1, <1>2, <1>3, <1>4, VerifiedIsResolved, PTL
=============================================================================
