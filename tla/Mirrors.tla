------------------------------- MODULE Mirrors -------------------------------
(***************************************************************************)
(* What an editor sees of a session's breakpoints in one file              *)
(* (internal/facade/mirrors.go, requests.go setBreakpoints,                *)
(* session/replace.go): its client's own, and mirrors of the others',      *)
(* which the editor adopts at the mark column and sends back as if they    *)
(* were the user's.  The file may be open under several paths (a symlink). *)
(*                                                                         *)
(* Messages between the editor and the connection are in order, but the    *)
(* two overtake each other: the editor sends its list before it has seen   *)
(* the latest events.  A step is what the connection does under its gate,  *)
(* one message handled by the editor, one act of its user, or one change   *)
(* by another client.  The editor is modelled from how VS Code behaves,    *)
(* as mirrors.go describes it.                                             *)
(***************************************************************************)
EXTENDS Integers, Sequences, FiniteSets, FiniteSetsExt

CONSTANTS
    Paths,      \* the file's paths in the editor
    FileKey,    \* the path new mirrors go under before the user set any there
    MaxLine,    \* lines 1 .. MaxLine
    MaxIds,     \* bound: breakpoints the session ever has
    MaxActs,    \* bound: what the user does
    MaxChanges, \* bound: what other clients and the adapter do
    Owners,     \* whose commands set breakpoints: "them", and "me", the client's own
    NoPath

EditorLines == 1 .. MaxLine

VARIABLES
    bps,      \* the session's breakpoints in the file
    nextID,
    view,     \* connection.view
    up,       \* requests on their way to the connection
    down,     \* messages on their way to the editor
    dirty,    \* a breakpoint event is in the log, not yet followed
    entries,  \* the editor's breakpoints
    nextUID,
    acts, changes,
    made,     \* history: the lines the user set a breakpoint of its own on
    crossed   \* history: paths of a list that crossed an event, and of the mirrors it
              \* may have moved, until they send one that crossed none

vars == <<bps, nextID, view, up, down, dirty, entries, nextUID, acts, changes,
          made, crossed>>

Ids(set) == {x.id : x \in set}
ById(id) == CHOOSE b \in bps : b.id = id

----------------------------------------------------------------------------
(***************************************************************************)
(* view: what the connection told its editor.                              *)
(***************************************************************************)

NewView == [lists |-> [p \in Paths |-> {}], reported |-> {}, seen |-> {},
            latest |-> NoPath, mirrors |-> {}, hidden |-> {},
            configured |-> FALSE, leaving |-> FALSE]

Mirrorable(b, v) == b.id \notin v.reported /\ (b.owner # "me" \/ ~b.editor)

\* wanted: per placed line the lowest mirrorable breakpoint, unless the
\* client has its own there; a hidden one takes its line all the same.
Wanted(v, all) ==
    LET ownAt == UNION {{b.line, b.req} : b \in {x \in all : x.id \in v.reported}}
        cand  == {b \in all : Mirrorable(b, v) /\ b.line \notin ownAt}
    IN  {b \in cand : /\ \A d \in cand : d.line = b.line => b.id <= d.id
                      /\ b.id \notin v.hidden}

AnnouncePath(v) == IF v.latest = NoPath THEN FileKey ELSE v.latest

\* Mutant: only a mirror whose breakpoint is gone is retracted.
StillWantedThere(v, want, all) == {m \in v.mirrors : m.id \in Ids(all)}

\* The mirrors reconcile leaves with the editor.
StillWanted(v, want, all) == {m \in v.mirrors : m.id \in Ids(want)}

\* reconcile: the view brought up to date with all, and the events that do it
\* (changed ones say nothing an editor's copy keeps, and are left out).
Reconcile(v, all) ==
    LET left  == v.reported \cap Ids(all)
        v1    == [v EXCEPT !.reported = left,
                           !.lists = [p \in Paths |-> @[p] \cap Ids(all)]]
        want  == Wanted(v1, all)
        stay  == StillWanted(v, want, all)
        added == {[id |-> b.id, path |-> AnnouncePath(v), line |-> b.line] :
                     b \in {x \in want : x.id \notin Ids(v.mirrors)}}
    IN  [view |-> [v1 EXCEPT !.mirrors = stay \cup added,
                             !.hidden = @ \cap Ids(all)],
         event |-> [kind |-> "events", new |-> added,
                    removed |-> (v.reported \ left) \cup Ids(v.mirrors \ stay)]]

Events(e) == IF e.new = {} /\ e.removed = {} THEN <<>> ELSE <<e>>
Removed(ids) == Events([kind |-> "events", new |-> {}, removed |-> ids])

\* The requests still on their way were sent before es, if there are any.
Crossing(reqs, es) == IF es = <<>> THEN reqs
                      ELSE [i \in DOMAIN reqs |-> [reqs[i] EXCEPT !.stale = TRUE]]

----------------------------------------------------------------------------
(***************************************************************************)
(* classify: what each entry of a setBreakpoints is.                       *)
(***************************************************************************)

Lowest(set) == IF set = {} THEN 0 ELSE Min(set)

\* The mirrors at line l: those under the request's path (here), or any.
ShownAt(v, l, paths) == Lowest(Ids({m \in v.mirrors : m.line = l /\ m.path \in paths}))

\* candidate: the breakpoint a copy at line l stands for.
Candidate(v, path, l, used) ==
    LET told == {i \in {ShownAt(v, l, {path}), ShownAt(v, l, Paths)} : i \in Ids(bps) \ used}
        here == ShownAt(v, l, {path})
        at   == {b.id : b \in {x \in bps : l \in {x.line, x.req} /\ Mirrorable(x, v)}} \ used
    IN  IF here \in told THEN here
        ELSE IF told # {} THEN Min(told) ELSE Lowest(at)

\* Mutant: the mark column is not looked at.
MarkedNever(e) == FALSE

\* marked: plain at the mark column, a copy of eyedbg's.
Marked(e) == e.plain /\ e.marked

\* The ids echoed for lines 1 .. n, line by line: no id twice.
Echoes(v, path, list) ==
    LET here(l) == ShownAt(v, l, {path})
        at(l)   == {e \in list : e.line = l}
        echo[n \in 0 .. MaxLine] ==
            IF n = 0 THEN [l \in {} |-> 0]
            ELSE LET before == echo[n - 1]
                     used == {before[l] : l \in DOMAIN before}
                     c    == Candidate(v, path, n, used)
                     id   == IF at(n) = {} THEN 0
                             ELSE IF \A e \in at(n) : Marked(e) THEN c
                             ELSE IF here(n) # 0 /\ \A e \in at(n) : e.plain /\ ~Marked(e)
                                  THEN (IF c # 0 THEN c
                                        ELSE IF here(n) \in used THEN 0 ELSE here(n))
                             ELSE 0
                 IN  [l \in 1 .. n |-> IF l = n THEN id ELSE before[l]]
    IN  echo[MaxLine]

\* The class of entry e of list, where echo is the line's echoed id.
Class(v, path, list, e, echo) ==
    LET same  == {x \in list : x.line = e.line}
        first == \A x \in same : e.uid <= x.uid
        all   == \A x \in same : Marked(x)
        none  == \A x \in same : x.plain /\ ~Marked(x)
    IN  CASE all -> IF first /\ echo # 0 THEN "echo" ELSE "retract"
          [] none /\ ShownAt(v, e.line, {path}) # 0 ->
                IF ~first THEN "duplicate" ELSE IF echo # 0 THEN "echo" ELSE "retract"
          [] OTHER -> IF Marked(e) THEN "retract" ELSE "own"

----------------------------------------------------------------------------
(***************************************************************************)
(* setBreakpoints, under the gate.                                         *)
(***************************************************************************)

\* matchItems: the client's breakpoints that serve the lines asked for, by
\* requested line and then by placed line.
Match(lines) ==
    LET mine == {b \in bps : b.owner = "me"}
        byReq == {b \in mine : b.req \in lines}
        rest == lines \ {b.req : b \in byReq}
        byLine == {b \in mine \ byReq : b.line \in rest
                                        /\ \A d \in mine \ byReq : d.line = b.line => b.id <= d.id}
    IN  [l \in lines |-> IF \E b \in byReq : b.req = l
                         THEN (CHOOSE b \in byReq : b.req = l).id
                         ELSE IF \E b \in byLine : b.line = l
                         THEN (CHOOSE b \in byLine : b.line = l).id ELSE 0]

\* Mutant: a list under one path replaces those of the file's other paths.
KeepNone(v, path) == {}

\* keep: what the file's other paths list.
Keep(v, path) == UNION {v.lists[p] : p \in v.seen \ {path}}

\* ReplaceBreakpoints: the session's breakpoints after it; the new ones get
\* the next ids in the order of their lines.
Replaced(lines, kept) ==
    LET m     == Match(lines)
        fresh == {l \in lines : m[l] = 0}
        idOf(l) == IF m[l] # 0 THEN m[l]
                   ELSE nextID + Cardinality({k \in fresh : k < l})
    IN  [ids |-> [l \in lines |-> idOf(l)], next |-> nextID + Cardinality(fresh),
         bps |-> {[b EXCEPT !.editor = @ \/ \E l \in lines : m[l] = b.id] :
                     b \in {x \in bps : x.owner # "me" \/ ~x.editor \/ x.id \in kept
                                        \/ \E l \in lines : m[l] = x.id}}
                 \cup {[id |-> idOf(l), owner |-> "me", editor |-> TRUE,
                        line |-> l, req |-> l] : l \in fresh}]

\* track: the list's ids are reported, and what no list has any more is not.
Track(v, path, ids) ==
    LET lists == [v.lists EXCEPT ![path] = ids]
        off   == v.lists[path] \ UNION {lists[p] : p \in Paths}
    IN  [v EXCEPT !.lists = lists, !.reported = (@ \cup ids) \ off]

\* settle: echoes are mirrors under path at the line sent; the path's other
\* mirrors leave, hidden unless the list has an entry on their line.
Settle(v, path, list, echo) ==
    LET echoed == {[id |-> echo[l], path |-> path, line |-> l] :
                      l \in {x \in EditorLines : echo[x] # 0}}
        other  == {m \in v.mirrors : m.path # path /\ m.id \notin Ids(echoed)}
        leave  == {m \in v.mirrors : m.path = path /\ m.id \notin Ids(echoed)}
        hide   == {m \in leave : ~\E e \in list : e.line = m.line}
    IN  [v EXCEPT !.mirrors = other \cup echoed,
                  !.hidden = (@ \ Ids(echoed)) \cup Ids(hide)]

\* The worker handles a setBreakpoints: classify, replace, answer, settle,
\* then the retracted copies' removal and the reconcile.
SetBreakpoints ==
    LET r     == Head(up)
        echo  == Echoes(view, r.path, r.list)
        class == [e \in r.list |-> Class(view, r.path, r.list, e, echo[e.line])]
        own   == {e.line : e \in {x \in r.list : class[x] = "own"}}
        after == Replaced(own, Keep(view, r.path))
        first(e) == \A x \in r.list : x.line = e.line /\ class[x] = "own" => e.uid <= x.uid
        id(e) == CASE class[e] = "echo" -> echo[e.line]
                   [] class[e] = "retract" -> - e.uid
                   [] class[e] = "own" /\ first(e) -> after.ids[e.line]
                   [] OTHER -> 0
        echoed == [l \in EditorLines |-> IF \E e \in r.list : e.line = l /\ class[e] = "echo"
                                   THEN echo[l] ELSE 0]
        v1    == [view EXCEPT !.seen = @ \cup {r.path},
                              !.latest = IF own # {} THEN r.path ELSE @]
        v2    == Settle(Track(v1, r.path, {after.ids[l] : l \in own}), r.path, r.list, echoed)
        rec   == Reconcile(v2, after.bps)
        retracts == {- e.uid : e \in {x \in r.list : class[x] = "retract"}}
        answer == <<[kind |-> "answer",
                     ids |-> {[uid |-> e.uid, id |-> id(e)] : e \in r.list}]>>
        events == CASE view.leaving -> <<>>
                    [] view.configured -> Removed(retracts) \o Events(rec.event)
                    [] OTHER -> Removed(retracts)
    IN  /\ up # <<>>
        /\ bps' = after.bps /\ nextID' = after.next
        /\ view' = IF view.leaving \/ ~view.configured THEN v2 ELSE rec.view
        /\ down' = down \o answer \o events
        /\ up' = Crossing(Tail(up), events)
        /\ dirty' = (dirty \/ after.bps # bps)
        /\ crossed' = IF r.stale \/ view.leaving
                      THEN crossed \cup {r.path} \cup {m.path : m \in view.mirrors}
                      ELSE crossed \ {r.path}
        /\ UNCHANGED <<entries, nextUID, acts, changes, made>>

\* join: mirrors are announced from here on.
Configured ==
    LET rec == Reconcile(view, bps)
    IN  /\ ~view.configured /\ ~view.leaving
        /\ view' = [rec.view EXCEPT !.configured = TRUE]
        /\ down' = down \o Events(rec.event)
        /\ up' = Crossing(up, Events(rec.event))
        /\ UNCHANGED <<bps, nextID, dirty, entries, nextUID, acts, changes,
                       made, crossed>>

\* The follower meets breakpoint events: one reconcile.
BreakpointChanged ==
    LET rec == Reconcile(view, bps)
    IN  /\ dirty /\ view.configured
        /\ dirty' = FALSE
        /\ IF view.leaving THEN UNCHANGED <<view, down, up>>
           ELSE /\ view' = rec.view
                /\ down' = down \o Events(rec.event)
                /\ up' = Crossing(up, Events(rec.event))
        /\ UNCHANGED <<bps, nextID, entries, nextUID, acts, changes, made, crossed>>

\* Mutant: the copies stay with the editor.
RetractNone(v) == {}

RetractMirrors(v) == Ids(v.mirrors)

\* disconnect, which the reader handles, possibly past queued requests.
Disconnect ==
    /\ ~view.leaving
    /\ view' = [view EXCEPT !.mirrors = {}, !.leaving = TRUE]
    /\ down' = down \o Removed(RetractMirrors(view)) \o <<[kind |-> "bye"]>>
    /\ UNCHANGED <<bps, nextID, up, dirty, entries, nextUID, acts, changes, made, crossed>>

----------------------------------------------------------------------------
(***************************************************************************)
(* Other clients, the client's own commands, and the adapter.              *)
(***************************************************************************)

OtherAdds(owner, l) ==
    /\ changes < MaxChanges /\ nextID <= MaxIds
    /\ ~\E b \in bps : b.owner = owner /\ b.req = l
    /\ bps' = bps \cup {[id |-> nextID, owner |-> owner, editor |-> FALSE,
                         line |-> l, req |-> l]}
    /\ nextID' = nextID + 1
    /\ changes' = changes + 1 /\ dirty' = TRUE
    /\ UNCHANGED <<view, up, down, entries, nextUID, acts, made, crossed>>

OtherRemoves(b) ==
    /\ changes < MaxChanges
    /\ bps' = bps \ {b}
    /\ changes' = changes + 1 /\ dirty' = TRUE
    /\ UNCHANGED <<nextID, view, up, down, entries, nextUID, acts, made, crossed>>

AdapterMoves(b, l) ==
    /\ changes < MaxChanges /\ b.line # l
    /\ bps' = (bps \ {b}) \cup {[b EXCEPT !.line = l]}
    /\ changes' = changes + 1 /\ dirty' = TRUE
    /\ UNCHANGED <<nextID, view, up, down, entries, nextUID, acts, made, crossed>>

----------------------------------------------------------------------------
(***************************************************************************)
(* The editor: it sends a path's whole list after each act of its user,    *)
(* keeps a copy's line and mark column, and takes ids from answers.        *)
(***************************************************************************)

UserActs(path, list) ==
    /\ acts < MaxActs /\ ~view.leaving
    /\ acts' = acts + 1
    /\ entries' = (entries \ {e \in entries : e.path = path}) \cup list
    /\ up' = Append(up, [path |-> path, list |-> list,
                         stale |-> \E i \in DOMAIN down : down[i].kind = "events"])
    /\ UNCHANGED <<bps, nextID, view, down, dirty, changes, crossed>>

At(path) == {e \in entries : e.path = path}

UserAdds(path, l) ==
    /\ ~\E e \in At(path) : e.line = l
    /\ UserActs(path, At(path) \cup {[uid |-> nextUID, path |-> path, line |-> l,
                                      marked |-> FALSE, plain |-> TRUE, id |-> 0]})
    /\ nextUID' = nextUID + 1
    /\ made' = made \cup {l}

UserRemoves(e) ==
    /\ UserActs(e.path, At(e.path) \ {e})
    /\ UNCHANGED <<nextUID, made>>

\* The user gives a breakpoint, or a copy, a condition.
UserEdits(e) ==
    /\ e.plain
    /\ UserActs(e.path, (At(e.path) \ {e}) \cup {[e EXCEPT !.plain = FALSE]})
    /\ made' = made \cup {e.line}
    /\ UNCHANGED nextUID

Answered(ids) ==
    {LET a == {x \in ids : x.uid = e.uid}
     IN  IF a = {} THEN e ELSE [e EXCEPT !.id = (CHOOSE x \in a : TRUE).id] : e \in entries}

EditorReads ==
    LET m == Head(down)
        new == IF m.kind = "events"
               THEN {x \in m.new : x.id \notin Ids(entries)} ELSE {}
        uid(x) == nextUID + Cardinality({y \in new : y.id < x.id})
    IN  /\ down # <<>>
        /\ down' = Tail(down)
        /\ entries' = CASE m.kind = "answer" -> Answered(m.ids)
                        [] m.kind = "bye" -> entries
                        [] OTHER -> {e \in entries : e.id = 0 \/ e.id \notin m.removed}
                                    \cup {[uid |-> uid(x), path |-> x.path, line |-> x.line,
                                           marked |-> TRUE, plain |-> TRUE, id |-> x.id] : x \in new}
        /\ nextUID' = nextUID + Cardinality(new)
        /\ UNCHANGED <<bps, nextID, view, up, dirty, acts, changes, made, crossed>>

Init ==
    /\ bps = {} /\ nextID = 1 /\ view = NewView
    /\ up = <<>> /\ down = <<>> /\ dirty = FALSE
    /\ entries = {} /\ nextUID = 1 /\ acts = 0 /\ changes = 0
    /\ made = {} /\ crossed = {}

Next ==
    \/ SetBreakpoints \/ Configured \/ BreakpointChanged \/ Disconnect
    \/ \E o \in Owners, l \in EditorLines : OtherAdds(o, l)
    \/ \E b \in bps : OtherRemoves(b) \/ \E l \in EditorLines : AdapterMoves(b, l)
    \/ \E p \in Paths, l \in EditorLines : UserAdds(p, l)
    \/ \E e \in entries : UserRemoves(e) \/ UserEdits(e)
    \/ EditorReads

Spec == Init /\ [][Next]_vars

----------------------------------------------------------------------------
(***************************************************************************)
(* Properties.                                                             *)
(***************************************************************************)

Quiet == up = <<>> /\ down = <<>> /\ ~dirty /\ view.configured /\ ~view.leaving
Answers == {e \in entries : e.id # 0}
Copies == {e \in entries : e.marked /\ e.plain}

\* A copy never becomes the client's own breakpoint: what its editor list
\* sets is on a line where the user set a breakpoint, or edited one.
CopyNeverOwned ==
    \A b \in bps : (b.owner = "me" /\ b.editor) => {b.req, b.line} \cap made # {}

\* Once everything is through, and each path that a crossing of a list and an
\* event touched has sent a list with no event on its way since, the editor
\* shows exactly the breakpoints it should: each one it did not set once, but
\* for those the user removed there and those on a line with one of the user's
\* own.
ViewAgrees ==
    (Quiet /\ crossed = {}) =>
        /\ Ids(Answers) = Ids(view.mirrors) \cup view.reported
        /\ \A d, e \in Answers : (d.id = e.id /\ d # e)
                              => d.id \in view.reported /\ d.path # e.path
        /\ Ids(view.mirrors) = Ids(Wanted(view, bps))

\* An own breakpoint that the editor shows, by the answers it has read, is never
\* dropped by a list of the editor, whatever path the list is under: it stays, or
\* the client has one on its line, unless a copy was announced on that line, for
\* which classify then takes an entry that does not have the mark column.
OwnKept ==
    [][(changes' = changes /\ \A i \in DOMAIN down : down[i].kind # "answer") =>
         \A b \in bps, e \in entries \ Copies :
             (b.owner = "me" /\ b.editor /\ e.id = b.id /\ ShownAt(view, e.line, {e.path}) = 0)
             => \E d \in bps' : /\ d.owner = "me" /\ d.editor
                                /\ d.id = b.id \/ e.line \in {d.req, d.line}]_vars

\* A disconnected editor keeps no copy, but for lists that crossed an event or
\* the disconnect.
NoLeftovers ==
    (view.leaving /\ down = <<>> /\ up = <<>> /\ crossed = {}) => Copies = {}
=============================================================================
