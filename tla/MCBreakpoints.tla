--------------------------- MODULE MCBreakpoints ---------------------------
(***************************************************************************)
(* One file's breakpoints in the session, their copies in an editor, or    *)
(* the paths and lines they are set at, for TLC: a behaviour is about one  *)
(* of the three, and the variables of the others stay as they are.         *)
(***************************************************************************)
EXTENDS Breakpoints, TLC

CONSTANTS Paths, FileKey, MaxLine, MaxIds, MaxActs, MaxChanges, Owners, NoPath

ASSUME MirrorsAssumption ==
    /\ FileKey \in Paths /\ NoPath \notin Paths
    /\ Owners \subseteq {"me", "them"}
    /\ MaxLine \in Nat /\ MaxIds \in Nat /\ MaxActs \in Nat /\ MaxChanges \in Nat

CONSTANTS
    Plain, Backslash, Control, SourceNames, MaxMappings, MaxDepth, Idents, Others,
    MaxTokens, MaxLines, MaxSuggestions, MaxScored

ASSUME SourcesAssumption ==
    /\ MaxMappings \in Nat /\ MaxDepth \in Nat /\ MaxTokens \in Nat /\ MaxLines \in Nat
    /\ MaxSuggestions \in Nat \ {0} /\ MaxScored \in Nat \ {0}
    /\ {".", "..", Backslash, Control} \cap Plain = {} /\ Idents \cap Others = {}

VARIABLES
    part,    \* which of the three this behaviour is about
    pathMap, text, anchor,
    mbps, nextID, view, up, down, dirty, entries, nextUID, acts, changes, made,
    crossed

Mirror == INSTANCE Mirrors WITH bps <- mbps

\* The host has the directories /a and /a/b, and a link /b to /a; the
\* container's are given clean or not, one inside another or not.
MCReal(p) == IF p = <<>> \/ p[1] = "a" THEN p
             ELSE IF p[1] = "b" THEN <<"a">> \o Tail(p)
             ELSE NoPath
MCLocals == {<<"a">>, <<"a", "b">>, <<"b">>, <<Control>>}
MCRemotes == {<<>>, <<"a">>, <<"a", "b">>, <<"b">>, <<"a", "..">>, <<Backslash>>}

Source == INSTANCE SourcePaths WITH Real <- MCReal, Remotes <- MCRemotes, Locals <- MCLocals

mirrors ==
    <<mbps, nextID, view, up, down, dirty, entries, nextUID, acts, changes, made,
      crossed>>

sources == <<pathMap, text, anchor>>

MCInit ==
    part \in {"session", "editor", "source"} /\ Init /\ Mirror!Init /\ Source!SourceInit
MCNextSession == part = "session" /\ Next /\ UNCHANGED <<part, mirrors, sources>>
MCNextEditor == part = "editor" /\ Mirror!Next /\ UNCHANGED <<part, vars, sources>>
MCNextSource == part = "source" /\ Source!SourceNext /\ UNCHANGED <<part, vars, mirrors>>
MCNext == MCNextSession \/ MCNextEditor \/ MCNextSource
MCSpec == MCInit /\ [][MCNext]_<<part, vars, mirrors, sources>>

\* The editor shows the breakpoints of others exactly once each, a copy never
\* becomes the client's own, and a disconnected editor keeps none
\* (facade/mirrors.go).
ViewAgrees == Mirror!ViewAgrees /\ Mirror!CopyNeverOwned /\ Mirror!NoLeftovers

\* And a list of the editor never drops a breakpoint of its client that it
\* shows (session/replace.go with the marks of facade/mirrors.go).
EditorAgrees == []ViewAgrees /\ Mirror!OwnKept

\* The path map loses and mixes up no file, and the lines suggested for an
\* anchor are the closest ones (session/pathmap.go, anchor.go).
SourcesFound == Source!SourcesFound

\* readSource's comment: a file of the container that the map does not take is
\* never read on the host.
OwnFileUnread == Source!OwnFileUnread

\* The adapter places line 1's breakpoints on line 2.
MCPlace(l) == 2

MCSpecs == {[line |-> 1, cond |-> "a", log |-> FALSE],
            [line |-> 2, cond |-> "", log |-> TRUE]}

MCLists == {(2 :> "a"), (1 :> "b" @@ 2 :> "")}

\* The starter has no breakpoints of its own here: clients are alike.
Symmetry == Permutations(Requests) \cup Permutations(Clients)
=============================================================================
