---------------------------- MODULE SourcePaths ----------------------------
(***************************************************************************)
(* How a session finds source files and lines: the map between host paths  *)
(* and a container's (internal/session/pathmap.go), the translation of the *)
(* messages to and from the adapter by it (translate.go), and the line an  *)
(* anchor names (anchor.go).  They keep no state: a behaviour makes one    *)
(* map, or asks for one anchor, and the properties look at what they       *)
(* compute.                                                                *)
(*                                                                         *)
(* An absolute path is the sequence of its segments.  A line is the        *)
(* sequence of its tokens: an anchor begins and ends with whole ones here, *)
(* and white space between them makes no difference (normalize).           *)
(***************************************************************************)
EXTENDS Naturals, Sequences, FiniteSets, SequencesExt

CONSTANTS
    Plain,        \* segments any system takes
    Backslash,    \* one with a backslash, an ordinary character on the host
    Control,      \* one with a control character
    Remotes,      \* the container directories of --map, as given
    Locals,       \* the host directories of --map, as given
    Real(_),      \* EvalSymlinks of a host path; NoPath if there is none
    NoPath,
    SourceNames,  \* names that end in one of sourceExtensions
    MaxMappings,  \* maxPathMappings
    MaxDepth,     \* bound: segments of the paths that are mapped
    Idents, Others,  \* bound: tokens: identifiers, and other characters
    MaxTokens,    \* bound: tokens of a line
    MaxLines,     \* bound: lines of a file
    MaxSuggestions, MaxScored  \* maxSuggestions, maxScoredLines

VARIABLES
    pathMap,   \* Session.pathMap: a set of pairs; NoPath before, or if refused
    text, anchor   \* a file's lines, and what is looked for in them

sourceVars == <<pathMap, text, anchor>>

PathsOf(segments) == UNION {[1 .. n -> segments] : n \in 0 .. MaxDepth}
HostPaths   == PathsOf(Plain \cup {Backslash, Control})
RemotePaths == PathsOf(Plain \cup {Backslash, Control, ".", ".."})

----------------------------------------------------------------------------
(***************************************************************************)
(* PathMap.                                                                *)
(***************************************************************************)

\* path.Clean of a path without "..".
Clean(p) == SelectSeq(p, LAMBDA seg : seg # ".")

\* checkRemoteRoot: clean, and no backslash or control character.
RemoteRoot(r) == \A i \in DOMAIN r : r[i] \in Plain

\* checkLocalRoot: a directory that is there.
LocalRoot(l) == Real(l) # NoPath

\* Mutant: host directories are compared as they are given.
TwiceAsGiven(given) ==
    \E i, j \in DOMAIN given :
        i # j /\ (given[i].remote = given[j].remote \/ given[i].local = given[j].local)

\* A container path, or a host directory by whatever name, is mapped twice.
Twice(given) ==
    \E i, j \in DOMAIN given :
        i # j /\ (given[i].remote = given[j].remote \/ Real(given[i].local) = Real(given[j].local))

\* NewPathMap: the pairs with their host directories resolved, or refused.
NewPathMap(given) ==
    IF /\ Len(given) <= MaxMappings
       /\ \A i \in DOMAIN given : RemoteRoot(given[i].remote) /\ LocalRoot(given[i].local)
       /\ ~Twice(given)
    THEN {[remote |-> given[i].remote, local |-> Real(given[i].local)] : i \in DOMAIN given}
    ELSE NoPath

\* under, within: p is root or below it, on a segment boundary.
Under(root, p) == IsPrefix(root, p)
Rel(root, p) == SubSeq(p, Len(root) + 1, Len(p))

\* localRel: a relative path that is one on every system.
LocalRel(rel) == \A i \in DOMAIN rel : rel[i] \in Plain

\* byLocal, byRemote: the pair with the longest root that holds p.
LongestLocal(m, p) ==
    CHOOSE q \in m : /\ Under(q.local, p)
                     /\ \A o \in m : Under(o.local, p) => Len(o.local) <= Len(q.local)
LongestRemote(m, p) ==
    CHOOSE q \in m : /\ Under(q.remote, p)
                     /\ \A o \in m : Under(o.remote, p) => Len(o.remote) <= Len(q.remote)

\* ToRemote: once a root takes the path, no shorter one is tried.
ToRemote(m, host) ==
    IF ~\E q \in m : Under(q.local, host) THEN NoPath
    ELSE LET q   == LongestLocal(m, host)
             rel == Rel(q.local, host)
         IN  IF LocalRel(rel) THEN q.remote \o rel ELSE NoPath

\* ToLocal: and nothing with ".." or a control character maps.
ToLocal(m, remote) ==
    LET c == Clean(remote)
    IN  IF ~\A i \in DOMAIN remote : remote[i] \notin {"..", Control} THEN NoPath
        ELSE IF ~\E q \in m : Under(q.remote, c) THEN NoPath
        ELSE LET q   == LongestRemote(m, c)
                 rel == Rel(q.remote, c)
             IN  IF LocalRel(rel) THEN q.local \o rel ELSE NoPath

\* resolve, Readable, open: what a session with a map reads of the host.
Readable(m, local) ==
    LET real == Real(local)
    IN  /\ real # NoPath /\ real # <<>> /\ real[Len(real)] \in SourceNames
        /\ \E q \in m : Under(q.local, real)

\* checkBreakpoint: a breakpoint's file must have a container path.
Accepted(m, file) == ToRemote(m, file) # NoPath

\* pathTranslator, walkSource: a path that does not map is left as it is.
Outgoing(m, p) == IF ToRemote(m, p) # NoPath THEN ToRemote(m, p) ELSE p
Incoming(m, p) == IF ToLocal(m, p) # NoPath THEN ToLocal(m, p) ELSE p

----------------------------------------------------------------------------
(***************************************************************************)
(* Anchors.                                                                *)
(***************************************************************************)
Tokens == Idents \cup Others
Texts  == UNION {[1 .. n -> Tokens] : n \in 0 .. MaxTokens}

\* Does the line hold the text?
HoldsText(line, want) ==
    \E k \in 0 .. Len(line) - Len(want) : SubSeq(line, k + 1, k + Len(want)) = want

Longer(a, b) == IF a >= b THEN a ELSE b

\* Mutant: the row that is written is read where the one before it is meant.
NextRowInPlace(b, prev, x) ==
    LET cur[j \in 0 .. Len(b)] ==
            IF j = 0 THEN 0
            ELSE IF b[j] = x THEN cur[j - 1] + 1 ELSE Longer(prev[j], cur[j - 1])
    IN  cur

\* lcs: the table's row for one more token of a.
NextRow(b, prev, x) ==
    LET cur[j \in 0 .. Len(b)] ==
            IF j = 0 THEN 0
            ELSE IF b[j] = x THEN prev[j - 1] + 1 ELSE Longer(prev[j], cur[j - 1])
    IN  cur
Lcs(a, b) ==
    FoldLeft(LAMBDA row, x : NextRow(b, row, x), [j \in 0 .. Len(b) |-> 0], a)[Len(b)]

\* sharesIdent.
SharesIdent(line, want) == (ToSet(line) \cap ToSet(want)) \cap Idents # {}

\* closestLines: of the first lines that are worth it, those that have half of
\* want's tokens in order, best first.
Scored(lines, want) ==
    LET fits == {i \in DOMAIN lines : SharesIdent(lines[i], want) /\ 2 * Len(lines[i]) >= Len(want)}
    IN  {i \in fits : Cardinality({j \in fits : j <= i}) <= MaxScored}
ClosestLines(lines, want) ==
    LET score(i) == Lcs(want, lines[i])
        best == SetToSortSeq({i \in Scored(lines, want) : 2 * score(i) >= Len(want)},
                             LAMBDA i, j : score(i) > score(j) \/ (score(i) = score(j) /\ i < j))
    IN  SubSeq(best, 1, IF Len(best) < MaxSuggestions THEN Len(best) ELSE MaxSuggestions)

\* resolveAnchor: the one line that holds it, or what the error names.
ResolveAnchor(lines, want) ==
    LET found == {i \in DOMAIN lines : HoldsText(lines[i], want)}
    IN  CASE want = <<>> -> [line |-> 0, error |-> "invalid", lines |-> <<>>]
          [] want # <<>> /\ Cardinality(found) = 1 ->
                [line |-> CHOOSE i \in found : TRUE, error |-> "none", lines |-> <<>>]
          [] want # <<>> /\ found = {} ->
                [line |-> 0, error |-> "not found", lines |-> ClosestLines(lines, want)]
          [] OTHER ->
                [line |-> 0, error |-> "ambiguous", lines |-> SetToSortSeq(found, LAMBDA i, j : i < j)]

----------------------------------------------------------------------------
SourceInit == pathMap = NoPath /\ text = <<>> /\ anchor = <<>>

\* A start with --map.
MakeMap ==
    /\ pathMap = NoPath /\ text = <<>>
    /\ \E n \in 0 .. MaxMappings + 1 :
          \E given \in [1 .. n -> [remote : Remotes, local : Locals]] : pathMap' = NewPathMap(given)
    /\ UNCHANGED <<text, anchor>>

\* A breakpoint at an anchor.
AskAnchor ==
    /\ pathMap = NoPath /\ text = <<>>
    /\ \E n \in 1 .. MaxLines : text' \in [1 .. n -> Texts]
    /\ anchor' \in Texts
    /\ UNCHANGED pathMap

SourceNext == MakeMap \/ AskAnchor

SourceSpec == SourceInit /\ [][SourceNext]_sourceVars

----------------------------------------------------------------------------
(***************************************************************************)
(* Properties.                                                             *)
(***************************************************************************)

\* A breakpoint that was accepted comes back from the adapter under the file it
\* was set in, and a frame's file goes back to the container under the name it
\* had, unless another pair's root lies deeper on that side and hides it:
\* whatever roots are nested in each other, given by other names, or share a
\* beginning (ToRemote, ToLocal).  What is mapped lies in a mapped directory.
PathsAgree ==
    pathMap # NoPath =>
        LET m == pathMap
        IN  /\ \A h \in HostPaths : Accepted(m, h) =>
                  LET r == Outgoing(m, h)
                  IN  \/ Incoming(m, r) = h
                      \/ Len(LongestRemote(m, r).remote) > Len(LongestLocal(m, h).remote)
            /\ \A r \in RemotePaths : ToLocal(m, r) # NoPath =>
                  LET h == Incoming(m, r)
                  IN  /\ \E q \in m : Under(q.local, h)
                      /\ \/ Outgoing(m, h) = Clean(r)
                         \/ Len(LongestLocal(m, h).local) > Len(LongestRemote(m, Clean(r)).local)

\* The length of the longest common subsequence, by what it is.
CommonLength(a, b) ==
    LET common(S) ==
            \E f \in [S -> DOMAIN b] :
                /\ \A i \in S : b[f[i]] = a[i]
                /\ \A i, j \in S : i < j => f[i] < f[j]
        lengths == {Cardinality(S) : S \in {S \in SUBSET DOMAIN a : common(S)}}
    IN  CHOOSE n \in lengths : \A k \in lengths : k <= n

\* An anchor's error suggests the closest lines, by the definition of what is
\* common to two lines: no line with more of the anchor is left out for one
\* with less, or for its length, and earlier lines come first (closestLines).
ClosestBest ==
    LET got == ResolveAnchor(text, anchor)
    IN  got.error = "not found" =>
          LET score(i) == CommonLength(anchor, text[i])
              ok(i) == SharesIdent(text[i], anchor) /\ 2 * score(i) >= Len(anchor)
          IN  /\ \A k \in DOMAIN got.lines : ok(got.lines[k])
              /\ \A i \in DOMAIN text : ok(i) /\ i \notin ToSet(got.lines) =>
                    /\ Len(got.lines) = MaxSuggestions
                    /\ \A k \in DOMAIN got.lines : score(got.lines[k]) >= score(i)
              /\ \A k \in 2 .. Len(got.lines) :
                    LET i == got.lines[k - 1]
                        j == got.lines[k]
                    IN  score(i) > score(j) \/ (score(i) = score(j) /\ i < j)

\* Sources are found where they are: the path map loses and mixes up no file,
\* and the anchor's suggestions are the closest lines.
SourcesFound == PathsAgree /\ ClosestBest

\* "A path the map didn't take (a container's own file) is never read on the
\* host" (readSource).
OwnFileUnread ==
    pathMap # NoPath =>
        \A r \in PathsOf(Plain) : ToLocal(pathMap, r) = NoPath => ~Readable(pathMap, Incoming(pathMap, r))
=============================================================================
