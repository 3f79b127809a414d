------------------------------ MODULE Artifacts ------------------------------
(***************************************************************************)
(* Dumps and traces (internal/artifacts; cli/dotnet_dump.go and            *)
(* dotnet_trace.go): commands that run at once take artifacts under fresh  *)
(* names in the private directory of their kind, prune it, analyze or      *)
(* summarize what they took, and put it at the --out of their user.        *)
(* DotnetHelper has the calls of a command; here a call ends well or not.  *)
(***************************************************************************)
EXTENDS Naturals, Sequences, FiniteSets

CONSTANTS
    Cmds,     \* the commands; a command's artifact is named after it
    Before,   \* artifacts of earlier commands, oldest first
    Keep,     \* artifacts.Keep
    NoFile, User

Earlier == {Before[i] : i \in DOMAIN Before}

\* Names are fresh, and a file at --out is not the absence of one.
ASSUME ArtifactsAssumption ==
    /\ Keep \in Nat
    /\ Before \in Seq(Earlier)
    /\ Earlier \cap Cmds = {}
    /\ \A o \in Cmds \cup {User}, w \in BOOLEAN : [owner |-> o, whole |-> w] # NoFile

VARIABLES
    kind,     \* kind[c]: what the command does, or took the earlier artifact
    files,    \* the artifacts in the two directories
    aged,     \* those older than MaxAge
    writing,  \* commands whose artifact the runtime may still create
    whole,    \* commands whose artifact was written to the end
    scratch,  \* commands whose summary has a scratch file
    out,      \* --out: NoFile, or whose file is there and whether it is whole
    doomed,   \* doomed[c]: what c's Prune still has to remove
    step,     \* where c is
    writes    \* which artifact was written to, first to last: the order of ModTimes

artifactVars == <<kind, files, aged, writing, whole, scratch, out, doomed, step, writes>>

Kinds == {"dump", "analysis", "trace", "file"}

ArtifactsInit ==
    /\ kind \in [Cmds \cup Earlier -> [does : Kinds, out : BOOLEAN]]
    /\ \A c \in Cmds :
          /\ kind[c].out => kind[c].does \in {"dump", "trace"}
          /\ kind[c].does = "file" => Before # <<>> /\ kind[Before[1]].does = "trace"
    /\ \A n \in Earlier : kind[n] \in [does : {"dump", "trace"}, out : {FALSE}]
    /\ files = Earlier /\ writes = Before
    /\ aged = {} /\ writing = {} /\ whole = {} /\ scratch = {}
    /\ out \in {NoFile, [owner |-> User, whole |-> TRUE]}
    /\ doomed = [c \in Cmds |-> {}]
    /\ step = [c \in Cmds |-> "begin"]

Moves(c, s) == step' = [step EXCEPT ![c] = s]
Made == {writes[i] : i \in DOMAIN writes}

\* artifacts.Dir: dumps and traces are kept, and counted, apart.
Dir(n) == IF kind[n].does \in {"dump", "analysis"} THEN "dumps" ELSE "traces"

\* Those of a set of artifacts whose ModTime is after n's.
NewerThan(n, names) ==
    {m \in names :
        \E j \in DOMAIN writes :
           writes[j] = m /\ \A i \in DOMAIN writes : writes[i] = n => i < j}

\* checkOut: an --out that exists is refused at once.
Begin(c) ==
    /\ step[c] = "begin"
    /\ IF kind[c].out /\ out # NoFile THEN Moves(c, "failed") /\ UNCHANGED writing
       ELSE IF kind[c].does = "file" THEN Moves(c, "list") /\ UNCHANGED writing
       ELSE Moves(c, "taking") /\ writing' = writing \cup {c}
    /\ UNCHANGED <<kind, files, aged, whole, scratch, out, doomed, writes>>

\* The runtime (a dump) or the helper (a trace) creates the file and fills
\* it; a dump's runtime may do so after the command gave up.
CreateArtifact(c) ==
    /\ c \in writing /\ step[c] \in {"taking", "failed"}
    /\ files' = files \cup {c} /\ writes' = Append(writes, c)
    /\ writing' = writing \ {c}
    /\ UNCHANGED <<kind, aged, whole, scratch, out, doomed, step>>
FillArtifact(c) ==
    /\ step[c] = "taking" /\ c \notin whole /\ c \in Made
    /\ whole' = whole \cup {c} /\ writes' = Append(writes, c)
    /\ UNCHANGED <<kind, files, aged, writing, scratch, out, doomed, step>>

\* takeDump, takeTrace: the call ended well and checkDump found the file.
Taken(c) ==
    /\ step[c] = "taking" /\ c \in whole /\ c \in files
    /\ Moves(c, "list")
    /\ UNCHANGED <<kind, files, aged, writing, whole, scratch, out, doomed, writes>>

\* Else removeStray.  The helper that wrote a trace has exited by then.
RemoveStray(c) == files' = files \ {c}
TakeFails(c) ==
    /\ step[c] = "taking"
    /\ RemoveStray(c)
    /\ writing' = (IF kind[c].does = "trace" THEN writing \ {c} ELSE writing)
    /\ Moves(c, "failed")
    /\ UNCHANGED <<kind, aged, whole, scratch, out, doomed, writes>>

\* Prune: of the command's directory all but the Keep newest, and the old ones;
\* never the protected one, which is the one taken, or the oldest when that is
\* the file to summarize.  What cannot be removed is left.
Protected(c) == IF kind[c].does = "file" THEN Before[1] ELSE c
Prunable(c) ==
    {n \in files :
        /\ n # Protected(c) /\ Dir(n) = Dir(c)
        /\ \/ n \in aged
           \/ Cardinality(NewerThan(n, {m \in files : Dir(m) = Dir(c)})) >= Keep}
List(c) ==
    /\ step[c] = "list"
    /\ doomed' = [doomed EXCEPT ![c] = Prunable(c)]
    /\ Moves(c, "prune")
    /\ UNCHANGED <<kind, files, aged, writing, whole, scratch, out, writes>>
Prune(c) ==
    /\ step[c] = "prune"
    /\ \E n \in doomed[c] :
          /\ files' \in {files \ {n}, files}
          /\ doomed' = [doomed EXCEPT ![c] = @ \ {n}]
    /\ UNCHANGED <<kind, aged, writing, whole, scratch, out, step, writes>>

\* Then the scratch files older than ScratchMaxAge, which no summary that still
\* runs has.
AfterTaking(c) == IF kind[c].out THEN "place" ELSE "kept"
Pruned(c) ==
    /\ step[c] = "prune" /\ doomed[c] = {}
    /\ \E old \in SUBSET {k \in scratch : step[k] = "killed" /\ Dir(c) = "traces"} :
          scratch' = scratch \ old
    /\ Moves(c, CASE kind[c].does \in {"trace", "file"} -> "summary"
                 [] kind[c].does = "dump" -> AfterTaking(c)
                 [] kind[c].does = "analysis" -> "kept")
    /\ UNCHANGED <<kind, files, aged, writing, whole, out, doomed, writes>>

\* summarizeTrace: the helper writes a scratch file, which goes whatever
\* happens; an interrupted trace is discarded, a failed summary keeps it.
Scratch(c) ==
    /\ step[c] = "summary" /\ c \notin scratch
    /\ scratch' = scratch \cup {c}
    /\ UNCHANGED <<kind, files, aged, writing, whole, out, doomed, step, writes>>
Summarized(c) ==
    /\ step[c] = "summary"
    /\ scratch' = scratch \ {c}
    /\ \/ Moves(c, AfterTaking(c)) /\ UNCHANGED files
       \/ Moves(c, "kept") /\ UNCHANGED files
       \/ /\ kind[c].does = "trace" /\ RemoveStray(c) /\ Moves(c, "failed")
    /\ UNCHANGED <<kind, aged, writing, whole, out, doomed, writes>>

\* Place: a hard link, which replaces nothing, then the private name goes.
\* Where links fail the file is copied to a name created exclusively.
CanReplace(c) == TRUE
CanLink(c) == out = NoFile
Link(c) ==
    /\ step[c] = "place" /\ CanLink(c) /\ c \in files
    /\ out' = [owner |-> c, whole |-> TRUE]
    /\ Moves(c, "linked")
    /\ UNCHANGED <<kind, files, aged, writing, whole, scratch, doomed, writes>>
CopyBegins(c) ==
    /\ step[c] = "place" /\ out = NoFile /\ c \in files
    /\ out' = [owner |-> c, whole |-> FALSE]
    /\ Moves(c, "copying")
    /\ UNCHANGED <<kind, files, aged, writing, whole, scratch, doomed, writes>>
CopyEnds(c) ==
    /\ step[c] = "copying"
    /\ \/ out' = [owner |-> c, whole |-> TRUE] /\ Moves(c, "linked")
       \/ out' = NoFile /\ Moves(c, "kept")
    /\ UNCHANGED <<kind, files, aged, writing, whole, scratch, doomed, writes>>
RemoveSource(c) ==
    /\ step[c] = "linked"
    /\ files' = files \ {c}
    /\ Moves(c, "placed")
    /\ UNCHANGED <<kind, aged, writing, whole, scratch, out, doomed, writes>>
PlaceFails(c) ==
    /\ step[c] = "place"
    /\ Moves(c, "kept")
    /\ UNCHANGED <<kind, files, aged, writing, whole, scratch, out, doomed, writes>>

Ended(c) == step[c] \in {"kept", "placed", "failed", "killed"}

KillCommand(c) ==
    /\ ~Ended(c) /\ step[c] # "begin"
    /\ Moves(c, "killed")
    /\ UNCHANGED <<kind, files, aged, writing, whole, scratch, out, doomed, writes>>

\* MaxAge passes for the artifacts of earlier commands.
Ages ==
    /\ aged = {} /\ aged' = Earlier
    /\ UNCHANGED <<kind, files, writing, whole, scratch, out, doomed, step, writes>>

CommandStep(c) ==
    \/ Begin(c) \/ CreateArtifact(c) \/ FillArtifact(c) \/ Taken(c) \/ TakeFails(c)
    \/ List(c) \/ Prune(c) \/ Pruned(c) \/ Scratch(c) \/ Summarized(c)
    \/ Link(c) \/ CopyBegins(c) \/ CopyEnds(c) \/ RemoveSource(c) \/ PlaceFails(c)
    \/ KillCommand(c)

ArtifactsNext == Ages \/ \E c \in Cmds : CommandStep(c)

ArtifactsSpec == ArtifactsInit /\ [][ArtifactsNext]_artifactVars

----------------------------------------------------------------------------
(***************************************************************************)
(* Properties.                                                             *)
(***************************************************************************)

\* How many other artifacts of n's directory were written to after n was begun.
Newer(n) ==
    Cardinality({m \in Made \ {n} :
        /\ Dir(m) = Dir(n)
        /\ \E i, j \in DOMAIN writes : i < j /\ writes[i] = n /\ writes[j] = m})

\* What a command says of its artifact is so, whatever the others prune and
\* place: placed, it is whole at --out and stays, though another wanted the same
\* name ("eyedbg never overwrites"); kept, it is in its directory unless Keep
\* others of that directory were written to since it was begun; failed, nothing
\* of it is left except a dump the runtime wrote late; an earlier artifact
\* only goes for its age or for Keep newer ones of its directory; and no scratch
\* file stays.
ArtifactsSafe ==
    /\ \A c \in Cmds :
          /\ step[c] = "placed" => out = [owner |-> c, whole |-> TRUE]
          /\ step[c] = "kept" /\ kind[c].does # "file" =>
                c \in files \/ Newer(c) >= Keep
          /\ step[c] = "failed" /\ c \in files => kind[c].does # "trace" /\ c \notin whole
          /\ Ended(c) /\ step[c] # "killed" => c \notin scratch
    /\ \A n \in Earlier \ files : n \in aged \/ Newer(n) >= Keep
=============================================================================
