--------------------------- MODULE AdapterInstall ---------------------------
(***************************************************************************)
(* eyedbg adapters install (internal/adapters/install.go): processes       *)
(* download one pinned archive, unpack it beside the target and rename it  *)
(* into place, while others install the same adapter, or are killed.  The  *)
(* digest is checked, so all of them unpack the same archive.              *)
(***************************************************************************)
EXTENDS Naturals, FiniteSets

CONSTANTS
    Installs,  \* the processes that install
    Files,     \* what a whole archive unpacks to
    Entry,     \* the file of them that is run
    Absent     \* a directory or file that is not there

\* A directory that is not there is no content of one.
ASSUME AbsentAssumption == \A d \in SUBSET Files : d # Absent

VARIABLES
    archive,   \* what the pinned archive holds
    dir,       \* InstallDir's content, or Absent
    temp,      \* temp[p]: p's download is in the adapter directory
    stage,     \* stage[p]: p's staging directory, or Absent
    pc,        \* where p is
    made       \* made[p]: p's rename went through

installVars == <<archive, dir, temp, stage, pc, made>>

\* A download that is cut off or altered fails its digest; an archive may be
\* pinned that holds no entry, or not the root the manifest names.
Archives == {Files, Files \ {Entry}, {}}

InstallInit ==
    /\ archive \in Archives
    /\ dir = Absent
    /\ temp = [p \in Installs |-> FALSE]
    /\ stage = [p \in Installs |-> Absent]
    /\ pc = [p \in Installs |-> "begin"]
    /\ made = [p \in Installs |-> FALSE]

Goto(p, at) == pc' = [pc EXCEPT ![p] = at]

\* os.Stat(entry): what is installed is not installed again.
Installed == dir # Absent /\ Entry \in dir
\* Mutant: the directory is looked for, not the entry in it.
BeginInstallDir(p) ==
    /\ pc[p] = "begin"
    /\ Goto(p, IF dir # Absent THEN "ok" ELSE "download")
    /\ UNCHANGED <<archive, dir, temp, stage, made>>
BeginInstall(p) ==
    /\ pc[p] = "begin"
    /\ Goto(p, IF Installed THEN "ok" ELSE "download")
    /\ UNCHANGED <<archive, dir, temp, stage, made>>

\* download creates a temporary file, copyVerified fills and checks it.
CreateTemp(p) ==
    /\ pc[p] = "download"
    /\ temp' = [temp EXCEPT ![p] = TRUE]
    /\ Goto(p, "copy")
    /\ UNCHANGED <<archive, dir, stage, made>>
DownloadFails(p) ==
    /\ pc[p] \in {"download", "copy"}
    /\ temp' = [temp EXCEPT ![p] = FALSE]
    /\ Goto(p, "error")
    /\ UNCHANGED <<archive, dir, stage, made>>

\* unpack: a staging directory beside the target; extractTarGz and extractZip
\* write one file after another into it.
MkdirTemp(p) ==
    /\ pc[p] = "copy"
    /\ stage' = [stage EXCEPT ![p] = {}]
    /\ Goto(p, "extract")
    /\ UNCHANGED <<archive, dir, temp, made>>
WriteInPlace(p, f) ==
    /\ dir' = (IF dir = Absent THEN {} ELSE dir) \cup {f}
    /\ stage' = [stage EXCEPT ![p] = @ \cup {f}]
WriteFile(p, f) ==
    /\ stage' = [stage EXCEPT ![p] = @ \cup {f}]
    /\ UNCHANGED dir
Extract(p) ==
    /\ pc[p] = "extract"
    /\ \E f \in archive \ stage[p] : WriteFile(p, f)
    /\ UNCHANGED <<archive, temp, pc, made>>

\* A failure of unpack removes the staging directory, then the download.
UnpackFails(p) ==
    /\ stage' = [stage EXCEPT ![p] = Absent]
    /\ temp' = [temp EXCEPT ![p] = FALSE]
    /\ Goto(p, "error")
    /\ UNCHANGED <<archive, dir, made>>
ExtractFails(p) == pc[p] = "extract" /\ UnpackFails(p)

\* os.Rename moves onto no directory that exists, and fails without the root.
Renamed(p) ==
    /\ dir' = stage[p]
    /\ stage' = [stage EXCEPT ![p] = Absent]
    /\ made' = [made EXCEPT ![p] = TRUE]
    /\ Goto(p, "verify")
    /\ UNCHANGED <<archive, temp>>
Rename(p) ==
    /\ pc[p] = "extract" /\ stage[p] = archive
    /\ IF dir = Absent /\ archive # {} THEN Renamed(p) ELSE UnpackFails(p)

\* install checks the entry; a directory without it goes again.
Verify(p) ==
    /\ pc[p] = "verify"
    /\ temp' = [temp EXCEPT ![p] = FALSE]
    /\ IF Installed
       THEN Goto(p, "ok") /\ UNCHANGED dir
       ELSE Goto(p, "error") /\ dir' = Absent
    /\ UNCHANGED <<archive, stage, made>>

Finished(p) == pc[p] \in {"ok", "error", "killed"}

KillInstall(p) ==
    /\ ~Finished(p)
    /\ Goto(p, "killed")
    /\ UNCHANGED <<archive, dir, temp, stage, made>>

InstallNext ==
    \E p \in Installs :
        \/ BeginInstall(p) \/ CreateTemp(p) \/ DownloadFails(p) \/ MkdirTemp(p)
        \/ Extract(p) \/ ExtractFails(p) \/ Rename(p) \/ Verify(p) \/ KillInstall(p)

InstallSpec == InstallInit /\ [][InstallNext]_installVars

----------------------------------------------------------------------------

\* An adapter that can be found is whole, whoever else installs it and
\* wherever they are killed: a session never runs on half an archive.  One
\* reported as installed is there; and "nothing is left behind on failure"
\* (Install): a process that ended by itself has no download and no staging
\* directory, and a directory without the adapter stays only until the process
\* that made it has looked, or was killed before it did.
InstalledWhole ==
    /\ Installed => dir = Files
    /\ \A p \in Installs :
          /\ pc[p] = "ok" => Installed
          /\ pc[p] \in {"ok", "error"} => ~temp[p] /\ stage[p] = Absent
          /\ pc[p] = "error" /\ made[p] => ~Installed
    /\ dir # Absent /\ ~Installed => \E p \in Installs : pc[p] \in {"verify", "killed"}

\* How a process ended, as its caller sees it.
Outcome == [p \in Installs |-> IF Finished(p) THEN pc[p] ELSE "running"]

Atomic == INSTANCE AtomicInstall WITH found <- Installed, outcome <- Outcome

\* Downloads, staging directories and failures are not seen from outside: the
\* installation implements one step in which the adapter appears, after which
\* nothing takes it away (Install).
InstallAtomic == Atomic!Spec
=============================================================================
