---------------------------- MODULE ToolsProofs ----------------------------
(***************************************************************************)
(* The parts that stand beside the sessions: the choice and the            *)
(* installation of adapters, test runs, the .NET helper and its artifacts. *)
(* They share nothing, and each is proved by itself, for every value of    *)
(* its constants.                                                          *)
(***************************************************************************)
EXTENDS TestRun, AdapterCatalog, AdapterInstall, DotnetHelper, Artifacts, TLAPS,
        FiniteSetTheorems

----------------------------------------------------------------------------
(***************************************************************************)
(* The choice of an adapter (internal/adapters/registry.go, python.go;     *)
(* drivers/dotnet). These are functions of their inputs: the lemmas state  *)
(* what they compute for every input.                                      *)
(***************************************************************************)

\* A question is answered by what was asked.
CatalogInv ==
    \/ question = None
    \/ \E b \in BundledSets, trusted \in BOOLEAN :
       \E u \in [UserFiles -> Manifests \cup {Bad, None}] :
          /\ question = [kind |-> "load", bundled |-> b, user |-> u, trusted |-> trusted]
          /\ answer = Load(b, u, trusted)
    \/ \E in \in PythonInputs :
          question = [kind |-> "python", in |-> in] /\ answer = ResolvePython(in)
    \/ \E in \in DotnetInputs :
          question = [kind |-> "dotnet", in |-> in] /\ answer = AdapterLaunch(in)

LEMMA InitCatalog == CatalogInit => CatalogInv
BY DEF CatalogInit, CatalogInv

LEMMA StepCatalog == CatalogInv /\ [CatalogNext]_catalogVars => CatalogInv'
<1> SUFFICES ASSUME CatalogInv, [CatalogNext]_catalogVars
             PROVE  CatalogInv'
  OBVIOUS
<1>1. CASE UNCHANGED catalogVars
  BY <1>1 DEF catalogVars, CatalogInv
<1>2. CASE AskLoad
  BY <1>2 DEF AskLoad, CatalogInv
<1>3. CASE AskPython
  BY <1>3 DEF AskPython, CatalogInv
<1>4. CASE AskDotnet
  BY <1>4 DEF AskDotnet, CatalogInv
<1> QED
  BY <1>1, <1>2, <1>3, <1>4 DEF CatalogNext

\* A set of which any two members are the same has at most one.
LEMMA AtMostOne ==
    ASSUME NEW S, \A m, n \in S : m = n
    PROVE  Cardinality(S) <= 1
<1>1. CASE S = {}
  BY <1>1, FS_EmptySet
<1>2. CASE S # {}
  <2>1. PICK m \in S : TRUE
    BY <1>2
  <2>2. S = {m}
    BY <2>1
  <2>3. Cardinality({m}) = 1
    BY FS_Singleton, Zenon
  <2> QED
    BY <2>2, <2>3
<1> QED
  BY <1>1, <1>2

\* What Load makes of the bundled manifests and the user's files.
LEMMA LoadIsSound ==
    ASSUME NEW b \in BundledSets, NEW u \in [UserFiles -> Manifests \cup {Bad, None}],
           NEW trusted \in BOOLEAN
    PROVE  LET reg == Load(b, u, trusted)
           IN  /\ \A m, n \in reg.adapters : m # n => ~Conflict(m, n)
               /\ \A f \in UserFiles : u[f] # None /\ f \notin reg.problems
                      => u[f] \in reg.adapters
               /\ trusted \/ reg.adapters \subseteq b
               /\ \A m \in b : m \notin reg.adapters =>
                      ~Admits(m) \/ \E f \in UserFiles \ reg.problems :
                                       u[f] \in reg.adapters /\ Conflict(m, u[f])
               /\ \A s \in Names \cup Langs : Cardinality(Resolve(reg, s)) <= 1
<1> DEFINE admitted == {f \in Loadable(u, trusted) : Admits(u[f])}
           loaded == DropConflicts(u, admitted)
           kept == {m \in b : Admits(m) /\ \A f \in loaded : ~Conflict(m, u[f])}
           reg == Load(b, u, trusted)
<1>1. /\ reg.adapters = kept \cup {u[f] : f \in loaded}
      /\ reg.problems = {f \in UserFiles : u[f] = Bad \/ ~trusted} \cup (Loadable(u, trusted) \ loaded)
  BY DEF Load
<1>2. /\ loaded \subseteq Loadable(u, trusted) /\ Loadable(u, trusted) \subseteq UserFiles
      /\ \A f \in UserFiles : f \in Loadable(u, trusted) <=> trusted /\ u[f] \notin {None, Bad}
      /\ \A f, g \in loaded : f # g => ~Conflict(u[f], u[g])
  BY DEF DropConflicts, Loadable, Parsed
<1>3. \A m, n \in b : m # n => ~Conflict(m, n)
  BY DEF BundledSets
<1> HIDE DEF admitted, loaded, reg
<1>4. \A m, n : Conflict(m, n) <=> Conflict(n, m)
  BY DEF Conflict, SameLang
<1>5. \A m, n \in reg.adapters : m # n => ~Conflict(m, n)
  <2> SUFFICES ASSUME NEW m \in reg.adapters, NEW n \in reg.adapters, m # n
               PROVE  ~Conflict(m, n)
    OBVIOUS
  <2>1. CASE m \in kept /\ n \in kept
    BY <1>3, <2>1
  <2>2. CASE m \in kept /\ n \notin kept
    BY <1>1, <2>2
  <2>3. CASE m \notin kept /\ n \in kept
    BY <1>1, <1>4, <2>3
  <2>4. CASE m \notin kept /\ n \notin kept
    BY <1>1, <1>2, <2>4
  <2> QED
    BY <2>1, <2>2, <2>3, <2>4
<1>6. \A f \in UserFiles : u[f] # None /\ f \notin reg.problems => u[f] \in reg.adapters
  BY <1>1, <1>2
<1>7. ASSUME NEW m \in b, m \notin reg.adapters, Admits(m)
      PROVE  \E f \in UserFiles \ reg.problems : u[f] \in reg.adapters /\ Conflict(m, u[f])
  <2>1. PICK f \in loaded : Conflict(m, u[f])
    BY <1>1, <1>7
  <2>2. f \in UserFiles \ reg.problems /\ u[f] \in reg.adapters
    BY <1>1, <1>2, <2>1
  <2> QED
    BY <2>1, <2>2
<1>8. ASSUME NEW s \in Names \cup Langs
      PROVE  Cardinality(Resolve(reg, s)) <= 1
  <2>1. s # None
    BY CatalogAssumption
  <2>2. \A m, n \in Resolve(reg, s) : m = n
    BY <1>5, <2>1 DEF Resolve, Conflict, SameLang
  <2> QED
    BY <2>2, AtMostOne
<1>9. trusted \/ reg.adapters \subseteq b
  BY <1>1, <1>2
<1> QED
  BY <1>5, <1>6, <1>7, <1>8, <1>9 DEF reg

\* Which interpreter is used, from which of the places, and which debugpy.
LEMMA PythonKept ==
    ASSUME NEW in \in PythonInputs
    PROVE  LET a == ResolvePython(in)
           IN  /\ in.option # "none" => a.from = "option"
               /\ in.option = "none" /\ in.env # "none" => a.from = "env"
               /\ a.root # "error" =>
                     CASE a.from = "option" -> Runs(in.option)
                       [] a.from = "env" -> in.env = "new"
                       [] a.from = "virtualenv" -> in.virtualEnv = "new"
                       [] a.from = "venv" ->
                             /\ in.virtualEnv = "none"
                             /\ \E i \in 1..2 : in.venvs[i] = "new"
                                                /\ \A j \in 1..(i - 1) : in.venvs[j] = "none"
                       [] a.from = "path" ->
                             /\ in.virtualEnv = "none" /\ \A i \in 1..2 : in.venvs[i] = "none"
                             /\ \E i \in 1..2 : Runs(in.path[i])
               /\ a.root = "installed" => in.installed
<1> DEFINE a == ResolvePython(in)
<1>1. ASSUME NEW c, NEW source
      PROVE  /\ Probed(c, source, in).from = source
             /\ Probed(c, source, in).root # "error" => Runs(c)
             /\ Probed(c, source, in).root = "installed" => in.installed
  BY DEF Probed, WithRoot
<1>2. CASE in.option # "none"
  <2>1. a = Probed(in.option, "option", in)
    BY <1>2 DEF ResolvePython, Explicit
  <2> HIDE DEF a
  <2>2. a.from = "option" /\ (a.root # "error" => Runs(in.option))
        /\ (a.root = "installed" => in.installed)
    BY <1>1, <2>1
  <2> QED
    BY <1>2, <2>2 DEF a
<1>3. CASE in.option = "none" /\ in.env # "none"
  <2>1. a = Probed(in.env, "env", in)
    BY <1>3 DEF ResolvePython, Explicit
  <2> HIDE DEF a
  <2>2. a.from = "env" /\ (a.root # "error" => Runs(in.env))
        /\ (a.root = "installed" => in.installed)
    BY <1>1, <2>1
  <2>3. Runs(in.env) => in.env = "new"
    BY DEF PythonInputs, Runs
  <2> QED
    BY <1>3, <2>2, <2>3 DEF a
<1>4. CASE in.option = "none" /\ in.env = "none" /\ in.virtualEnv # "none"
  <2>1. a = Probed(in.virtualEnv, "virtualenv", in)
    BY <1>4 DEF ResolvePython, Explicit
  <2> HIDE DEF a
  <2>2. a.from = "virtualenv" /\ (a.root # "error" => Runs(in.virtualEnv))
        /\ (a.root = "installed" => in.installed)
    BY <1>1, <2>1
  <2>3. Runs(in.virtualEnv) => in.virtualEnv = "new"
    BY DEF PythonInputs, Runs
  <2> QED
    BY <1>4, <2>2, <2>3 DEF a
<1>5. CASE /\ in.option = "none" /\ in.env = "none" /\ in.virtualEnv = "none"
           /\ FirstVenv(in.venvs) # "none"
  <2>1. a = Probed(FirstVenv(in.venvs), "venv", in)
    BY <1>5 DEF ResolvePython, Explicit
  <2> HIDE DEF a
  <2>2. a.from = "venv" /\ (a.root # "error" => Runs(FirstVenv(in.venvs)))
        /\ (a.root = "installed" => in.installed)
    BY <1>1, <2>1
  <2>3. ASSUME Runs(FirstVenv(in.venvs))
        PROVE  \E i \in 1..2 : in.venvs[i] = "new" /\ \A j \in 1..(i - 1) : in.venvs[j] = "none"
    <3> DEFINE hits == {i \in DOMAIN in.venvs : in.venvs[i] # "none"}
               first == CHOOSE i \in hits : \A j \in hits : i <= j
    <3>1. in.venvs \in [1..2 -> {"none", "unsafe", "broken", "new"}]
      BY DEF PythonInputs
    <3>2. hits # {} /\ FirstVenv(in.venvs) = in.venvs[first]
      BY <1>5 DEF FirstVenv
    <3>3. hits \subseteq 1..2 /\ \E i \in hits : \A j \in hits : i <= j
      <4>1. hits \subseteq 1..2
        BY <3>1
      <4>2. CASE 1 \in hits
        BY <4>1, <4>2
      <4>3. CASE 1 \notin hits
        BY <3>2, <4>1, <4>3
      <4> QED
        BY <4>1, <4>2, <4>3
    <3>4. first \in hits /\ \A j \in hits : first <= j
      BY <3>3
    <3> HIDE DEF first
    <3>5. first \in 1..2 /\ in.venvs[first] = "new"
      BY <2>3, <3>1, <3>2, <3>3, <3>4 DEF Runs
    <3>6. \A j \in 1..(first - 1) : in.venvs[j] = "none"
      BY <3>1, <3>4, <3>5
    <3> QED
      BY <3>5, <3>6
  <2> QED
    BY <1>5, <2>2, <2>3 DEF a
<1>6. CASE /\ in.option = "none" /\ in.env = "none" /\ in.virtualEnv = "none"
           /\ FirstVenv(in.venvs) = "none"
  <2>1. a = Probed(FirstOnPath(in.path), "path", in)
    BY <1>6 DEF ResolvePython, Explicit
  <2> HIDE DEF a
  <2>2. a.from = "path" /\ (a.root # "error" => Runs(FirstOnPath(in.path)))
        /\ (a.root = "installed" => in.installed)
    BY <1>1, <2>1
  <2>3. \A i \in 1..2 : in.venvs[i] = "none"
    <3> DEFINE hits == {i \in DOMAIN in.venvs : in.venvs[i] # "none"}
               first == CHOOSE i \in hits : \A j \in hits : i <= j
    <3>1. in.venvs \in [1..2 -> {"none", "unsafe", "broken", "new"}]
      BY DEF PythonInputs
    <3>2. CASE hits # {}
      <4>1. FirstVenv(in.venvs) = in.venvs[first]
        BY <3>2 DEF FirstVenv
      <4>2. \E i \in hits : \A j \in hits : i <= j
        BY <3>1, <3>2
      <4>3. first \in hits
        BY <4>2
      <4> QED
        BY <1>6, <4>1, <4>3
    <3> QED
      BY <3>1, <3>2
  <2>4. Runs(FirstOnPath(in.path)) => \E i \in 1..2 : Runs(in.path[i])
    <3> DEFINE hits == {i \in DOMAIN in.path : Runs(in.path[i])}
    <3>1. DOMAIN in.path = 1..2
      BY DEF PythonInputs
    <3>2. CASE hits = {}
      BY <3>2 DEF FirstOnPath, Runs
    <3> QED
      BY <3>1, <3>2
  <2> QED
    BY <1>6, <2>2, <2>3, <2>4 DEF a
<1> QED
  BY <1>2, <1>3, <1>4, <1>5, <1>6

\* Which of the .NET adapters is used.
LEMMA DotnetKept ==
    ASSUME NEW in \in DotnetInputs
    PROVE  LET a == AdapterLaunch(in)
           IN  /\ in.pick # None => a.adapter = in.pick
               /\ in.pick = None /\ a.adapter = "sharp"
                     => /\ ~in.download /\ ~in.withheld
                        /\ in.serves = "native" /\ in.served = "missing"
BY CatalogAssumption DEF AdapterLaunch, AutoDefault

\* The adapter a session gets is the one its files, options and environment
\* ask for, and there is exactly one such, for any names, languages, compiled
\* drivers and user files (Load, Resolve, ResolvePython, adapterLaunch).
THEOREM AdapterIsChosen == CatalogSpec => []AdapterChosen
<1>1. CatalogInv => RegistrySound
  <2> SUFFICES ASSUME CatalogInv, Asked("load")
               PROVE  RegistrySound
    BY DEF RegistrySound
  <2>1. PICK b \in BundledSets, trusted \in BOOLEAN, u \in [UserFiles -> Manifests \cup {Bad, None}] :
           /\ question = [kind |-> "load", bundled |-> b, user |-> u, trusted |-> trusted]
           /\ answer = Load(b, u, trusted)
    BY DEF CatalogInv, Asked
  <2>2. question.bundled = b /\ question.user = u /\ question.trusted = trusted
        /\ answer = Load(b, u, trusted)
    BY <2>1
  <2> QED
    BY <2>2, LoadIsSound DEF RegistrySound
<1>2. CatalogInv => ChoiceKept
  <2> SUFFICES ASSUME CatalogInv
               PROVE  ChoiceKept
    OBVIOUS
  <2>1. CASE Asked("python")
    <3>1. PICK in \in PythonInputs :
             question = [kind |-> "python", in |-> in] /\ answer = ResolvePython(in)
      BY <2>1 DEF CatalogInv, Asked
    <3>2. question.in = in /\ answer = ResolvePython(in) /\ ~Asked("dotnet")
      BY <3>1 DEF Asked
    <3> QED
      BY <3>2, PythonKept DEF ChoiceKept
  <2>2. CASE Asked("dotnet")
    <3>1. PICK in \in DotnetInputs :
             question = [kind |-> "dotnet", in |-> in] /\ answer = AdapterLaunch(in)
      BY <2>2 DEF CatalogInv, Asked
    <3>2. question.in = in /\ answer = AdapterLaunch(in) /\ ~Asked("python")
      BY <3>1 DEF Asked
    <3> QED
      BY <3>2, DotnetKept DEF ChoiceKept
  <2> QED
    BY <2>1, <2>2 DEF ChoiceKept
<1> QED
  BY <1>1, <1>2, InitCatalog, StepCatalog, PTL DEF CatalogSpec, AdapterChosen

----------------------------------------------------------------------------
(***************************************************************************)
(* The installation of an adapter (internal/adapters/install.go). The      *)
(* target directory is absent or holds what the pinned archive holds,      *)
(* since only a whole staging directory is renamed, and onto nothing. A    *)
(* rename of an archive with its entry is never undone, since only a       *)
(* directory without the entry is removed; so a process that renamed and   *)
(* failed had an archive without it.                                       *)
(***************************************************************************)

InstallSteps == {"begin", "download", "copy", "extract", "verify", "ok", "error", "killed"}

InstallTypeOK ==
    /\ archive \in Archives
    /\ dir \in {Absent, archive}
    /\ temp \in [Installs -> BOOLEAN]
    /\ stage \in [Installs -> (SUBSET Files) \cup {Absent}]
    /\ pc \in [Installs -> InstallSteps]
    /\ made \in [Installs -> BOOLEAN]

\* What a process holds at each of its steps.
HoldsOf(p) ==
    /\ pc[p] \in {"begin", "download", "ok", "error"} => ~temp[p]
    /\ pc[p] \in {"begin", "download", "copy", "verify", "ok", "error"} => stage[p] = Absent
    /\ pc[p] = "extract" => stage[p] \in SUBSET Files
    /\ made[p] => pc[p] \in {"verify", "ok", "error", "killed"}
    /\ pc[p] = "verify" => made[p]

\* What a process that is through knows of the directory.
KnowsOf(p) ==
    /\ pc[p] = "ok" => Installed
    /\ made[p] /\ Entry \in archive => dir # Absent
    /\ pc[p] = "error" /\ made[p] => Entry \notin archive

\* A directory without the entry is still to be looked at, by who made it.
SoonGone == dir # Absent /\ ~Installed => \E p \in Installs : pc[p] \in {"verify", "killed"}

InstallInv == InstallTypeOK /\ SoonGone /\ \A p \in Installs : HoldsOf(p) /\ KnowsOf(p)

----------------------------------------------------------------------------

\* A directory that is there has the entry exactly when the archive has it.
LEMMA InstalledIff ==
    ASSUME InstallTypeOK
    PROVE  /\ Installed <=> (dir # Absent /\ Entry \in archive)
           /\ Installed => dir = Files
BY DEF InstallTypeOK, Installed, Archives

\* An archive is never taken for a directory that is not there.
LEMMA ArchiveIsThere ==
    ASSUME archive \in Archives
    PROVE  archive # Absent /\ archive \in SUBSET Files
BY AbsentAssumption DEF Archives

LEMMA InitInstall == InstallInit => InstallInv
BY DEF InstallInit, InstallInv, InstallTypeOK, SoonGone, HoldsOf, KnowsOf, InstallSteps

\* One step of one process keeps the invariant, its own part and that of the
\* others: the directory it leaves is the one it found, or the first one, or
\* one without the entry taken away.
LEMMA StepInstall == InstallInv /\ [InstallNext]_installVars => InstallInv'
<1> SUFFICES ASSUME InstallInv, [InstallNext]_installVars
             PROVE  InstallInv'
  OBVIOUS
<1> USE DEF InstallInv, InstallTypeOK, SoonGone, HoldsOf, KnowsOf, InstallSteps, Installed
<1>1. CASE UNCHANGED installVars
  BY <1>1 DEF installVars
<1>2. ASSUME NEW p \in Installs, BeginInstall(p)
      PROVE  InstallInv'
  BY <1>2 DEF BeginInstall, Goto
<1>3. ASSUME NEW p \in Installs, CreateTemp(p)
      PROVE  InstallInv'
  BY <1>3 DEF CreateTemp, Goto
<1>4. ASSUME NEW p \in Installs, DownloadFails(p)
      PROVE  InstallInv'
  BY <1>4 DEF DownloadFails, Goto
<1>5. ASSUME NEW p \in Installs, MkdirTemp(p)
      PROVE  InstallInv'
  BY <1>5 DEF MkdirTemp, Goto
<1>6. ASSUME NEW p \in Installs, Extract(p)
      PROVE  InstallInv'
  <2>1. PICK f \in archive \ stage[p] : WriteFile(p, f)
    BY <1>6 DEF Extract
  <2>2. f \in Files
    BY <2>1 DEF Archives
  <2>3. stage[p] \cup {f} \in SUBSET Files
    BY <1>6, <2>2 DEF Extract
  <2> QED
    BY <1>6, <2>1, <2>3 DEF Extract, WriteFile
<1>7. ASSUME NEW p \in Installs, UnpackFails(p), pc[p] = "extract"
      PROVE  InstallInv'
  BY <1>7 DEF UnpackFails, Goto
<1>8. ASSUME NEW p \in Installs, Rename(p)
      PROVE  InstallInv'
  <2>1. CASE dir = Absent /\ archive # {}
    <3>1. /\ dir' = archive /\ archive' = archive /\ archive # Absent /\ temp' = temp
          /\ stage' = [stage EXCEPT ![p] = Absent]
          /\ made' = [made EXCEPT ![p] = TRUE] /\ pc' = [pc EXCEPT ![p] = "verify"]
      BY <1>8, <2>1, ArchiveIsThere DEF Rename, Renamed, Goto
    <3>2. InstallTypeOK'
      BY <3>1
    <3>3. \A q \in Installs : HoldsOf(q)'
      BY <3>1
    <3>4. \A q \in Installs : KnowsOf(q)'
      BY <2>1, <3>1
    <3>5. pc'[p] = "verify"
      BY <3>1
    <3>6. SoonGone'
      BY <3>5
    <3> QED
      BY <3>2, <3>3, <3>4, <3>6
  <2>2. CASE ~(dir = Absent /\ archive # {})
    BY <1>8, <1>7, <2>2 DEF Rename
  <2> QED
    BY <2>1, <2>2
<1>9. ASSUME NEW p \in Installs, Verify(p)
      PROVE  InstallInv'
  <2>1. CASE Installed
    BY <1>9, <2>1, InstalledIff DEF Verify, Goto
  <2>2. CASE ~Installed
    BY <1>9, <2>2, InstalledIff DEF Verify, Goto
  <2> QED
    BY <2>1, <2>2
<1>10. ASSUME NEW p \in Installs, KillInstall(p)
       PROVE  InstallInv'
  BY <1>10 DEF KillInstall, Finished, Goto
<1> QED
  BY <1>1, <1>2, <1>3, <1>4, <1>5, <1>6, <1>7, <1>8, <1>9, <1>10
     DEF InstallNext, ExtractFails

LEMMA InstallInvariant == InstallSpec => []InstallInv
<1> QED
  BY InitInstall, StepInstall, PTL DEF InstallSpec

\* An adapter that can be found is whole, one reported as installed is there,
\* and what failed by itself left nothing, for any number of processes that
\* install at once or are killed, and any content of the archive (Install).
THEOREM InstallIsWhole == InstallSpec => []InstalledWhole
<1>1. InstallInv => InstalledWhole
  BY InstalledIff DEF InstallInv, SoonGone, HoldsOf, KnowsOf, InstalledWhole
<1> QED
  BY <1>1, InstallInvariant, PTL

\* A step that leaves the directory and every outcome as they were is not seen.
LEMMA Unseen ==
    ASSUME dir' = dir, pc \in [Installs -> InstallSteps], NEW p \in Installs, NEW to \in InstallSteps,
           pc' = [pc EXCEPT ![p] = to], ~Finished(p), to \notin {"ok", "error", "killed"}
    PROVE  Installed' = Installed /\ Outcome' = Outcome
<1>1. Installed' = Installed
  BY DEF Installed
<1>2. \A q \in Installs : Finished(q)' = Finished(q) /\ (Finished(q) => pc'[q] = pc[q])
  BY DEF Finished
<1> QED
  BY <1>1, <1>2 DEF Outcome

\* A step that ends one process, and keeps what is found, is its end.
LEMMA EndsProcess ==
    ASSUME Installed' = Installed, pc \in [Installs -> InstallSteps], NEW p \in Installs,
           NEW o \in {"ok", "error", "killed"},
           pc' = [pc EXCEPT ![p] = o], ~Finished(p), o = "ok" => Installed
    PROVE  Atomic!End(p, o)
<1>1. Outcome[p] = "running"
  BY DEF Outcome
<1>2. Outcome' = [Outcome EXCEPT ![p] = o]
  BY DEF Outcome, Finished
<1> QED
  BY <1>1, <1>2 DEF Atomic!End

\* The installation by steps implements the one that is atomic, for any number
\* of processes, kills and any archive (Install).
THEOREM InstallImplementsAtomic == InstallSpec => InstallAtomic
<1>1. InstallInit => Atomic!Init
  BY DEF InstallInit, Atomic!Init, Installed, Outcome, Finished
<1>2. InstallInv /\ [InstallNext]_installVars => [Atomic!Next]_(Atomic!vars)
  <2> SUFFICES ASSUME InstallInv, [InstallNext]_installVars
               PROVE  Atomic!Next \/ UNCHANGED <<Installed, Outcome>>
    BY DEF Atomic!vars
  <2>1. pc \in [Installs -> InstallSteps]
    BY DEF InstallInv, InstallTypeOK
  <2>2. CASE UNCHANGED installVars
    BY <2>2 DEF installVars, Installed, Outcome, Finished
  <2>3. ASSUME NEW p \in Installs, BeginInstall(p)
        PROVE  Atomic!Next \/ UNCHANGED <<Installed, Outcome>>
    <3>1. CASE Installed
      BY <2>1, <2>3, <3>1, EndsProcess DEF BeginInstall, Goto, Installed, Finished, Atomic!Next
    <3>2. CASE ~Installed
      BY <2>1, <2>3, <3>2, Unseen DEF BeginInstall, Goto, Finished, InstallSteps
    <3> QED
      BY <3>1, <3>2
  <2>4. ASSUME NEW p \in Installs, CreateTemp(p) \/ MkdirTemp(p)
        PROVE  UNCHANGED <<Installed, Outcome>>
    BY <2>1, <2>4, Unseen DEF CreateTemp, MkdirTemp, Goto, Finished, InstallSteps
  <2>5. ASSUME NEW p \in Installs, Extract(p)
        PROVE  UNCHANGED <<Installed, Outcome>>
    BY <2>5 DEF Extract, WriteFile, Installed, Outcome, Finished
  <2>6. ASSUME NEW p \in Installs, pc[p] \in {"download", "copy", "extract"},
               dir' = dir, Goto(p, "error")
        PROVE  Atomic!Next
    BY <2>1, <2>6, EndsProcess DEF Goto, Installed, Finished, Atomic!Next
  <2>7. ASSUME NEW p \in Installs, KillInstall(p)
        PROVE  Atomic!Next
    BY <2>1, <2>7, EndsProcess DEF KillInstall, Goto, Installed, Atomic!Next
  <2>8. ASSUME NEW p \in Installs, Rename(p)
        PROVE  Atomic!Next \/ UNCHANGED <<Installed, Outcome>>
    <3>1. CASE Renamed(p) /\ dir = Absent
      <4>1. ~Installed /\ Outcome' = Outcome /\ Outcome[p] = "running"
        BY <2>1, <2>8, <3>1 DEF Rename, Renamed, Goto, Installed, Outcome, Finished
      <4>2. CASE Installed'
        <5>1. (Installed') = TRUE
          BY <4>2 DEF Installed
        <5>2. Atomic!Appear(p)
          BY <4>1, <5>1 DEF Atomic!Appear
        <5> QED
          BY <5>2 DEF Atomic!Next
      <4>3. CASE ~Installed'
        <5>1. (Installed') = Installed
          BY <4>1, <4>3 DEF Installed
        <5> QED
          BY <4>1, <5>1
      <4> QED
        BY <4>2, <4>3
    <3>2. CASE UnpackFails(p)
      BY <2>6, <2>8, <3>2 DEF Rename, UnpackFails
    <3> QED
      BY <2>8, <3>1, <3>2 DEF Rename
  <2>9. ASSUME NEW p \in Installs, Verify(p)
        PROVE  Atomic!Next
    <3>1. Installed' = Installed
      BY <2>9 DEF Verify, Installed
    <3> QED
      BY <2>1, <2>9, <3>1, EndsProcess DEF Verify, Goto, Finished, Atomic!Next
  <2> QED
    BY <2>2, <2>3, <2>4, <2>5, <2>6, <2>7, <2>8, <2>9
       DEF InstallNext, DownloadFails, ExtractFails, UnpackFails
<1> QED
  BY <1>1, <1>2, InstallInvariant, PTL DEF InstallSpec, InstallAtomic, Atomic!Spec

----------------------------------------------------------------------------
(***************************************************************************)
(* Test runs (internal/session/testrun.go). A runner's exit is known only  *)
(* after all its output; whoever ends the session by it has waited for the *)
(* adapter before. A start that fails has a runner it can kill or none,    *)
(* and only a start that is about to look at the session's end has an      *)
(* adapter that nobody shuts down.                                         *)
(***************************************************************************)

StartSteps ==
    {"begin", "start", "launched", "set", "wait", "prepare", "adapter", "check", "add",
     "configure", "attached", "mark", "await", "finish", "ok", "failing", "failed"}
TerminateSteps == {"idle", "flag", "kill", "shutdown", "closing", "end", "remove", "done"}

RunnerStates == {"none", "runs", "exited", "killed"}
AdapterStates == {"none", "up", "down"}
SessionStates == {"starting", "running", "exited"}
Reasons == {"", "stop", "fail", "finished"}
ExitCodes == {"none", "exited", "killed"}
WatchSteps == {"off", "pumps", "await", "finish", "done"}

TestTypeOK ==
    /\ runner \in RunnerStates /\ adapter \in AdapterStates
    /\ state \in SessionStates /\ stopReason \in Reasons \ {"finished"} /\ reason \in Reasons
    /\ code \in ExitCodes
    /\ spc \in StartSteps /\ wpc \in WatchSteps /\ tpc \in [Enders -> TerminateSteps]

\* A runner is known to have exited once all it said was read.
RunnerKnown ==
    /\ spc \in {"begin", "start"} => runner = "none"
    /\ code # "none" => runner = code /\ pipe = <<>>
    /\ wpc \in {"await", "finish"} => started /\ code # "none"

\* An adapter is there from its start on; one that is down said all it had to.
AdapterKnown ==
    /\ spc \in {"begin", "start", "set", "wait", "prepare", "adapter"} => adapter = "none"
    /\ spc \in {"check", "add", "configure", "attached", "mark", "await", "finish", "ok"} =>
          adapter # "none"
    /\ adapter = "down" => ~said
    /\ started => spc \in {"await", "finish", "ok"}
    /\ spc \in {"await", "finish"} => started
    /\ spc = "finish" \/ wpc = "finish" => late \/ adapter = "down"

\* What the end of a session says: nothing is logged after it, unless the
\* adapter was not waited for; and an adapter that outlives it is being shut
\* down, or the start that just began it is about to see that it must.
EndKnown ==
    /\ missed => state = "exited"
    /\ reason # "" => state = "exited"
    /\ reason = "finished" =>
          started /\ code # "none" /\ (late \/ (adapter = "down" /\ ~missed))
    /\ state = "exited" /\ adapter # "none" /\ ~ended =>
          \/ spc = "check"
          \/ spc = "failing" /\ tpc["fail"] \in {"flag", "kill", "shutdown"}

\* A start that fails takes its runner along before it is forgotten.
FailKnown ==
    /\ spc = "failing" <=> tpc["fail"] \notin {"idle", "done"}
    /\ tpc["fail"] = "done" => spc = "failed"
    /\ spc \notin {"begin", "start", "launched", "set", "failing", "failed"} => cmdSet
    /\ spc = "failing" => runner = "none" \/ cmdSet
    /\ tpc["fail"] \in {"shutdown", "closing", "end", "remove", "done"} => runner # "runs"
    /\ spc \in {"begin", "failed"} => ~mapped /\ ~meta /\ runner # "runs"

TestInv == TestTypeOK /\ RunnerKnown /\ AdapterKnown /\ EndKnown /\ FailKnown

LEMMA InitTest == Init => TestInv
BY DEF Init, TestInv, TestTypeOK, RunnerStates, AdapterStates, SessionStates, Reasons,
       ExitCodes, WatchSteps, StartSteps, TerminateSteps, RunnerKnown, AdapterKnown,
       EndKnown, FailKnown, Enders

LEMMA PrintsKeeps ==
    ASSUME TestInv, NEW l, Prints(l)
    PROVE  TestInv'
<1> USE DEF TestInv, os, session, manager, threads
<1>1. TestTypeOK'
  <2>1. UNCHANGED <<runner, adapter, state, stopReason, reason, code, spc, wpc, tpc>>
    BY DEF Prints
  <2> QED
    BY <2>1 DEF TestTypeOK, TestInv
<1>2. RunnerKnown'
  BY DEF TestTypeOK, ExitCodes, RunnerKnown, Prints
<1>3. AdapterKnown'
  BY DEF AdapterKnown, RunnerKnown, Prints
<1>4. EndKnown'
  BY DEF EndKnown, AdapterKnown, RunnerKnown, FailKnown, Enders, Prints
<1>5. FailKnown'
  BY DEF FailKnown, Enders, RunnerKnown, Prints
<1> QED
  BY <1>1, <1>2, <1>3, <1>4, <1>5

LEMMA RunnerExitsKeeps ==
    ASSUME TestInv, RunnerExits
    PROVE  TestInv'
<1> USE DEF TestInv, os, session, manager, threads
<1>1. TestTypeOK'
  <2>1. UNCHANGED <<adapter, state, stopReason, reason, code, spc, wpc, tpc>>
    BY DEF RunnerExits
  <2>2. runner' \in RunnerStates
    BY DEF TestTypeOK, RunnerStates, RunnerExits
  <2> QED
    BY <2>1, <2>2 DEF TestTypeOK, TestInv
<1>2. RunnerKnown'
  BY DEF TestTypeOK, ExitCodes, RunnerKnown, RunnerExits
<1>3. AdapterKnown'
  BY DEF AdapterKnown, RunnerKnown, RunnerExits
<1>4. EndKnown'
  BY DEF EndKnown, AdapterKnown, RunnerKnown, FailKnown, Enders, RunnerExits
<1>5. FailKnown'
  BY DEF FailKnown, Enders, RunnerKnown, RunnerExits
<1> QED
  BY <1>1, <1>2, <1>3, <1>4, <1>5

LEMMA AdapterSaysKeeps ==
    ASSUME TestInv, AdapterSays
    PROVE  TestInv'
<1> USE DEF TestInv, os, session, manager, threads
<1>1. TestTypeOK'
  <2>1. UNCHANGED <<runner, adapter, state, stopReason, reason, code, spc, wpc, tpc>>
    BY DEF AdapterSays
  <2> QED
    BY <2>1 DEF TestTypeOK, TestInv
<1>2. RunnerKnown'
  BY DEF RunnerKnown, AdapterSays
<1>3. AdapterKnown'
  BY DEF AdapterKnown, RunnerKnown, AdapterSays
<1>4. EndKnown'
  BY DEF EndKnown, AdapterKnown, RunnerKnown, FailKnown, Enders, AdapterSays
<1>5. FailKnown'
  BY DEF FailKnown, Enders, RunnerKnown, AdapterSays
<1> QED
  BY <1>1, <1>2, <1>3, <1>4, <1>5

LEMMA AdapterGoneKeeps ==
    ASSUME TestInv, AdapterGone
    PROVE  TestInv'
<1> USE DEF TestInv, os, session, manager, threads
<1>1. TestTypeOK'
  <2>1. UNCHANGED <<runner, state, stopReason, reason, code, spc, wpc, tpc>>
    BY DEF AdapterGone
  <2>2. adapter' \in AdapterStates
    BY DEF TestTypeOK, AdapterStates, AdapterGone
  <2> QED
    BY <2>1, <2>2 DEF TestTypeOK, TestInv
<1>2. RunnerKnown'
  BY DEF RunnerKnown, AdapterGone
<1>3. AdapterKnown'
  BY DEF AdapterKnown, RunnerKnown, AdapterGone
<1>4. EndKnown'
  BY DEF EndKnown, AdapterKnown, RunnerKnown, FailKnown, Enders, AdapterGone
<1>5. FailKnown'
  BY DEF FailKnown, Enders, RunnerKnown, AdapterGone
<1> QED
  BY <1>1, <1>2, <1>3, <1>4, <1>5

LEMMA OnOutputKeeps ==
    ASSUME TestInv, OnOutput
    PROVE  TestInv'
<1> USE DEF TestInv, os, session, manager, threads
<1>1. TestTypeOK'
  <2>1. UNCHANGED <<runner, adapter, state, stopReason, reason, code, spc, wpc, tpc>>
    BY DEF OnOutput, Logs
  <2> QED
    BY <2>1 DEF TestTypeOK, TestInv
<1>2. RunnerKnown'
  BY DEF RunnerKnown, OnOutput, Logs
<1>3. AdapterKnown'
  BY DEF AdapterKnown, RunnerKnown, OnOutput, Logs
<1>4. EndKnown'
  BY DEF EndKnown, AdapterKnown, RunnerKnown, FailKnown, Enders, OnOutput, Logs
<1>5. FailKnown'
  BY DEF FailKnown, Enders, RunnerKnown, OnOutput, Logs
<1> QED
  BY <1>1, <1>2, <1>3, <1>4, <1>5

LEMMA OnTerminatedKeeps ==
    ASSUME TestInv, OnTerminated
    PROVE  TestInv'
<1> USE DEF TestInv, os, session, manager, threads
<1>1. TestTypeOK'
  <2>1. UNCHANGED <<runner, adapter, state, stopReason, reason, code, spc, wpc, tpc>>
    BY DEF OnTerminated
  <2> QED
    BY <2>1 DEF TestTypeOK, TestInv
<1>2. RunnerKnown'
  BY DEF RunnerKnown, OnTerminated
<1>3. AdapterKnown'
  BY DEF AdapterKnown, RunnerKnown, OnTerminated
<1>4. EndKnown'
  BY DEF EndKnown, AdapterKnown, RunnerKnown, FailKnown, Enders, OnTerminated
<1>5. FailKnown'
  BY DEF FailKnown, Enders, RunnerKnown, OnTerminated
<1> QED
  BY <1>1, <1>2, <1>3, <1>4, <1>5

LEMMA PumpKeeps ==
    ASSUME TestInv, Pump
    PROVE  TestInv'
<1> USE DEF TestInv, os, session, manager, threads
<1>1. TestTypeOK'
  <2>1. UNCHANGED <<runner, adapter, state, stopReason, reason, code, spc, wpc, tpc>>
    BY DEF Pump, Logs
  <2> QED
    BY <2>1 DEF TestTypeOK, TestInv
<1>2. RunnerKnown'
  BY DEF RunnerKnown, Pump, Logs
<1>3. AdapterKnown'
  BY DEF AdapterKnown, RunnerKnown, Pump, Logs
<1>4. EndKnown'
  BY DEF EndKnown, AdapterKnown, RunnerKnown, FailKnown, Enders, Pump, Logs
<1>5. FailKnown'
  BY DEF FailKnown, Enders, RunnerKnown, Pump, Logs
<1> QED
  BY <1>1, <1>2, <1>3, <1>4, <1>5

LEMMA WatchRunnerKeeps ==
    ASSUME TestInv, WatchRunner
    PROVE  TestInv'
<1> USE DEF TestInv, os, session, manager, threads
<1>1. TestTypeOK'
  <2>1. UNCHANGED <<runner, adapter, state, stopReason, reason, spc, tpc>>
    BY DEF WatchRunner, PumpsDone
  <2>2. code' \in ExitCodes
    BY DEF TestTypeOK, ExitCodes, RunnerStates, WatchRunner, PumpsDone
  <2>3. wpc' \in WatchSteps
    BY DEF TestTypeOK, WatchSteps, WatchRunner, PumpsDone
  <2> QED
    BY <2>1, <2>2, <2>3 DEF TestTypeOK, TestInv
<1>2. RunnerKnown'
  BY DEF RunnerKnown, WatchRunner, PumpsDone
<1>3. AdapterKnown'
  BY DEF AdapterKnown, RunnerKnown, WatchRunner, PumpsDone
<1>4. EndKnown'
  BY DEF EndKnown, AdapterKnown, RunnerKnown, FailKnown, Enders, WatchRunner,
     PumpsDone
<1>5. FailKnown'
  BY DEF FailKnown, Enders, RunnerKnown, WatchRunner, PumpsDone
<1> QED
  BY <1>1, <1>2, <1>3, <1>4, <1>5

LEMMA WatchAwaitsKeeps ==
    ASSUME TestInv, WatchAwaits
    PROVE  TestInv'
<1> USE DEF TestInv, os, session, manager, threads
<1>1. TestTypeOK'
  <2>1. UNCHANGED <<runner, adapter, state, stopReason, reason, code, spc, tpc>>
    BY DEF WatchAwaits, AwaitAdapter
  <2>2. wpc' \in WatchSteps
    BY DEF TestTypeOK, WatchSteps, WatchAwaits, AwaitAdapter
  <2> QED
    BY <2>1, <2>2 DEF TestTypeOK, TestInv
<1>2. RunnerKnown'
  BY DEF RunnerKnown, WatchAwaits, AwaitAdapter
<1>3. AdapterKnown'
  BY DEF AdapterKnown, RunnerKnown, WatchAwaits, AwaitAdapter
<1>4. EndKnown'
  BY DEF EndKnown, AdapterKnown, RunnerKnown, FailKnown, Enders, WatchAwaits,
     AwaitAdapter
<1>5. FailKnown'
  BY DEF FailKnown, Enders, RunnerKnown, WatchAwaits, AwaitAdapter
<1> QED
  BY <1>1, <1>2, <1>3, <1>4, <1>5

LEMMA WatchFinishesKeeps ==
    ASSUME TestInv, WatchFinishes
    PROVE  TestInv'
<1> USE DEF TestInv, os, session, manager, threads
<1>1. TestTypeOK'
  <2>1. UNCHANGED <<runner, adapter, stopReason, code, spc, tpc>>
    BY DEF WatchFinishes, FinishRun, EndLocked
  <2>2. state' \in SessionStates
    BY DEF TestTypeOK, SessionStates, WatchFinishes, FinishRun, EndLocked
  <2>3. reason' \in Reasons
    BY DEF TestTypeOK, Reasons, WatchFinishes, FinishRun, EndLocked
  <2>4. wpc' \in WatchSteps
    BY DEF TestTypeOK, WatchSteps, WatchFinishes, FinishRun, EndLocked
  <2> QED
    BY <2>1, <2>2, <2>3, <2>4 DEF TestTypeOK, TestInv
<1>2. RunnerKnown'
  BY DEF RunnerKnown, WatchFinishes, FinishRun, EndLocked
<1>3. AdapterKnown'
  BY DEF AdapterKnown, RunnerKnown, WatchFinishes, FinishRun, EndLocked
<1>4. EndKnown'
  BY DEF EndKnown, AdapterKnown, RunnerKnown, FailKnown, Enders, WatchFinishes,
     FinishRun, EndLocked
<1>5. FailKnown'
  BY DEF FailKnown, Enders, RunnerKnown, WatchFinishes, FinishRun, EndLocked
<1> QED
  BY <1>1, <1>2, <1>3, <1>4, <1>5

LEMMA StopBeginsKeeps ==
    ASSUME TestInv, StopBegins
    PROVE  TestInv'
<1> USE DEF TestInv, os, session, manager, threads
<1>1. TestTypeOK'
  <2>1. UNCHANGED <<runner, adapter, state, stopReason, reason, code, spc, wpc>>
    BY DEF StopBegins
  <2>2. tpc' \in [Enders -> TerminateSteps]
    BY DEF TestTypeOK, TerminateSteps, Enders, StopBegins
  <2> QED
    BY <2>1, <2>2 DEF TestTypeOK, TestInv
<1>2. RunnerKnown'
  BY DEF RunnerKnown, StopBegins
<1>3. AdapterKnown'
  BY DEF AdapterKnown, RunnerKnown, StopBegins
<1>4. EndKnown'
  BY DEF TestTypeOK, EndKnown, AdapterKnown, RunnerKnown, FailKnown, Enders,
     StopBegins
<1>5. FailKnown'
  BY DEF TestTypeOK, FailKnown, Enders, RunnerKnown, StopBegins
<1> QED
  BY <1>1, <1>2, <1>3, <1>4, <1>5

LEMMA FlagKeeps ==
    ASSUME TestInv, NEW e \in Enders, Flag(e)
    PROVE  TestInv'
<1> USE DEF TestInv, os, session, manager, threads
<1>1. TestTypeOK'
  <2>1. UNCHANGED <<runner, adapter, state, reason, code, spc, wpc>>
    BY DEF Flag
  <2>2. stopReason' \in Reasons \ {"finished"}
    BY DEF TestTypeOK, Reasons, Enders, Flag
  <2>3. tpc' \in [Enders -> TerminateSteps]
    BY DEF TestTypeOK, TerminateSteps, Flag
  <2> QED
    BY <2>1, <2>2, <2>3 DEF TestTypeOK, TestInv
<1>2. RunnerKnown'
  BY DEF RunnerKnown, Flag
<1>3. AdapterKnown'
  BY DEF AdapterKnown, RunnerKnown, Flag
<1>4. EndKnown'
  BY DEF TestTypeOK, EndKnown, AdapterKnown, RunnerKnown, FailKnown, Enders, Flag
<1>5. FailKnown'
  BY DEF TestTypeOK, FailKnown, Enders, RunnerKnown, Flag
<1> QED
  BY <1>1, <1>2, <1>3, <1>4, <1>5

LEMMA TerminateKillsKeeps ==
    ASSUME TestInv, NEW e \in Enders, TerminateKills(e)
    PROVE  TestInv'
<1> USE DEF TestInv, os, session, manager, threads
<1>1. TestTypeOK'
  <2>1. UNCHANGED <<adapter, state, stopReason, reason, code, spc, wpc>>
    BY DEF TerminateKills, KillRunner
  <2>2. runner' \in RunnerStates
    BY DEF TestTypeOK, RunnerStates, TerminateKills, KillRunner
  <2>3. tpc' \in [Enders -> TerminateSteps]
    BY DEF TestTypeOK, TerminateSteps, TerminateKills, KillRunner
  <2> QED
    BY <2>1, <2>2, <2>3 DEF TestTypeOK, TestInv
<1>2. RunnerKnown'
  BY DEF RunnerKnown, TerminateKills, KillRunner
<1>3. AdapterKnown'
  BY DEF AdapterKnown, RunnerKnown, TerminateKills, KillRunner
<1>4. EndKnown'
  BY DEF TestTypeOK, EndKnown, AdapterKnown, RunnerKnown, FailKnown, Enders,
     TerminateKills, KillRunner
<1>5. FailKnown'
  BY DEF TestTypeOK, ExitCodes, RunnerStates, FailKnown, Enders, RunnerKnown,
     TerminateKills, KillRunner
<1> QED
  BY <1>1, <1>2, <1>3, <1>4, <1>5

LEMMA ShutdownAdapterKeeps ==
    ASSUME TestInv, NEW e \in Enders, ShutdownAdapter(e)
    PROVE  TestInv'
<1> USE DEF TestInv, os, session, manager, threads
<1>1. TestTypeOK'
  <2>1. UNCHANGED <<runner, adapter, state, stopReason, reason, code, spc, wpc>>
    BY DEF ShutdownAdapter
  <2>2. tpc' \in [Enders -> TerminateSteps]
    BY DEF TestTypeOK, TerminateSteps, ShutdownAdapter
  <2> QED
    BY <2>1, <2>2 DEF TestTypeOK, TestInv
<1>2. RunnerKnown'
  BY DEF RunnerKnown, ShutdownAdapter
<1>3. AdapterKnown'
  BY DEF AdapterKnown, RunnerKnown, ShutdownAdapter
<1>4. EndKnown'
  BY DEF TestTypeOK, EndKnown, AdapterKnown, RunnerKnown, FailKnown, Enders,
     ShutdownAdapter
<1>5. FailKnown'
  BY DEF TestTypeOK, FailKnown, Enders, RunnerKnown, ShutdownAdapter
<1> QED
  BY <1>1, <1>2, <1>3, <1>4, <1>5

LEMMA ShutdownEndsKeeps ==
    ASSUME TestInv, NEW e \in Enders, ShutdownEnds(e)
    PROVE  TestInv'
<1> USE DEF TestInv, os, session, manager, threads
<1>1. TestTypeOK'
  <2>1. UNCHANGED <<runner, adapter, state, stopReason, reason, code, spc, wpc>>
    BY DEF ShutdownEnds
  <2>2. tpc' \in [Enders -> TerminateSteps]
    BY DEF TestTypeOK, TerminateSteps, ShutdownEnds
  <2> QED
    BY <2>1, <2>2 DEF TestTypeOK, TestInv
<1>2. RunnerKnown'
  BY DEF RunnerKnown, ShutdownEnds
<1>3. AdapterKnown'
  BY DEF AdapterKnown, RunnerKnown, ShutdownEnds
<1>4. EndKnown'
  BY DEF TestTypeOK, EndKnown, AdapterKnown, RunnerKnown, FailKnown, Enders,
     ShutdownEnds
<1>5. FailKnown'
  BY DEF TestTypeOK, FailKnown, Enders, RunnerKnown, ShutdownEnds
<1> QED
  BY <1>1, <1>2, <1>3, <1>4, <1>5

LEMMA TerminateEndsKeeps ==
    ASSUME TestInv, NEW e \in Enders, TerminateEnds(e)
    PROVE  TestInv'
<1> USE DEF TestInv, os, session, manager, threads
<1>1. TestTypeOK'
  <2>1. UNCHANGED <<runner, adapter, stopReason, code, spc, wpc>>
    BY DEF TerminateEnds, EndLocked
  <2>2. state' \in SessionStates
    BY DEF TestTypeOK, SessionStates, TerminateEnds, EndLocked
  <2>3. reason' \in Reasons
    BY DEF TestTypeOK, Reasons, Enders, TerminateEnds, EndLocked
  <2>4. tpc' \in [Enders -> TerminateSteps]
    BY DEF TestTypeOK, TerminateSteps, TerminateEnds, EndLocked
  <2> QED
    BY <2>1, <2>2, <2>3, <2>4 DEF TestTypeOK, TestInv
<1>2. RunnerKnown'
  BY DEF RunnerKnown, TerminateEnds, EndLocked
<1>3. AdapterKnown'
  BY DEF AdapterKnown, RunnerKnown, TerminateEnds, EndLocked
<1>4. EndKnown'
  BY DEF TestTypeOK, Reasons, EndKnown, AdapterKnown, RunnerKnown, FailKnown,
     Enders, TerminateEnds, EndLocked
<1>5. FailKnown'
  BY DEF TestTypeOK, FailKnown, Enders, RunnerKnown, TerminateEnds, EndLocked
<1> QED
  BY <1>1, <1>2, <1>3, <1>4, <1>5

LEMMA ForgetsKeeps ==
    ASSUME TestInv, NEW e \in Enders, Forgets(e)
    PROVE  TestInv'
<1> USE DEF TestInv, os, session, manager, threads
<1>1. TestTypeOK'
  <2>1. UNCHANGED <<runner, adapter, state, stopReason, reason, code, wpc>>
    BY DEF Forgets
  <2>2. spc' \in StartSteps
    BY DEF TestTypeOK, StartSteps, Forgets
  <2>3. tpc' \in [Enders -> TerminateSteps]
    BY DEF TestTypeOK, TerminateSteps, Forgets
  <2> QED
    BY <2>1, <2>2, <2>3 DEF TestTypeOK, TestInv
<1>2. RunnerKnown'
  BY DEF RunnerKnown, Forgets
<1>3. AdapterKnown'
  BY DEF AdapterKnown, RunnerKnown, FailKnown, Enders, Forgets
<1>4. EndKnown'
  BY DEF TestTypeOK, EndKnown, AdapterKnown, RunnerKnown, FailKnown, Enders, Forgets
<1>5. FailKnown'
  BY DEF TestTypeOK, FailKnown, Enders, RunnerKnown, Forgets
<1> QED
  BY <1>1, <1>2, <1>3, <1>4, <1>5

LEMMA StartTestKeeps ==
    ASSUME TestInv, NEW args, StartTest(args)
    PROVE  TestInv'
<1> USE DEF TestInv, os, session, manager, threads
<1>1. TestTypeOK'
  <2>1. UNCHANGED <<runner, adapter, state, stopReason, reason, code, wpc, tpc>>
    BY DEF StartTest, TestCommand
  <2>2. spc' \in StartSteps
    BY DEF TestTypeOK, StartSteps, StartTest, TestCommand
  <2> QED
    BY <2>1, <2>2 DEF TestTypeOK, TestInv
<1>2. RunnerKnown'
  BY DEF RunnerKnown, StartTest, TestCommand
<1>3. AdapterKnown'
  BY DEF AdapterKnown, RunnerKnown, StartTest, TestCommand
<1>4. EndKnown'
  BY DEF EndKnown, AdapterKnown, RunnerKnown, FailKnown, Enders, StartTest,
     TestCommand
<1>5. FailKnown'
  BY DEF FailKnown, Enders, RunnerKnown, StartTest, TestCommand
<1> QED
  BY <1>1, <1>2, <1>3, <1>4, <1>5

LEMMA StartRunnerKeeps ==
    ASSUME TestInv, StartRunner
    PROVE  TestInv'
<1> USE DEF TestInv, os, session, manager, threads
<1>1. TestTypeOK'
  <2>1. UNCHANGED <<adapter, state, stopReason, reason, code, wpc>>
    BY DEF StartRunner, Fail
  <2>2. runner' \in RunnerStates
    BY DEF TestTypeOK, RunnerStates, StartRunner, Fail
  <2>3. spc' \in StartSteps
    BY DEF TestTypeOK, StartSteps, StartRunner, Fail
  <2>4. tpc' \in [Enders -> TerminateSteps]
    BY DEF TestTypeOK, TerminateSteps, Enders, StartRunner, Fail
  <2> QED
    BY <2>1, <2>2, <2>3, <2>4 DEF TestTypeOK, TestInv
<1>2. RunnerKnown'
  BY DEF RunnerKnown, StartRunner, Fail
<1>3. AdapterKnown'
  BY DEF AdapterKnown, RunnerKnown, StartRunner, Fail
<1>4. EndKnown'
  BY DEF TestTypeOK, EndKnown, AdapterKnown, RunnerKnown, FailKnown, Enders,
     StartRunner, Fail
<1>5. FailKnown'
  BY DEF TestTypeOK, FailKnown, Enders, RunnerKnown, StartRunner, Fail
<1> QED
  BY <1>1, <1>2, <1>3, <1>4, <1>5

LEMMA SetCmdKeeps ==
    ASSUME TestInv, SetCmd
    PROVE  TestInv'
<1> USE DEF TestInv, os, session, manager, threads
<1>1. TestTypeOK'
  <2>1. UNCHANGED <<adapter, state, stopReason, reason, code>>
    BY DEF SetCmd, KillIfStopped, Fail
  <2>2. runner' \in RunnerStates
    BY DEF TestTypeOK, RunnerStates, SetCmd, KillIfStopped, Fail
  <2>3. spc' \in StartSteps
    BY DEF TestTypeOK, StartSteps, SetCmd, KillIfStopped, Fail
  <2>4. wpc' \in WatchSteps
    BY DEF TestTypeOK, WatchSteps, SetCmd, KillIfStopped, Fail
  <2>5. tpc' \in [Enders -> TerminateSteps]
    BY DEF TestTypeOK, TerminateSteps, Enders, SetCmd, KillIfStopped, Fail
  <2> QED
    BY <2>1, <2>2, <2>3, <2>4, <2>5 DEF TestTypeOK, TestInv
<1>2. RunnerKnown'
  BY DEF TestTypeOK, ExitCodes, RunnerKnown, SetCmd, KillIfStopped, Fail
<1>3. AdapterKnown'
  BY DEF AdapterKnown, RunnerKnown, SetCmd, KillIfStopped, Fail
<1>4. EndKnown'
  BY DEF TestTypeOK, EndKnown, AdapterKnown, RunnerKnown, FailKnown, Enders, SetCmd,
     KillIfStopped, Fail
<1>5. FailKnown'
  BY DEF TestTypeOK, FailKnown, Enders, RunnerKnown, SetCmd, KillIfStopped, Fail
<1> QED
  BY <1>1, <1>2, <1>3, <1>4, <1>5

LEMMA WaitHostPIDKeeps ==
    ASSUME TestInv, WaitHostPID
    PROVE  TestInv'
<1> USE DEF TestInv, os, session, manager, threads
<1>1. TestTypeOK'
  <2>1. UNCHANGED <<runner, adapter, state, stopReason, reason, code, wpc>>
    BY DEF WaitHostPID, Fail
  <2>2. spc' \in StartSteps
    BY DEF TestTypeOK, StartSteps, WaitHostPID, Fail
  <2>3. tpc' \in [Enders -> TerminateSteps]
    BY DEF TestTypeOK, TerminateSteps, Enders, WaitHostPID, Fail
  <2> QED
    BY <2>1, <2>2, <2>3 DEF TestTypeOK, TestInv
<1>2. RunnerKnown'
  BY DEF RunnerKnown, WaitHostPID, Fail
<1>3. AdapterKnown'
  BY DEF AdapterKnown, RunnerKnown, WaitHostPID, Fail
<1>4. EndKnown'
  BY DEF TestTypeOK, EndKnown, AdapterKnown, RunnerKnown, FailKnown, Enders,
     WaitHostPID, Fail
<1>5. FailKnown'
  BY DEF TestTypeOK, FailKnown, Enders, RunnerKnown, WaitHostPID, Fail
<1> QED
  BY <1>1, <1>2, <1>3, <1>4, <1>5

LEMMA PrepareHostKeeps ==
    ASSUME TestInv, PrepareHost
    PROVE  TestInv'
<1> USE DEF TestInv, os, session, manager, threads
<1>1. TestTypeOK'
  <2>1. UNCHANGED <<runner, adapter, state, stopReason, reason, code, wpc>>
    BY DEF PrepareHost, Fail
  <2>2. spc' \in StartSteps
    BY DEF TestTypeOK, StartSteps, PrepareHost, Fail
  <2>3. tpc' \in [Enders -> TerminateSteps]
    BY DEF TestTypeOK, TerminateSteps, Enders, PrepareHost, Fail
  <2> QED
    BY <2>1, <2>2, <2>3 DEF TestTypeOK, TestInv
<1>2. RunnerKnown'
  BY DEF RunnerKnown, PrepareHost, Fail
<1>3. AdapterKnown'
  BY DEF AdapterKnown, RunnerKnown, PrepareHost, Fail
<1>4. EndKnown'
  BY DEF TestTypeOK, EndKnown, AdapterKnown, RunnerKnown, FailKnown, Enders,
     PrepareHost, Fail
<1>5. FailKnown'
  BY DEF TestTypeOK, FailKnown, Enders, RunnerKnown, PrepareHost, Fail
<1> QED
  BY <1>1, <1>2, <1>3, <1>4, <1>5

LEMMA StartAdapterKeeps ==
    ASSUME TestInv, StartAdapter
    PROVE  TestInv'
<1> USE DEF TestInv, os, session, manager, threads
<1>1. TestTypeOK'
  <2>1. UNCHANGED <<runner, state, stopReason, reason, code, wpc>>
    BY DEF StartAdapter, Fail
  <2>2. adapter' \in AdapterStates
    BY DEF TestTypeOK, AdapterStates, StartAdapter, Fail
  <2>3. spc' \in StartSteps
    BY DEF TestTypeOK, StartSteps, StartAdapter, Fail
  <2>4. tpc' \in [Enders -> TerminateSteps]
    BY DEF TestTypeOK, TerminateSteps, Enders, StartAdapter, Fail
  <2> QED
    BY <2>1, <2>2, <2>3, <2>4 DEF TestTypeOK, TestInv
<1>2. RunnerKnown'
  BY DEF RunnerKnown, StartAdapter, Fail
<1>3. AdapterKnown'
  BY DEF AdapterKnown, RunnerKnown, StartAdapter, Fail
<1>4. EndKnown'
  BY DEF TestTypeOK, EndKnown, AdapterKnown, RunnerKnown, FailKnown, Enders,
     StartAdapter, Fail
<1>5. FailKnown'
  BY DEF TestTypeOK, FailKnown, Enders, RunnerKnown, StartAdapter, Fail
<1> QED
  BY <1>1, <1>2, <1>3, <1>4, <1>5

LEMMA CheckStoppedKeeps ==
    ASSUME TestInv, CheckStopped
    PROVE  TestInv'
<1> USE DEF TestInv, os, session, manager, threads
<1>1. TestTypeOK'
  <2>1. UNCHANGED <<runner, adapter, state, stopReason, reason, code, wpc>>
    BY DEF CheckStopped, StoppedMeanwhile, Fail
  <2>2. spc' \in StartSteps
    BY DEF TestTypeOK, StartSteps, CheckStopped, StoppedMeanwhile, Fail
  <2>3. tpc' \in [Enders -> TerminateSteps]
    BY DEF TestTypeOK, TerminateSteps, Enders, CheckStopped, StoppedMeanwhile, Fail
  <2> QED
    BY <2>1, <2>2, <2>3 DEF TestTypeOK, TestInv
<1>2. RunnerKnown'
  BY DEF RunnerKnown, CheckStopped, StoppedMeanwhile, Fail
<1>3. AdapterKnown'
  BY DEF AdapterKnown, RunnerKnown, CheckStopped, StoppedMeanwhile, Fail
<1>4. EndKnown'
  BY DEF TestTypeOK, EndKnown, AdapterKnown, RunnerKnown, FailKnown, Enders,
     CheckStopped, StoppedMeanwhile, Fail
<1>5. FailKnown'
  BY DEF TestTypeOK, FailKnown, Enders, RunnerKnown, CheckStopped, StoppedMeanwhile,
     Fail
<1> QED
  BY <1>1, <1>2, <1>3, <1>4, <1>5

LEMMA AddAgainKeeps ==
    ASSUME TestInv, AddAgain
    PROVE  TestInv'
<1> USE DEF TestInv, os, session, manager, threads
<1>1. TestTypeOK'
  <2>1. UNCHANGED <<runner, adapter, state, stopReason, reason, code, wpc, tpc>>
    BY DEF AddAgain
  <2>2. spc' \in StartSteps
    BY DEF TestTypeOK, StartSteps, AddAgain
  <2> QED
    BY <2>1, <2>2 DEF TestTypeOK, TestInv
<1>2. RunnerKnown'
  BY DEF RunnerKnown, AddAgain
<1>3. AdapterKnown'
  BY DEF AdapterKnown, RunnerKnown, AddAgain
<1>4. EndKnown'
  BY DEF EndKnown, AdapterKnown, RunnerKnown, FailKnown, Enders, AddAgain
<1>5. FailKnown'
  BY DEF FailKnown, Enders, RunnerKnown, AddAgain
<1> QED
  BY <1>1, <1>2, <1>3, <1>4, <1>5

LEMMA ConfigureKeeps ==
    ASSUME TestInv, Configure
    PROVE  TestInv'
<1> USE DEF TestInv, os, session, manager, threads
<1>1. TestTypeOK'
  <2>1. UNCHANGED <<runner, adapter, state, stopReason, reason, code, wpc>>
    BY DEF Configure, Fail
  <2>2. spc' \in StartSteps
    BY DEF TestTypeOK, StartSteps, Configure, Fail
  <2>3. tpc' \in [Enders -> TerminateSteps]
    BY DEF TestTypeOK, TerminateSteps, Enders, Configure, Fail
  <2> QED
    BY <2>1, <2>2, <2>3 DEF TestTypeOK, TestInv
<1>2. RunnerKnown'
  BY DEF RunnerKnown, Configure, Fail
<1>3. AdapterKnown'
  BY DEF AdapterKnown, RunnerKnown, Configure, Fail
<1>4. EndKnown'
  BY DEF TestTypeOK, EndKnown, AdapterKnown, RunnerKnown, FailKnown, Enders,
     Configure, Fail
<1>5. FailKnown'
  BY DEF TestTypeOK, FailKnown, Enders, RunnerKnown, Configure, Fail
<1> QED
  BY <1>1, <1>2, <1>3, <1>4, <1>5

LEMMA ConfigurationDoneKeeps ==
    ASSUME TestInv, ConfigurationDone
    PROVE  TestInv'
<1> USE DEF TestInv, os, session, manager, threads
<1>1. TestTypeOK'
  <2>1. UNCHANGED <<runner, adapter, stopReason, reason, code, wpc>>
    BY DEF ConfigurationDone, Fail
  <2>2. state' \in SessionStates
    BY DEF TestTypeOK, SessionStates, ConfigurationDone, Fail
  <2>3. spc' \in StartSteps
    BY DEF TestTypeOK, StartSteps, ConfigurationDone, Fail
  <2>4. tpc' \in [Enders -> TerminateSteps]
    BY DEF TestTypeOK, TerminateSteps, Enders, ConfigurationDone, Fail
  <2> QED
    BY <2>1, <2>2, <2>3, <2>4 DEF TestTypeOK, TestInv
<1>2. RunnerKnown'
  BY DEF RunnerKnown, ConfigurationDone, Fail
<1>3. AdapterKnown'
  BY DEF AdapterKnown, RunnerKnown, ConfigurationDone, Fail
<1>4. EndKnown'
  BY DEF TestTypeOK, EndKnown, AdapterKnown, RunnerKnown, FailKnown, Enders,
     ConfigurationDone, Fail
<1>5. FailKnown'
  BY DEF TestTypeOK, FailKnown, Enders, RunnerKnown, ConfigurationDone, Fail
<1> QED
  BY <1>1, <1>2, <1>3, <1>4, <1>5

LEMMA MarkStartedKeeps ==
    ASSUME TestInv, MarkStarted
    PROVE  TestInv'
<1> USE DEF TestInv, os, session, manager, threads
<1>1. TestTypeOK'
  <2>1. UNCHANGED <<runner, adapter, state, stopReason, reason, code, wpc, tpc>>
    BY DEF MarkStarted, FinishedMeanwhile
  <2>2. spc' \in StartSteps
    BY DEF TestTypeOK, StartSteps, MarkStarted, FinishedMeanwhile
  <2> QED
    BY <2>1, <2>2 DEF TestTypeOK, TestInv
<1>2. RunnerKnown'
  BY DEF RunnerKnown, MarkStarted, FinishedMeanwhile
<1>3. AdapterKnown'
  BY DEF AdapterKnown, RunnerKnown, MarkStarted, FinishedMeanwhile
<1>4. EndKnown'
  BY DEF EndKnown, AdapterKnown, RunnerKnown, FailKnown, Enders, MarkStarted,
     FinishedMeanwhile
<1>5. FailKnown'
  BY DEF FailKnown, Enders, RunnerKnown, MarkStarted, FinishedMeanwhile
<1> QED
  BY <1>1, <1>2, <1>3, <1>4, <1>5

LEMMA StartAwaitsKeeps ==
    ASSUME TestInv, StartAwaits
    PROVE  TestInv'
<1> USE DEF TestInv, os, session, manager, threads
<1>1. TestTypeOK'
  <2>1. UNCHANGED <<runner, adapter, state, stopReason, reason, code, wpc, tpc>>
    BY DEF StartAwaits, AwaitAdapter
  <2>2. spc' \in StartSteps
    BY DEF TestTypeOK, StartSteps, StartAwaits, AwaitAdapter
  <2> QED
    BY <2>1, <2>2 DEF TestTypeOK, TestInv
<1>2. RunnerKnown'
  BY DEF RunnerKnown, StartAwaits, AwaitAdapter
<1>3. AdapterKnown'
  BY DEF AdapterKnown, RunnerKnown, StartAwaits, AwaitAdapter
<1>4. EndKnown'
  BY DEF EndKnown, AdapterKnown, RunnerKnown, FailKnown, Enders, StartAwaits,
     AwaitAdapter
<1>5. FailKnown'
  BY DEF FailKnown, Enders, RunnerKnown, StartAwaits, AwaitAdapter
<1> QED
  BY <1>1, <1>2, <1>3, <1>4, <1>5

LEMMA StartFinishesKeeps ==
    ASSUME TestInv, StartFinishes
    PROVE  TestInv'
<1> USE DEF TestInv, os, session, manager, threads
<1>1. TestTypeOK'
  <2>1. UNCHANGED <<runner, adapter, stopReason, code, wpc, tpc>>
    BY DEF StartFinishes, FinishRun, EndLocked
  <2>2. state' \in SessionStates
    BY DEF TestTypeOK, SessionStates, StartFinishes, FinishRun, EndLocked
  <2>3. reason' \in Reasons
    BY DEF TestTypeOK, Reasons, StartFinishes, FinishRun, EndLocked
  <2>4. spc' \in StartSteps
    BY DEF TestTypeOK, StartSteps, StartFinishes, FinishRun, EndLocked
  <2> QED
    BY <2>1, <2>2, <2>3, <2>4 DEF TestTypeOK, TestInv
<1>2. RunnerKnown'
  BY DEF RunnerKnown, StartFinishes, FinishRun, EndLocked
<1>3. AdapterKnown'
  BY DEF AdapterKnown, RunnerKnown, StartFinishes, FinishRun, EndLocked
<1>4. EndKnown'
  BY DEF EndKnown, AdapterKnown, RunnerKnown, FailKnown, Enders, StartFinishes,
     FinishRun, EndLocked
<1>5. FailKnown'
  BY DEF FailKnown, Enders, RunnerKnown, StartFinishes, FinishRun, EndLocked
<1> QED
  BY <1>1, <1>2, <1>3, <1>4, <1>5

LEMMA WatchKeeps ==
    ASSUME TestInv, Watch
    PROVE  TestInv'
<1> USE DEF TestInv, os, session, manager, threads
<1>1. TestTypeOK'
  <2>1. UNCHANGED <<runner, adapter, state, stopReason, reason, code, spc, wpc, tpc>>
    BY DEF Watch
  <2> QED
    BY <2>1 DEF TestTypeOK, TestInv
<1>2. RunnerKnown'
  BY DEF RunnerKnown, Watch
<1>3. AdapterKnown'
  BY DEF AdapterKnown, RunnerKnown, Watch
<1>4. EndKnown'
  BY DEF EndKnown, AdapterKnown, RunnerKnown, FailKnown, Enders, Watch
<1>5. FailKnown'
  BY DEF FailKnown, Enders, RunnerKnown, Watch
<1> QED
  BY <1>1, <1>2, <1>3, <1>4, <1>5

LEMMA StepTest == TestInv /\ [Next]_vars => TestInv'
<1> SUFFICES ASSUME TestInv, [Next]_vars
             PROVE  TestInv'
  OBVIOUS
<1>1. CASE UNCHANGED vars
  <2>1. UNCHANGED <<os, session, manager, threads, trouble, late>>
    BY <1>1 DEF vars
  <2>2. TestTypeOK'
    <3>1. UNCHANGED <<runner, adapter, state, stopReason, reason, code, spc, wpc, tpc>>
      BY <2>1 DEF os, session, threads
    <3> QED
      BY <3>1 DEF TestInv, TestTypeOK
  <2>4. RunnerKnown' /\ AdapterKnown'
    BY <2>1 DEF os, session, manager, threads, TestInv, RunnerKnown, AdapterKnown
  <2>3. EndKnown' /\ FailKnown'
    BY <2>1 DEF os, session, manager, threads, TestInv, EndKnown, FailKnown
  <2> QED
    BY <2>2, <2>3, <2>4 DEF TestInv
<1>2. CASE Start
  BY <1>2, StartTestKeeps, StartRunnerKeeps, SetCmdKeeps, WaitHostPIDKeeps,
     PrepareHostKeeps, StartAdapterKeeps, CheckStoppedKeeps, AddAgainKeeps, ConfigureKeeps,
     ConfigurationDoneKeeps, MarkStartedKeeps, StartAwaitsKeeps, StartFinishesKeeps
     DEF Start
<1>3. CASE \E e \in Enders : Terminate(e)
  BY <1>3, FlagKeeps, TerminateKillsKeeps, ShutdownAdapterKeeps, ShutdownEndsKeeps,
     TerminateEndsKeeps, ForgetsKeeps DEF Terminate
<1>4. CASE Watcher
  BY <1>4, PumpKeeps, WatchRunnerKeeps, WatchAwaitsKeeps, WatchFinishesKeeps DEF Watcher
<1>5. CASE RunnerExits \/ AdapterSays \/ AdapterGone \/ OnOutput \/ OnTerminated \/ StopBegins
  BY <1>5, RunnerExitsKeeps, AdapterSaysKeeps, AdapterGoneKeeps, OnOutputKeeps,
     OnTerminatedKeeps, StopBeginsKeeps
<1> QED
  BY <1>1, <1>2, <1>3, <1>4, <1>5, PrintsKeeps, WatchKeeps DEF Next

\* However a test run ends, by itself, by a stop at any point of its start or
\* by a failure, and however many of them happen at once: one that finished
\* has all its output, one that failed has left no runner and no session, and
\* no adapter is left that nobody shuts down (watchRunner, run, m.fail).
THEOREM TestRunIsComplete == Spec => []RunComplete
<1>1. TestInv => RunComplete
  BY DEF TestInv, TestTypeOK, RunnerStates, ExitCodes, RunnerKnown, AdapterKnown, EndKnown, FailKnown, RunComplete,
         FinishedComplete, NothingLeft
<1> QED
  BY <1>1, InitTest, StepTest, PTL DEF Spec

----------------------------------------------------------------------------
(***************************************************************************)
(* The .NET helper (internal/helper). The lines written, those not read    *)
(* and the one held are kept apart by their place in the history of all    *)
(* lines: what the call was handed is exactly the part before them. A      *)
(* reply to the call is the last line the helper writes, so the end of the *)
(* output without one means that none was written.                         *)
(***************************************************************************)

Replies == {"answer", "error", "bad"}
Lines == [kind : Replies \cup {"note"}, id : Nat]

HelperTypeOK ==
    /\ inbox \in {<<>>, << 1 >>, << 2 >>}
    /\ helper \in {"up", "gone"}
    /\ stdout \in Seq(Lines) /\ written \in Seq(Lines)
    /\ reader \in {"reads", "holds", "ended"}
    /\ reader = "holds" => held \in Lines \cup {Line("eof", 0)}
    /\ at \in {"hello", "call", "close", "waits", "done"}
    /\ id \in {1, 2}
    /\ notes \in Seq(Nat)
    /\ result \in {"none", "answer", "error", "failed", "ctx"}

\* Where the command is, and what it has sent and had answered by then.
CommandAt ==
    /\ at = "hello" => id = 1 /\ result = "none" /\ notes = <<>>
    /\ at = "call" => id = 2 /\ result = "answer"
    /\ result = "answer" => id = 2
    /\ closing => at \in {"waits", "done"}

\* The helper wrote one reply to hello, then notifications that it numbers,
\* then one reply to the call, each once it was asked.
WrittenInOrder ==
    /\ \A i \in 1..Len(written) :
          /\ written[i].kind = "note" => i >= 2 /\ written[i].id = i - 1
          /\ written[i].kind \in Replies =>
                \/ i = 1 /\ written[i].id = 1
                \/ i = Len(written) /\ i >= 2 /\ written[i].id = 2 /\ inbox = <<>>
    /\ inbox = << 1 >> => written = <<>> /\ id = 1
    /\ inbox = << 2 >> => Len(written) >= 1 /\ id = 2
    /\ id = 1 => Len(written) <= 1
    /\ id = 2 => Len(written) >= 1

\* What is not read yet is the end of what was written; the line held comes
\* just before it, and the end of output after all of it.
Read == Len(written) - Len(stdout)
Holding == reader = "holds" /\ held # Line("eof", 0)
Handled == IF Holding THEN Read - 1 ELSE Read

Piped ==
    /\ Len(stdout) <= Len(written)
    /\ \A i \in 1..Len(stdout) : stdout[i] = written[Read + i]
    /\ Holding => Read >= 1 /\ held = written[Read]
    /\ reader = "holds" /\ ~Holding => helper = "gone" /\ stdout = <<>>

\* The call was handed every line handled so far, all notifications.
HandedOver ==
    /\ at = "hello" => Handled = 0
    /\ at = "call" =>
          /\ Handled = Len(notes) + 1
          /\ \A i \in 2..Handled : written[i].kind = "note"
    /\ \A i \in 1..Len(notes) : notes[i] = i

\* How the call ended is what was written.
Outcomes ==
    at \notin {"hello", "call"} /\ id = 2 =>
        /\ result = "answer" =>
              /\ Len(written) = Len(notes) + 2
              /\ written[Len(written)].kind = "answer"
        /\ result = "failed" =>
              \/ written[Len(written)].kind = "bad" /\ Len(written) >= 2
              \/ helper = "gone" /\ \A i \in 2..Len(written) : written[i].kind = "note"

HelperInv ==
    HelperTypeOK /\ CommandAt /\ WrittenInOrder /\ Piped /\ HandedOver /\ Outcomes

----------------------------------------------------------------------------

\* The notifications are all that was written after the first line, except
\* the reply to the call.
LEMMA NotesWritten ==
    ASSUME HelperInv, NEW n \in Nat, 1 <= n, n <= Len(written),
           \A i \in 2..n : written[i].kind = "note",
           n < Len(written) => n + 1 = Len(written) /\ written[Len(written)].kind \in Replies
    PROVE  Noted = n - 1
<1>0. Len(written) \in Nat
  BY DEF HelperInv, HelperTypeOK
<1>1. DOMAIN written = 1..Len(written) /\ Len(written) \in Nat
  BY DEF HelperInv, HelperTypeOK
<1>2. \A i \in 1..Len(written) : written[i].kind = "note" => i >= 2
  BY <1>1 DEF HelperInv, WrittenInOrder
<1>3. ASSUME NEW i \in 1..Len(written)
      PROVE  written[i].kind = "note" <=> i \in 2..n
  <2>1. CASE i = Len(written) /\ n < Len(written)
    BY <2>1 DEF Replies
  <2>2. CASE ~(i = Len(written) /\ n < Len(written))
    <3>1. i <= n
      BY <1>0, <2>2
    <3>2. CASE i = 1
      BY <1>0, <1>2, <3>2
    <3>3. CASE i # 1
      <4>1. i \in 2..n
        BY <3>1, <3>3
      <4> QED
        BY <4>1
    <3> QED
      BY <3>2, <3>3
  <2> QED
    BY <2>1, <2>2
<1>4. {i \in DOMAIN written : written[i].kind = "note"} = 2..n
  <2>1. \A i \in 2..n : i \in 1..Len(written)
    BY <1>0
  <2>2. \A i : i \in DOMAIN written /\ written[i].kind = "note" <=> i \in 2..n
    BY <1>1, <1>3, <2>1, Zenon
  <2> QED
    BY <2>2, Zenon
<1>5. Cardinality(2..n) = n - 1
  BY FS_Interval
<1> QED
  BY <1>4, <1>5 DEF Noted

\* While the call is unanswered, only notifications follow the first line.
LEMMA NotedSoFar ==
    ASSUME HelperInv, inbox = << 2 >>
    PROVE  Noted = Len(written) - 1
<1>1. /\ DOMAIN written = 1..Len(written) /\ Len(written) \in Nat /\ Len(written) >= 1
      /\ inbox # <<>>
  BY DEF HelperInv, HelperTypeOK, WrittenInOrder
<1>2. \A i \in 2..Len(written) : written[i].kind = "note"
  <2> SUFFICES ASSUME NEW i \in 2..Len(written)
               PROVE  written[i].kind = "note"
    OBVIOUS
  <2>1. written[i] \in Lines
    BY <1>1 DEF HelperInv, HelperTypeOK
  <2> QED
    BY <1>1, <2>1 DEF HelperInv, WrittenInOrder, Lines, Replies
<1>3. Len(written) <= Len(written) /\ ~(Len(written) < Len(written))
  BY <1>1
<1> QED
  BY <1>1, <1>2, <1>3, NotesWritten

LEMMA InitHelper == HelperInit => HelperInv
BY DEF HelperInit, HelperInv, HelperTypeOK, CommandAt, WrittenInOrder, Piped, HandedOver,
       Outcomes, Read, Holding, Handled

LEMMA QuietKeeps ==
    ASSUME HelperInv, UNCHANGED <<inbox, helper, stdout, written, reader, held, closing, at, id, notes, result>>
    PROVE  HelperInv'
<1> USE DEF HelperInv
<1>10. HelperTypeOK'
  BY DEF HelperTypeOK
<1>11. CommandAt'
  BY DEF HelperTypeOK, CommandAt
<1>12. WrittenInOrder'
  BY DEF HelperTypeOK, WrittenInOrder
<1>13. Piped'
  BY DEF HelperTypeOK, Piped, Read, Holding
<1>14. HandedOver'
  BY DEF HelperTypeOK, HandedOver, Handled, Read, Holding
<1>15. Outcomes'
  BY DEF HelperTypeOK, Outcomes
<1> QED
  BY <1>10, <1>11, <1>12, <1>13, <1>14, <1>15

LEMMA GoneKeeps ==
    ASSUME HelperInv, helper' = "gone", inbox' = <<>>,
           UNCHANGED <<stdout, written, reader, held, closing, at, id, notes, result>>
    PROVE  HelperInv'
<1> USE DEF HelperInv
<1>10. HelperTypeOK'
  BY DEF HelperTypeOK
<1>11. CommandAt'
  BY DEF HelperTypeOK, CommandAt
<1>12. WrittenInOrder'
  BY DEF HelperTypeOK, WrittenInOrder
<1>13. Piped'
  BY DEF HelperTypeOK, Piped, Read, Holding
<1>14. HandedOver'
  BY DEF HelperTypeOK, HandedOver, Handled, Read, Holding
<1>15. Outcomes'
  BY DEF HelperTypeOK, Outcomes
<1> QED
  BY <1>10, <1>11, <1>12, <1>13, <1>14, <1>15

\* A call the helper may still write for is not over, or given up.
LEMMA WritesOnlyBefore ==
    ASSUME HelperInv, helper = "up", inbox # <<>>, at \notin {"hello", "call"}, id = 2
    PROVE  result \notin {"answer", "failed"}
<1>1. Len(written) \in Nat /\ Len(written) >= 1 /\ Len(written) \in 1..Len(written)
  BY DEF HelperInv, HelperTypeOK, WrittenInOrder
<1>2. Len(written) >= 2 => written[Len(written)].kind \notin Replies
  BY <1>1 DEF HelperInv, WrittenInOrder
<1>3. notes \in Seq(Nat) /\ Len(notes) \in Nat
  BY DEF HelperInv, HelperTypeOK
<1> QED
  BY <1>1, <1>2, <1>3 DEF HelperInv, Outcomes, Replies

\* A line written goes to the end of the history and of the output.
LEMMA AfterWrite ==
    ASSUME HelperInv, NEW l \in Lines, Writes(l), helper = "up", inbox # <<>>,
           UNCHANGED <<helper, reader, held, closing, at, id, notes, result>>
    PROVE  /\ written' \in Seq(Lines) /\ stdout' \in Seq(Lines)
           /\ Len(written) \in Nat /\ Len(written') = Len(written) + 1
           /\ \A i \in 1..Len(written) : written'[i] = written[i]
           /\ written'[Len(written) + 1] = l
           /\ Piped' /\ HandedOver' /\ Outcomes' /\ CommandAt'
<1> USE DEF HelperInv
<1>1. /\ written \in Seq(Lines) /\ written' = Append(written, l)
      /\ stdout \in Seq(Lines) /\ stdout' = Append(stdout, l)
  BY DEF HelperTypeOK, Writes
<1>2. /\ written' \in Seq(Lines) /\ stdout' \in Seq(Lines)
      /\ Len(written) \in Nat /\ Len(written') = Len(written) + 1
      /\ Len(stdout) \in Nat /\ Len(stdout') = Len(stdout) + 1
      /\ \A i \in 1..Len(written) : written'[i] = written[i]
      /\ \A i \in 1..Len(stdout) : stdout'[i] = stdout[i]
      /\ written'[Len(written) + 1] = l
      /\ stdout'[Len(stdout) + 1] = l
  BY <1>1
<1>3. /\ Len(stdout) <= Len(written)
      /\ \A i \in 1..Len(stdout) : stdout[i] = written[Read + i]
      /\ Holding => Read >= 1 /\ held = written[Read]
      /\ ~(reader = "holds" /\ ~Holding)
  BY DEF Piped
<1>4. Read' = Read /\ Read \in Nat /\ Read <= Len(written) /\ Read = Len(written) - Len(stdout)
  BY <1>2, <1>3 DEF Read
<1>5. Holding' <=> Holding
  BY DEF Holding
<1>6. Handled' = Handled
  BY <1>4, <1>5 DEF Handled
<1>7. Piped'
  <2>1. \A i \in 1..Len(stdout') : stdout'[i] = written'[Read + i]
    <3> SUFFICES ASSUME NEW i \in 1..Len(stdout')
                 PROVE  stdout'[i] = written'[Read + i]
      OBVIOUS
    <3>1. CASE i = Len(stdout) + 1
      BY <1>2, <1>4, <3>1
    <3>2. CASE i \in 1..Len(stdout)
      <4>1. Read + i \in 1..Len(written)
        BY <1>2, <1>4, <3>2
      <4> QED
        BY <1>2, <1>3, <3>2, <4>1
    <3> QED
      BY <1>2, <3>1, <3>2
  <2>2. Holding' => Read' >= 1 /\ held' = written'[Read']
    <3>1. Holding => Read \in 1..Len(written)
      BY <1>2, <1>3, <1>4
    <3>2. Holding => Read' >= 1 /\ held' = written[Read]
      BY <1>3, <1>4
    <3> QED
      BY <1>2, <1>4, <1>5, <3>1, <3>2
  <2>3. Len(stdout') <= Len(written')
    BY <1>2, <1>3
  <2> QED
    BY <1>3, <1>4, <1>5, <2>1, <2>2, <2>3 DEF Piped
<1>8. HandedOver'
  <2>1. Handled <= Len(written)
    BY <1>2, <1>4 DEF Handled
  <2>2. \A i \in 2..Handled : written'[i] = written[i]
    BY <1>2, <1>4, <2>1 DEF Handled
  <2> QED
    BY <1>6, <2>2 DEF HandedOver
<1>9. Outcomes'
  BY WritesOnlyBefore DEF Outcomes
<1>10. CommandAt'
  BY DEF CommandAt
<1> QED
  BY <1>2, <1>7, <1>8, <1>9, <1>10

LEMMA AnswersKeeps ==
    ASSUME HelperInv, Answers
    PROVE  HelperInv'
<1> USE DEF HelperInv
<1>1. inbox \in {<< 1 >>, << 2 >>} /\ inbox' = <<>> /\ Head(inbox) \in {1, 2}
      /\ (Head(inbox) = 1 <=> inbox = << 1 >>)
  <2>1. inbox' = Tail(inbox) /\ inbox \in {<< 1 >>, << 2 >>}
    BY DEF Answers, HelperTypeOK
  <2>2. CASE inbox = << 1 >>
    BY <2>1, <2>2
  <2>3. CASE inbox = << 2 >>
    BY <2>1, <2>3
  <2> QED
    BY <2>1, <2>2, <2>3
<1>2. PICK k \in Replies : Writes(Line(k, Head(inbox)))
  BY DEF Answers, Replies
<1> DEFINE l == Line(k, Head(inbox))
<1>3. l \in Lines /\ l.kind \in Replies /\ l.kind # "note" /\ l.id = Head(inbox)
  BY <1>1 DEF Line, Lines, Replies
<1>4. UNCHANGED <<helper, reader, held, closing, at, id, notes, result>> /\ helper = "up" /\ inbox # <<>>
  BY DEF Answers, CommandUnchanged
<1> HIDE DEF l
<1>5. /\ written' \in Seq(Lines) /\ stdout' \in Seq(Lines)
      /\ Len(written) \in Nat /\ Len(written') = Len(written) + 1
      /\ \A i \in 1..Len(written) : written'[i] = written[i]
      /\ written'[Len(written) + 1] = l
      /\ Piped' /\ HandedOver' /\ Outcomes' /\ CommandAt'
  BY <1>2, <1>3, <1>4, AfterWrite DEF l
<1>6. HelperTypeOK'
  BY <1>1, <1>4, <1>5 DEF HelperTypeOK
<1>7. WrittenInOrder'
  <2>1. inbox = << 1 >> => Len(written) = 0 /\ id = 1
    BY DEF WrittenInOrder
  <2>2. inbox = << 2 >> => Len(written) >= 1 /\ id = 2
    BY DEF WrittenInOrder
  <2>3. ASSUME NEW i \in 1..Len(written')
        PROVE  /\ written'[i].kind = "note" => i >= 2 /\ written'[i].id = i - 1
               /\ written'[i].kind \in Replies =>
                     \/ i = 1 /\ written'[i].id = 1
                     \/ i = Len(written') /\ i >= 2 /\ written'[i].id = 2 /\ inbox' = <<>>
    <3>1. CASE i = Len(written) + 1
      BY <1>1, <1>3, <1>5, <2>1, <2>2, <3>1
    <3>2. CASE i \in 1..Len(written)
      <4>1. written'[i] = written[i]
        BY <1>5, <3>2
      <4> QED
        BY <1>4, <3>2, <4>1 DEF WrittenInOrder
    <3> QED
      BY <1>5, <3>1, <3>2
  <2>4. (id' = 1 => Len(written') <= 1) /\ (id' = 2 => Len(written') >= 1)
    BY <1>1, <1>4, <1>5, <2>1, <2>2 DEF HelperTypeOK
  <2> QED
    BY <1>1, <2>3, <2>4 DEF WrittenInOrder
<1> QED
  BY <1>5, <1>6, <1>7

LEMMA NotifiesKeeps ==
    ASSUME HelperInv, Notifies
    PROVE  HelperInv'
<1> USE DEF HelperInv
<1>1. /\ UNCHANGED <<helper, reader, held, closing, at, id, notes, result>> /\ helper = "up"
      /\ inbox = << 2 >> /\ inbox' = inbox /\ Writes(Line("note", Noted + 1))
  BY DEF Notifies, CommandUnchanged
<1>2. Noted = Len(written) - 1 /\ Len(written) \in Nat /\ Len(written) >= 1 /\ id = 2
      /\ inbox # <<>>
  BY <1>1, NotedSoFar DEF HelperTypeOK, WrittenInOrder
<1> DEFINE l == Line("note", Noted + 1)
<1>3. l \in Lines /\ l.kind = "note" /\ l.kind \notin Replies /\ l.id = Len(written)
  BY <1>2 DEF Line, Lines, Replies
<1> HIDE DEF l
<1>5. /\ written' \in Seq(Lines) /\ stdout' \in Seq(Lines)
      /\ Len(written) \in Nat /\ Len(written') = Len(written) + 1
      /\ \A i \in 1..Len(written) : written'[i] = written[i]
      /\ written'[Len(written) + 1] = l
      /\ Piped' /\ HandedOver' /\ Outcomes' /\ CommandAt'
  BY <1>1, <1>2, <1>3, AfterWrite DEF l
<1>6. HelperTypeOK'
  BY <1>1, <1>5 DEF HelperTypeOK
<1>7. WrittenInOrder'
  <2>3. ASSUME NEW i \in 1..Len(written')
        PROVE  /\ written'[i].kind = "note" => i >= 2 /\ written'[i].id = i - 1
               /\ written'[i].kind \in Replies =>
                     \/ i = 1 /\ written'[i].id = 1
                     \/ i = Len(written') /\ i >= 2 /\ written'[i].id = 2 /\ inbox' = <<>>
    <3>1. CASE i = Len(written) + 1
      BY <1>2, <1>3, <1>5, <3>1
    <3>2. CASE i \in 1..Len(written)
      <4>1. written'[i] = written[i]
        BY <1>5, <3>2
      <4> QED
        BY <1>1, <1>2, <3>2, <4>1 DEF WrittenInOrder
    <3> QED
      BY <1>5, <3>1, <3>2
  <2>4. inbox' # << 1 >> /\ id' = 2 /\ Len(written') >= 1
    BY <1>1, <1>2, <1>5
  <2> QED
    BY <2>3, <2>4 DEF WrittenInOrder
<1> QED
  BY <1>5, <1>6, <1>7

LEMMA ReadsKeeps ==
    ASSUME HelperInv, Reads
    PROVE  HelperInv'
<1> USE DEF HelperInv
<1>1. /\ UNCHANGED <<inbox, helper, written, closing, at, id, notes, result>>
      /\ reader = "reads" /\ ~Holding /\ Handled = Read
  BY DEF Reads, CommandUnchanged, Holding, Handled
<1>2. /\ stdout \in Seq(Lines) /\ Len(stdout) \in Nat
      /\ written \in Seq(Lines) /\ Len(written) \in Nat
      /\ Len(stdout) <= Len(written) /\ Read = Len(written) - Len(stdout) /\ Read \in Nat
      /\ \A i \in 1..Len(stdout) : stdout[i] = written[Read + i]
  BY DEF HelperTypeOK, Piped, Read
<1>3. CommandAt' /\ WrittenInOrder' /\ Outcomes'
  BY <1>1 DEF CommandAt, WrittenInOrder, Outcomes
<1>4. CASE stdout = <<>>
  <2>1. stdout' = <<>> /\ helper = "gone" /\ Len(stdout') = 0 /\ Len(stdout) = 0 /\ Read' = Read
        /\ Read = Len(written)
    BY <1>1, <1>2, <1>4 DEF Reads, Read
  <2>2. (reader' = "ended" \/ (reader' = "holds" /\ held' = Line("eof", 0))) /\ ~Holding'
    BY <1>4 DEF Reads, Holding
  <2>3. HelperTypeOK'
    BY <1>1, <1>2, <2>1, <2>2 DEF HelperTypeOK
  <2>4. Piped'
    BY <1>1, <1>2, <2>1, <2>2 DEF Piped
  <2>5. Handled' = Handled
    BY <1>1, <2>1, <2>2 DEF Handled
  <2>6. HandedOver'
    BY <1>1, <2>5 DEF HandedOver
  <2> QED
    BY <1>3, <2>3, <2>4, <2>6
<1>5. CASE stdout # <<>>
  <2>1. /\ stdout' = Tail(stdout) /\ stdout' \in Seq(Lines) /\ Len(stdout') = Len(stdout) - 1
        /\ Len(stdout) >= 1
        /\ \A i \in 1..Len(stdout') : stdout'[i] = stdout[i + 1]
        /\ Head(stdout) = stdout[1] /\ Head(stdout) \in Lines
    BY <1>2, <1>5 DEF Reads
  <2>2. Read' = Read + 1
    BY <1>1, <1>2, <2>1 DEF Read
  <2>3. Head(stdout) = written[Read'] /\ Head(stdout) # Line("eof", 0)
    BY <1>2, <2>1, <2>2 DEF Lines, Replies, Line
  <2>4. \A i \in 1..Len(stdout') : stdout'[i] = written'[Read' + i]
    <3> SUFFICES ASSUME NEW i \in 1..Len(stdout')
                 PROVE  stdout'[i] = written'[Read' + i]
      OBVIOUS
    <3>1. i \in Nat /\ i + 1 \in 1..Len(stdout)
      BY <1>2, <2>1
    <3>2. Read + (i + 1) = Read' + i
      BY <1>2, <2>2, <3>1
    <3> QED
      BY <1>1, <1>2, <2>1, <3>1, <3>2
  <2>5. CASE closing
    <3>1. reader' = "ended" /\ ~Holding'
      BY <2>5 DEF Reads, Holding
    <3>2. HelperTypeOK'
      BY <1>1, <2>1, <3>1 DEF HelperTypeOK
    <3>3. Piped'
      BY <1>1, <1>2, <2>1, <2>2, <2>4, <3>1 DEF Piped
    <3>4. at \notin {"hello", "call"}
      BY <2>5 DEF CommandAt
    <3>5. HandedOver'
      BY <1>1, <3>4 DEF HandedOver
    <3> QED
      BY <1>3, <3>2, <3>3, <3>5
  <2>6. CASE ~closing
    <3>1. reader' = "holds" /\ held' = Head(stdout) /\ Holding'
      BY <1>5, <2>3, <2>6 DEF Reads, Holding
    <3>2. HelperTypeOK'
      BY <1>1, <2>1, <3>1 DEF HelperTypeOK
    <3>3. Piped'
      BY <1>1, <1>2, <2>1, <2>2, <2>3, <2>4, <3>1 DEF Piped
    <3>4. Handled' = Handled
      BY <1>1, <1>2, <2>2, <3>1 DEF Handled
    <3>5. HandedOver'
      BY <1>1, <3>4 DEF HandedOver
    <3> QED
      BY <1>3, <3>2, <3>3, <3>5
  <2> QED
    BY <2>5, <2>6
<1> QED
  BY <1>4, <1>5

LEMMA ReaderStopsKeeps ==
    ASSUME HelperInv, ReaderStops
    PROVE  HelperInv'
<1> USE DEF HelperInv
<1>10. HelperTypeOK'
  BY DEF HelperTypeOK, ReaderStops, CommandUnchanged
<1>11. CommandAt'
  BY DEF HelperTypeOK, CommandAt, ReaderStops, CommandUnchanged
<1>12. WrittenInOrder'
  BY DEF HelperTypeOK, WrittenInOrder, ReaderStops, CommandUnchanged
<1>13. Piped'
  BY DEF HelperTypeOK, Piped, Read, Holding, ReaderStops, CommandUnchanged
<1>14. HandedOver'
  <2>1. UNCHANGED <<at, notes>> /\ at \notin {"hello", "call"}
    BY DEF CommandAt, ReaderStops, CommandUnchanged
  <2> QED
    BY <2>1 DEF HandedOver
<1>15. Outcomes'
  BY DEF HelperTypeOK, Outcomes, ReaderStops, CommandUnchanged
<1> QED
  BY <1>10, <1>11, <1>12, <1>13, <1>14, <1>15

LEMMA CallGivenUpKeeps ==
    ASSUME HelperInv, CallGivenUp
    PROVE  HelperInv'
<1> USE DEF HelperInv
<1>10. HelperTypeOK'
  BY DEF HelperTypeOK, CallGivenUp, Ends, ProcessUnchanged, InCall
<1>11. CommandAt'
  BY DEF HelperTypeOK, CommandAt, CallGivenUp, Ends, ProcessUnchanged, InCall
<1>12. WrittenInOrder'
  BY DEF HelperTypeOK, WrittenInOrder, CallGivenUp, Ends, ProcessUnchanged, InCall
<1>13. Piped'
  BY DEF HelperTypeOK, Piped, Read, Holding, CallGivenUp, Ends, ProcessUnchanged, InCall
<1>14. HandedOver'
  BY DEF HelperTypeOK, HandedOver, Handled, Read, Holding, CallGivenUp, Ends, ProcessUnchanged, InCall
<1>15. Outcomes'
  BY DEF HelperTypeOK, Outcomes, CallGivenUp, Ends, ProcessUnchanged, InCall
<1> QED
  BY <1>10, <1>11, <1>12, <1>13, <1>14, <1>15

LEMMA HelloTimeoutKeeps ==
    ASSUME HelperInv, HelloTimeout
    PROVE  HelperInv'
<1> USE DEF HelperInv
<1>10. HelperTypeOK'
  BY DEF HelperTypeOK, HelloTimeout, Ends, ProcessUnchanged, InCall
<1>11. CommandAt'
  BY DEF HelperTypeOK, CommandAt, HelloTimeout, Ends, ProcessUnchanged, InCall
<1>12. WrittenInOrder'
  BY DEF HelperTypeOK, WrittenInOrder, HelloTimeout, Ends, ProcessUnchanged, InCall
<1>13. Piped'
  BY DEF HelperTypeOK, Piped, Read, Holding, HelloTimeout, Ends, ProcessUnchanged, InCall
<1>14. HandedOver'
  BY DEF HelperTypeOK, HandedOver, Handled, Read, Holding, HelloTimeout, Ends, ProcessUnchanged, InCall
<1>15. Outcomes'
  <2>1. id' = 1
    BY DEF HelloTimeout, Ends, CommandAt
  <2> QED
    BY <2>1 DEF Outcomes
<1> QED
  BY <1>10, <1>11, <1>12, <1>13, <1>14, <1>15

LEMMA CloseBeginsKeeps ==
    ASSUME HelperInv, CloseBegins
    PROVE  HelperInv'
<1> USE DEF HelperInv
<1>10. HelperTypeOK'
  BY DEF HelperTypeOK, CloseBegins, ProcessUnchanged
<1>11. CommandAt'
  BY DEF HelperTypeOK, CommandAt, CloseBegins, ProcessUnchanged
<1>12. WrittenInOrder'
  BY DEF HelperTypeOK, WrittenInOrder, CloseBegins, ProcessUnchanged
<1>13. Piped'
  BY DEF HelperTypeOK, Piped, Read, Holding, CloseBegins, ProcessUnchanged
<1>14. HandedOver'
  BY DEF HelperTypeOK, HandedOver, Handled, Read, Holding, CloseBegins, ProcessUnchanged
<1>15. Outcomes'
  BY DEF HelperTypeOK, Outcomes, CloseBegins, ProcessUnchanged
<1> QED
  BY <1>10, <1>11, <1>12, <1>13, <1>14, <1>15

LEMMA CloseReturnsKeeps ==
    ASSUME HelperInv, CloseReturns
    PROVE  HelperInv'
<1> USE DEF HelperInv
<1>10. HelperTypeOK'
  BY DEF HelperTypeOK, CloseReturns, ProcessUnchanged
<1>11. CommandAt'
  BY DEF HelperTypeOK, CommandAt, CloseReturns, ProcessUnchanged
<1>12. WrittenInOrder'
  BY DEF HelperTypeOK, WrittenInOrder, CloseReturns, ProcessUnchanged
<1>13. Piped'
  BY DEF HelperTypeOK, Piped, Read, Holding, CloseReturns, ProcessUnchanged
<1>14. HandedOver'
  BY DEF HelperTypeOK, HandedOver, Handled, Read, Holding, CloseReturns, ProcessUnchanged
<1>15. Outcomes'
  BY DEF HelperTypeOK, Outcomes, CloseReturns, ProcessUnchanged
<1> QED
  BY <1>10, <1>11, <1>12, <1>13, <1>14, <1>15

\* A line that does not go on with the call ends it, or hello, by what it says.
LEMMA HandledLine ==
    ASSUME HelperInv, InCall, Holding
    PROVE  /\ held = written[Read] /\ held \in Lines /\ Read \in 1..Len(written)
           /\ Read = Handled + 1 /\ Len(written) \in Nat
           /\ at = "hello" => Read = 1
           /\ at = "call" => Read = Len(notes) + 2 /\ Len(notes) \in Nat
           /\ held.kind = "note" => Read >= 2 /\ held.id = Read - 1
           /\ held.kind # "note" /\ at = "call" =>
                 /\ Read = Len(written) /\ held.id = 2 /\ inbox = <<>>
           /\ held.kind # "note" /\ at = "hello" => held.id = 1 /\ inbox = <<>>
           /\ held.kind # "eof"
<1> USE DEF HelperInv
<1>1. /\ Len(written) \in Nat /\ Len(stdout) \in Nat /\ Len(notes) \in Nat
      /\ Read = Len(written) - Len(stdout) /\ Read >= 1 /\ held = written[Read]
      /\ Handled = Read - 1
  BY DEF HelperTypeOK, Piped, Read, Handled
<1>2. Read \in 1..Len(written)
  BY <1>1
<1>3. held \in Lines /\ held.kind \in Replies \cup {"note"}
  <2>1. written \in Seq(Lines)
    BY DEF HelperTypeOK
  <2>2. written[Read] \in Lines
    BY <1>2, <2>1
  <2> QED
    BY <1>1, <2>2 DEF Lines
<1>4. /\ held.kind = "note" => Read >= 2 /\ held.id = Read - 1
      /\ held.kind \in Replies =>
            \/ Read = 1 /\ held.id = 1
            \/ Read = Len(written) /\ Read >= 2 /\ held.id = 2 /\ inbox = <<>>
  BY <1>1, <1>2 DEF WrittenInOrder
<1>5. (at = "hello" => Read = 1) /\ (at = "call" => Read = Len(notes) + 2)
  BY <1>1 DEF HandedOver
<1>6. at = "hello" => inbox = <<>>
  <2>1. at = "hello" => id = 1
    BY DEF CommandAt
  <2>2. inbox = << 1 >> => Len(written) = 0
    BY DEF WrittenInOrder
  <2>3. inbox = << 2 >> => id = 2
    BY DEF WrittenInOrder
  <2>4. Len(written) # 0
    BY <1>1, <1>2
  <2>5. inbox = <<>> \/ inbox = << 1 >> \/ inbox = << 2 >>
    BY DEF HelperTypeOK
  <2> QED
    BY <2>1, <2>2, <2>3, <2>4, <2>5, Zenon
<1> QED
  BY <1>1, <1>2, <1>3, <1>4, <1>5, <1>6 DEF Replies

\* Once the reader lets go of its line, that line counts as handled.
LEMMA LetsGo ==
    ASSUME HelperInv, reader = "holds", reader' # "holds", UNCHANGED <<stdout, written>>
    PROVE  /\ Read' = Read /\ ~Holding' /\ Handled' = Read
           /\ Piped'
<1>1. Read' = Read /\ ~Holding' /\ Handled' = Read
  BY DEF Read, Holding, Handled
<1> QED
  BY <1>1 DEF HelperInv, Piped

LEMMA HandleKeeps ==
    ASSUME HelperInv, Handle
    PROVE  HelperInv'
<1> USE DEF HelperInv
<1>1. /\ InCall /\ reader = "holds" /\ reader' \in {"reads", "ended"} /\ reader' # "holds"
      /\ UNCHANGED <<helper, stdout, written>>
      /\ at \in {"hello", "call"}
  BY DEF Handle, ProcessUnchanged, InCall
<1>2. Read' = Read /\ ~Holding' /\ Handled' = Read /\ Piped'
  BY <1>1, LetsGo
<1>3. ~closing
  BY <1>1 DEF CommandAt
<1>4. CASE held.kind = "note" /\ at = "call" /\ NoteAccepted(held)
  <2>1. /\ notes' = Append(notes, held.id) /\ UNCHANGED <<result, at, id, inbox, closing>>
    BY <1>4 DEF NoteAccepted
  <2>2. Holding
    BY <1>1, <1>4 DEF Holding, Line
  <2>3. /\ Read \in 1..Len(written) /\ Read = Len(notes) + 2 /\ Len(notes) \in Nat
        /\ held.id = Len(notes) + 1 /\ held = written[Read] /\ Handled = Read - 1
    <3>1. /\ Read \in 1..Len(written) /\ Read = Len(notes) + 2 /\ Len(notes) \in Nat
          /\ held.id = Read - 1 /\ held = written[Read] /\ Read = Handled + 1
          /\ Len(written) \in Nat
      BY <1>1, <1>4, <2>2, HandledLine
    <3>2. Handled \in Int
      BY <3>1 DEF Handled
    <3> QED
      BY <3>1, <3>2
  <2>4. /\ notes' \in Seq(Nat) /\ Len(notes') = Len(notes) + 1
        /\ \A i \in 1..Len(notes') : notes'[i] = i
    <3>1. notes \in Seq(Nat) /\ \A i \in 1..Len(notes) : notes[i] = i
      BY DEF HelperTypeOK, HandedOver
    <3> QED
      BY <2>1, <2>3, <3>1
  <2>5. HelperTypeOK'
    BY <1>1, <2>1, <2>4 DEF HelperTypeOK
  <2>6. CommandAt' /\ WrittenInOrder' /\ Outcomes'
    BY <1>1, <1>4, <2>1 DEF CommandAt, WrittenInOrder, Outcomes
  <2>7. HandedOver'
    <3>1. \A i \in 2..Read : written[i].kind = "note"
      <4> SUFFICES ASSUME NEW i \in 2..Read
                   PROVE  written[i].kind = "note"
        OBVIOUS
      <4>1. CASE i = Read
        BY <1>4, <2>3, <4>1
      <4>2. CASE i # Read
        BY <1>4, <2>3, <4>2 DEF HandedOver
      <4> QED
        BY <4>1, <4>2
    <3>2. Handled' = Len(notes') + 1
      BY <1>2, <2>3, <2>4
    <3> QED
      BY <1>1, <1>2, <1>4, <2>1, <2>4, <3>1, <3>2 DEF HandedOver
  <2> QED
    BY <1>2, <2>5, <2>6, <2>7
<1>5. ASSUME NEW how \in {"answer", "error", "failed", "ctx"}, Ends(how), notes' = notes,
             how = "answer" => Holding /\ held.kind = "answer",
             how = "failed" /\ at = "call" =>
                \/ Holding /\ held.kind = "bad"
                \/ ~Holding
      PROVE  HelperInv'
  <2>1. result' = how /\ closing' = closing
    BY <1>5 DEF Ends
  <2>2. CASE at = "hello" /\ how = "answer"
    <3>1. /\ held = written[Read] /\ Read = 1 /\ Len(written) \in Nat /\ Read \in 1..Len(written)
          /\ inbox = <<>> /\ id = 1 /\ notes = <<>>
      BY <1>1, <1>5, <2>2, HandledLine DEF CommandAt
    <3>2. Len(written) = 1
      <4>1. Len(written) <= 1
        BY <3>1 DEF WrittenInOrder
      <4>2. Len(written) >= 1 /\ Len(written) \in Nat
        BY <3>1
      <4>3. \A n \in Nat : n <= 1 /\ n >= 1 => n = 1
        OBVIOUS
      <4> QED
        BY <4>1, <4>2, <4>3
    <3>3. at' = "call" /\ id' = 2 /\ inbox' \in {<<>>, << 2 >>}
      BY <1>5, <2>2, <3>1 DEF Ends
    <3>4. HelperTypeOK'
      BY <1>1, <1>5, <2>1, <3>3 DEF HelperTypeOK
    <3>5. CommandAt'
      BY <1>3, <2>1, <2>2, <3>3 DEF CommandAt
    <3>6. WrittenInOrder'
      <4>1. \A i \in 1..Len(written') :
               /\ written'[i].kind = "note" => i >= 2 /\ written'[i].id = i - 1
               /\ written'[i].kind \in Replies => i = 1 /\ written'[i].id = 1
        BY <1>1, <3>2 DEF WrittenInOrder
      <4>2. inbox' # << 1 >>
        BY <3>3
      <4>3. Len(written') = 1
        BY <1>1, <3>2
      <4> QED
        BY <3>3, <4>1, <4>2, <4>3 DEF WrittenInOrder
    <3>7. HandedOver'
      <4>1. Handled' = 1 /\ Len(notes') = 0
        BY <1>2, <1>5, <3>1
      <4> QED
        BY <3>3, <4>1 DEF HandedOver
    <3>8. Outcomes'
      BY <3>3 DEF Outcomes
    <3> QED
      BY <1>2, <3>4, <3>5, <3>6, <3>7, <3>8
  <2>3. CASE ~(at = "hello" /\ how = "answer")
    <3>1. at' = "close" /\ UNCHANGED <<id, inbox>>
      BY <1>5, <2>3 DEF Ends
    <3>2. HelperTypeOK'
      BY <1>1, <1>5, <2>1, <3>1 DEF HelperTypeOK
    <3>3. CommandAt'
      BY <1>1, <1>3, <2>1, <2>3, <3>1 DEF CommandAt
    <3>4. WrittenInOrder'
      BY <1>1, <3>1 DEF WrittenInOrder
    <3>5. HandedOver'
      BY <1>5, <3>1 DEF HandedOver
    <3>6. Outcomes'
      <4>1. CASE at = "hello"
        <5>1. id' = 1
          BY <3>1, <4>1 DEF CommandAt
        <5> QED
          BY <5>1 DEF Outcomes
      <4>2. CASE at = "call" /\ Holding
        <5>1. /\ held = written[Read] /\ Len(notes) \in Nat /\ Len(written) \in Nat
              /\ held.kind # "note" => Read = Len(notes) + 2 /\ Read = Len(written)
          BY <1>1, <4>2, HandledLine
        <5> QED
          BY <1>1, <1>5, <2>1, <4>2, <5>1 DEF Outcomes
      <4>3. CASE at = "call" /\ ~Holding
        <5>1. how # "answer" /\ helper = "gone" /\ stdout = <<>>
          BY <1>1, <1>5, <4>3 DEF Piped
        <5>2. Handled = Len(written)
          BY <4>3, <5>1 DEF Handled, Read, HelperTypeOK
        <5>3. \A i \in 2..Len(written) : written[i].kind = "note"
          BY <4>3, <5>2 DEF HandedOver
        <5> QED
          BY <1>1, <2>1, <5>1, <5>3 DEF Outcomes
      <4> QED
        BY <1>1, <4>1, <4>2, <4>3
    <3> QED
      BY <1>2, <3>2, <3>3, <3>4, <3>5, <3>6
  <2> QED
    BY <2>2, <2>3
<1>6. CASE held.kind = "note" /\ at = "call" /\ notes = <<>> /\ NoteRefused
  BY <1>5, <1>6 DEF NoteRefused
<1>7. CASE ~(held.kind = "note" /\ at = "call") /\ Ends(Means(held)) /\ notes' = notes
  <2>1. CASE Holding
    <3>1. held.kind \in Replies \cup {"note"} /\ held.kind # "eof"
      BY <1>1, <2>1, HandledLine DEF Lines
    <3>2. Means(held) \in {"answer", "error", "failed"}
      BY <3>1 DEF Means
    <3>3. Means(held) = "answer" => held.kind = "answer"
      BY <3>1 DEF Means
    <3>4. Means(held) = "failed" /\ at = "call" => held.kind = "bad"
      <4>1. at = "call" /\ held.kind # "note" => held.id = 2 /\ id = 2
        BY <1>1, <2>1, HandledLine DEF CommandAt
      <4> QED
        BY <1>7, <3>1, <4>1 DEF Means, Replies
    <3> QED
      BY <1>5, <1>7, <2>1, <3>2, <3>3, <3>4
  <2>2. CASE ~Holding
    <3>1. held = Line("eof", 0)
      BY <1>1, <2>2 DEF Holding
    <3>2. Means(held) \in {"failed", "ctx"}
      BY <3>1 DEF Means, EndOfOutput, Line
    <3> QED
      BY <1>5, <1>7, <2>2, <3>2
  <2> QED
    BY <2>1, <2>2
<1> QED
  BY <1>4, <1>6, <1>7 DEF Handle

LEMMA StepHelper == HelperInv /\ [HelperNext]_helperVars => HelperInv'
<1> SUFFICES ASSUME HelperInv, [HelperNext]_helperVars
             PROVE  HelperInv'
  OBVIOUS
<1>1. CASE UNCHANGED helperVars
  BY <1>1, QuietKeeps DEF helperVars
<1>2. CASE Waits \/ CtxDone \/ Cancel
  BY <1>2, QuietKeeps DEF Waits, CtxDone, Cancel, CommandUnchanged
<1>3. CASE Exits \/ WaitDelayPasses \/ KillGroup
  BY <1>3, GoneKeeps DEF Exits, WaitDelayPasses, KillGroup, CommandUnchanged
<1>4. CASE Answers \/ Notifies \/ Reads \/ ReaderStops
  BY <1>4, AnswersKeeps, NotifiesKeeps, ReadsKeeps, ReaderStopsKeeps
<1>5. CASE HelloTimeout \/ Command
  BY <1>5, HelloTimeoutKeeps, CallGivenUpKeeps, HandleKeeps, CloseBeginsKeeps,
     CloseReturnsKeeps DEF Command
<1> QED
  BY <1>1, <1>2, <1>3, <1>4, <1>5 DEF HelperNext

\* A call's outcome is the helper's own, whatever the helper writes, however
\* its exit, the timeout and the reader interleave, and for any number of
\* notifications: the answer to this very request with every notification
\* before it in order, and no failure of a helper that answered (Stream).
THEOREM HelperAnswersKept == HelperSpec => []AnswersKept
<1>1. HelperInv => AnswersKept
  <2> SUFFICES ASSUME HelperInv
               PROVE  AnswersKept
    OBVIOUS
  <2>1. /\ Len(written) \in Nat /\ DOMAIN written = 1..Len(written)
        /\ Len(notes) \in Nat /\ at \in {"hello", "call", "close", "waits", "done"} /\ id \in {1, 2}
    BY DEF HelperInv, HelperTypeOK
  <2>2. result = "answer" => id = 2 /\ at # "hello"
    BY DEF HelperInv, CommandAt
  <2>3. ASSUME result = "answer", at # "call"
        PROVE  WroteBefore({"answer"}, id) /\ Len(notes) = Noted
    <3>1. Len(written) = Len(notes) + 2 /\ written[Len(written)].kind = "answer"
      BY <2>1, <2>2, <2>3 DEF HelperInv, Outcomes
    <3>2. Len(written) \in 1..Len(written) /\ Len(written) >= 2
      BY <2>1, <3>1
    <3>3. written[Len(written)].id = 2
      BY <3>1, <3>2 DEF HelperInv, WrittenInOrder, Replies
    <3>4. WroteBefore({"answer"}, id)
      BY <2>1, <2>2, <2>3, <3>1, <3>2, <3>3 DEF WroteBefore
    <3>5. \A i \in 2..(Len(notes) + 1) : written[i].kind = "note"
      <4> SUFFICES ASSUME NEW i \in 2..(Len(notes) + 1)
                   PROVE  written[i].kind = "note"
        OBVIOUS
      <4>1. i \in 1..Len(written) /\ i # 1 /\ i # Len(written)
        BY <2>1, <3>1
      <4>2. written[i] \in Lines
        BY <4>1 DEF HelperInv, HelperTypeOK
      <4> QED
        BY <4>1, <4>2 DEF HelperInv, WrittenInOrder, Lines
    <3>6. /\ Len(notes) + 1 \in Nat /\ 1 <= Len(notes) + 1 /\ Len(notes) + 1 <= Len(written)
          /\ (Len(notes) + 1) + 1 = Len(written) /\ written[Len(written)].kind \in Replies
      BY <2>1, <3>1 DEF Replies
    <3>7. Noted = (Len(notes) + 1) - 1
      BY <3>5, <3>6, NotesWritten
    <3> QED
      BY <2>1, <3>4, <3>7
  <2>4. notes = [i \in 1..Len(notes) |-> i]
    BY DEF HelperInv, HelperTypeOK, HandedOver
  <2>5. ASSUME result = "failed", id = 2, at \notin {"hello", "call"}
        PROVE  \/ WroteBefore({"bad"}, id)
               \/ helper = "gone" /\ ~WroteBefore({"answer", "error"}, id)
    <3>1. CASE written[Len(written)].kind = "bad" /\ Len(written) >= 2
      <4>1. Len(written) \in 1..Len(written)
        BY <2>1, <3>1
      <4>2. written[Len(written)].id = 2
        BY <3>1, <4>1 DEF HelperInv, WrittenInOrder, Replies
      <4> QED
        BY <2>1, <2>5, <3>1, <4>1, <4>2 DEF WroteBefore
    <3>2. CASE helper = "gone" /\ \A i \in 2..Len(written) : written[i].kind = "note"
      <4>1. ASSUME NEW i \in 1..Len(written), written[i].kind \in {"answer", "error"},
                   written[i].id = 2
            PROVE  FALSE
        <5>1. i = 1
          BY <2>1, <3>2, <4>1
        <5> QED
          BY <4>1, <5>1 DEF HelperInv, WrittenInOrder, Replies
      <4> QED
        BY <2>1, <2>5, <3>2, <4>1 DEF WroteBefore
    <3> QED
      BY <2>5, <3>1, <3>2 DEF HelperInv, Outcomes
  <2> QED
    BY <2>3, <2>4, <2>5 DEF AnswersKept
<1> QED
  BY <1>1, InitHelper, StepHelper, PTL DEF HelperSpec

----------------------------------------------------------------------------
(***************************************************************************)
(* Artifacts (internal/artifacts). What a prune may remove had its reason  *)
(* when the directory was listed, and keeps it: artifacts only get older   *)
(* and newer ones only come. A command that got as far as placing its      *)
(* artifact has not listed it itself, so only such a prune can take it.    *)
(***************************************************************************)

CommandSteps ==
    {"begin", "taking", "list", "prune", "summary", "place", "linked", "copying",
     "kept", "placed", "failed", "killed"}

ArtifactsTypeOK ==
    /\ kind \in [Cmds \cup Earlier -> [does : Kinds, out : BOOLEAN]]
    /\ files \subseteq Made
    /\ aged \subseteq Earlier
    /\ writing \subseteq Cmds
    /\ whole \subseteq Made
    /\ scratch \subseteq Cmds
    /\ doomed \in [Cmds -> SUBSET Made]
    /\ step \in [Cmds -> CommandSteps]
    /\ writes \in Seq(Earlier \cup Cmds)
    /\ Earlier \subseteq Made

\* Gone for a reason: its age, or Keep of its directory that were written to since
\* it was begun.
MayGo(n) == n \in aged \/ Newer(n) >= Keep

\* A command's artifact is made once, and by the commands that take one.
MadeOnce(c) ==
    /\ c \in writing \cup Made => step[c] # "begin" /\ kind[c].does # "file"
    /\ c \in writing => c \notin Made

\* Between taking an artifact and its end, a command's file is there or had
\* to go; a failed one left none but a dump that comes late.
Holds(c) ==
    /\ step[c] \in {"list", "prune", "summary", "place", "copying", "kept"}
          /\ kind[c].does # "file" =>
       c \in Made /\ (c \in files \/ Newer(c) >= Keep)
    /\ step[c] = "failed" /\ c \in writing \cup files =>
          kind[c].does # "trace" /\ c \notin whole

OutOf(c) ==
    /\ step[c] \in {"linked", "placed"} => out = [owner |-> c, whole |-> TRUE]
    /\ step[c] = "copying" => out = [owner |-> c, whole |-> FALSE]

PruneOf(c) == \A n \in doomed[c] : n # Protected(c) /\ MayGo(n)

ScratchOf(c) == c \in scratch => step[c] \in {"summary", "killed"}

ArtifactsInv ==
    /\ ArtifactsTypeOK
    /\ \A c \in Cmds : MadeOnce(c) /\ Holds(c) /\ OutOf(c) /\ PruneOf(c) /\ ScratchOf(c)
    /\ \A n \in Earlier \ files : MayGo(n)

LEMMA RangeFinite ==
    ASSUME NEW S, NEW s \in Seq(S)
    PROVE  IsFiniteSet({s[i] : i \in DOMAIN s})
<1>1. DOMAIN s = 1..Len(s) /\ IsFiniteSet(1..Len(s))
  BY FS_Interval
<1>2. s \in Surjection(DOMAIN s, {s[i] : i \in DOMAIN s})
  BY DEF Surjection
<1> QED
  BY <1>1, <1>2, FS_Surjection

\* The artifacts Newer counts.
Since(n) ==
    {m \in Made \ {n} :
        /\ Dir(m) = Dir(n)
        /\ \E i, j \in DOMAIN writes : i < j /\ writes[i] = n /\ writes[j] = m}

LEMMA SinceFinite ==
    ASSUME writes \in Seq(Earlier \cup Cmds), NEW n
    PROVE  IsFiniteSet(Since(n)) /\ Newer(n) = Cardinality(Since(n))
<1>1. IsFiniteSet(Made)
  BY RangeFinite DEF Made
<1>2. Since(n) \subseteq Made
  BY DEF Since
<1> QED
  BY <1>1, <1>2, FS_Subset DEF Newer, Since

\* What is pruned by count has Keep of its directory that were written to since
\* it was begun: an artifact with a later ModTime is one of those.
LEMMA CountedMayGo ==
    ASSUME ArtifactsTypeOK, NEW c, NEW n \in files, Dir(n) = Dir(c),
           Cardinality(NewerThan(n, {m \in files : Dir(m) = Dir(c)})) >= Keep
    PROVE  Newer(n) >= Keep
<1> DEFINE Later == NewerThan(n, {m \in files : Dir(m) = Dir(c)})
<1>1. IsFiniteSet(Since(n)) /\ Newer(n) = Cardinality(Since(n))
  BY SinceFinite DEF ArtifactsTypeOK
<1>2. Later \subseteq Since(n)
  <2> SUFFICES ASSUME NEW m \in Later
               PROVE  m \in Since(n)
    OBVIOUS
  <2>1. m \in files /\ Dir(m) = Dir(n)
    BY DEF NewerThan
  <2>2. PICK j \in DOMAIN writes :
           writes[j] = m /\ \A i \in DOMAIN writes : writes[i] = n => i < j
    BY DEF NewerThan
  <2>3. PICK i \in DOMAIN writes : writes[i] = n
    BY DEF ArtifactsTypeOK, Made
  <2>4. i < j
    BY <2>2, <2>3
  <2>5. m # n
    <3> SUFFICES ASSUME m = n
                 PROVE  FALSE
      OBVIOUS
    <3>1. j < j
      BY <2>2
    <3>2. j \in Nat
      BY DEF ArtifactsTypeOK
    <3> QED
      BY <3>1, <3>2
  <2>6. m \in Made
    BY <2>1 DEF ArtifactsTypeOK
  <2> QED
    BY <2>1, <2>2, <2>3, <2>4, <2>5, <2>6 DEF Since
<1>3. /\ Cardinality(Later) \in Nat
      /\ Cardinality(Since(n)) \in Nat
      /\ Cardinality(Later) <= Cardinality(Since(n))
  BY <1>1, <1>2, FS_Subset, FS_CardinalityType
<1> HIDE DEF Later
<1>4. Cardinality(Later) >= Keep
  BY DEF Later
<1> QED
  BY <1>1, <1>3, <1>4, ArtifactsAssumption

\* A write more takes away nobody's reason to go.
LEMMA NewerGrows ==
    ASSUME ArtifactsTypeOK, NEW c \in Cmds, writes' = Append(writes, c), kind' = kind,
           NEW n, Newer(n) >= Keep
    PROVE  Newer(n)' >= Keep
<1>1. IsFiniteSet(Since(n)) /\ Newer(n) = Cardinality(Since(n))
  BY SinceFinite DEF ArtifactsTypeOK
<1>2. IsFiniteSet(Since(n)') /\ Newer(n)' = Cardinality(Since(n)')
  <2>1. writes' \in Seq(Earlier \cup Cmds)
    BY DEF ArtifactsTypeOK
  <2>2. IsFiniteSet(Made')
    BY <2>1, RangeFinite DEF Made
  <2>3. Since(n)' \subseteq Made'
    BY DEF Since
  <2> QED
    BY <2>2, <2>3, FS_Subset DEF Newer, Since
<1>3. Since(n) \subseteq Since(n)'
  <2>1. \A i \in DOMAIN writes : i \in DOMAIN writes' /\ writes'[i] = writes[i]
    BY DEF ArtifactsTypeOK
  <2>2. Made \subseteq Made'
    BY <2>1 DEF Made
  <2>3. \A m : Dir(m)' = Dir(m)
    BY DEF Dir
  <2> QED
    BY <2>1, <2>2, <2>3 DEF Since
<1>4. /\ Cardinality(Since(n)) \in Nat
      /\ Cardinality(Since(n)') \in Nat
      /\ Cardinality(Since(n)) <= Cardinality(Since(n)')
  BY <1>2, <1>3, FS_Subset, FS_CardinalityType
<1> QED
  BY <1>1, <1>2, <1>4, ArtifactsAssumption

LEMMA MayGoStays ==
    ASSUME ArtifactsTypeOK, aged \subseteq aged', kind' = kind,
           writes' = writes \/ \E c \in Cmds : writes' = Append(writes, c)
    PROVE  \A n : (MayGo(n) => MayGo(n)') /\ (Newer(n) >= Keep => Newer(n)' >= Keep)
<1> SUFFICES ASSUME NEW n
             PROVE  (MayGo(n) => MayGo(n)') /\ (Newer(n) >= Keep => Newer(n)' >= Keep)
  OBVIOUS
<1>1. Newer(n) >= Keep => Newer(n)' >= Keep
  <2>1. CASE writes' = writes
    BY <2>1 DEF Newer, Dir, Made
  <2>2. CASE \E c \in Cmds : writes' = Append(writes, c)
    BY <2>2, NewerGrows
  <2> QED
    BY <2>1, <2>2
<1> QED
  BY <1>1 DEF MayGo

\* The artifacts that ever were, after a write.
LEMMA MadeGrows ==
    ASSUME ArtifactsTypeOK, NEW c \in Cmds, writes' = Append(writes, c)
    PROVE  Made' = Made \cup {c} /\ writes' \in Seq(Earlier \cup Cmds)
<1>1. /\ writes \in Seq(Earlier \cup Cmds)
      /\ DOMAIN writes = 1..Len(writes) /\ DOMAIN writes' = 1..(Len(writes) + 1)
  BY DEF ArtifactsTypeOK
<1>2. \A i \in DOMAIN writes' : writes'[i] = IF i = Len(writes) + 1 THEN c ELSE writes[i]
  BY <1>1
<1>3. Len(writes) + 1 \in DOMAIN writes' /\ DOMAIN writes \subseteq DOMAIN writes'
      /\ Len(writes) + 1 \notin DOMAIN writes
  BY <1>1
<1>4. writes' \in Seq(Earlier \cup Cmds)
  BY <1>1
<1> QED
  BY <1>1, <1>2, <1>3, <1>4 DEF Made

LEMMA InitArtifacts == ArtifactsInit => ArtifactsInv
<1> SUFFICES ASSUME ArtifactsInit
             PROVE  ArtifactsInv
  OBVIOUS
<1>1. Made = Earlier
  BY DEF ArtifactsInit, Made, Earlier
<1>2. ArtifactsTypeOK
  BY <1>1, ArtifactsAssumption DEF ArtifactsInit, ArtifactsTypeOK, CommandSteps
<1>3. ASSUME NEW c \in Cmds
      PROVE  MadeOnce(c) /\ Holds(c) /\ OutOf(c) /\ PruneOf(c) /\ ScratchOf(c)
  BY <1>1, ArtifactsAssumption
     DEF ArtifactsInit, MadeOnce, Holds, OutOf, PruneOf, ScratchOf
<1> QED
  BY <1>2, <1>3 DEF ArtifactsInv, ArtifactsInit

LEMMA ProtectedSame ==
    ASSUME NEW c, kind' = kind
    PROVE  Protected(c)' = Protected(c)
BY DEF Protected

LEMMA BeginKeeps ==
    ASSUME ArtifactsInv, NEW c \in Cmds, Begin(c)
    PROVE  ArtifactsInv'
<1> USE ArtifactsAssumption
<1>1. \A n : (MayGo(n) => MayGo(n)') /\ (Newer(n) >= Keep => Newer(n)' >= Keep)
  BY MayGoStays DEF ArtifactsInv, Begin
<1>2. Made' = Made
  BY DEF Begin, Made
<1>3. ArtifactsTypeOK'
  BY <1>2 DEF ArtifactsInv, ArtifactsTypeOK, CommandSteps, Begin, Moves
<1>4. ASSUME NEW d \in Cmds
      PROVE  (MadeOnce(d) /\ Holds(d) /\ OutOf(d) /\ PruneOf(d) /\ ScratchOf(d))'
  <2>1. MadeOnce(d)'
    BY <1>2 DEF ArtifactsInv, ArtifactsTypeOK, MadeOnce, Begin, Moves
  <2>2. Holds(d)'
    BY <1>1, <1>2 DEF ArtifactsInv, ArtifactsTypeOK, MadeOnce, Holds, Begin, Moves
  <2>3. OutOf(d)'
    BY DEF ArtifactsInv, ArtifactsTypeOK, OutOf, Begin, Moves
  <2>4. PruneOf(d)'
    BY <1>1, ProtectedSame DEF ArtifactsInv, ArtifactsTypeOK, PruneOf, Begin, Moves
  <2>5. ScratchOf(d)'
    BY DEF ArtifactsInv, ArtifactsTypeOK, ScratchOf, Begin, Moves
  <2> QED
    BY <2>1, <2>2, <2>3, <2>4, <2>5
<1>5. \A n \in Earlier \ files' : MayGo(n)'
  BY <1>1 DEF ArtifactsInv, PruneOf, Begin, Moves
<1> QED
  BY <1>3, <1>4, <1>5 DEF ArtifactsInv

LEMMA CreateArtifactKeeps ==
    ASSUME ArtifactsInv, NEW c \in Cmds, CreateArtifact(c)
    PROVE  ArtifactsInv'
<1> USE ArtifactsAssumption
<1>1. \A n : (MayGo(n) => MayGo(n)') /\ (Newer(n) >= Keep => Newer(n)' >= Keep)
  BY MayGoStays DEF ArtifactsInv, CreateArtifact
<1>2. Made' = Made \cup {c} /\ writes' \in Seq(Earlier \cup Cmds)
  BY MadeGrows DEF ArtifactsInv, CreateArtifact
<1>3. ArtifactsTypeOK'
  BY <1>2 DEF ArtifactsInv, ArtifactsTypeOK, CommandSteps, CreateArtifact
<1>4. ASSUME NEW d \in Cmds
      PROVE  (MadeOnce(d) /\ Holds(d) /\ OutOf(d) /\ PruneOf(d) /\ ScratchOf(d))'
  <2>1. MadeOnce(d)'
    BY <1>2 DEF ArtifactsInv, ArtifactsTypeOK, MadeOnce, CreateArtifact
  <2>2. Holds(d)'
    BY <1>1, <1>2 DEF ArtifactsInv, ArtifactsTypeOK, MadeOnce, Holds, CreateArtifact
  <2>3. OutOf(d)'
    BY DEF ArtifactsInv, ArtifactsTypeOK, OutOf, CreateArtifact
  <2>4. PruneOf(d)'
    BY <1>1, ProtectedSame DEF ArtifactsInv, ArtifactsTypeOK, PruneOf, CreateArtifact
  <2>5. ScratchOf(d)'
    BY DEF ArtifactsInv, ArtifactsTypeOK, ScratchOf, CreateArtifact
  <2> QED
    BY <2>1, <2>2, <2>3, <2>4, <2>5
<1>5. \A n \in Earlier \ files' : MayGo(n)'
  BY <1>1 DEF ArtifactsInv, PruneOf, CreateArtifact
<1> QED
  BY <1>3, <1>4, <1>5 DEF ArtifactsInv

LEMMA FillArtifactKeeps ==
    ASSUME ArtifactsInv, NEW c \in Cmds, FillArtifact(c)
    PROVE  ArtifactsInv'
<1> USE ArtifactsAssumption
<1>1. \A n : (MayGo(n) => MayGo(n)') /\ (Newer(n) >= Keep => Newer(n)' >= Keep)
  BY MayGoStays DEF ArtifactsInv, FillArtifact
<1>2. Made' = Made /\ writes' \in Seq(Earlier \cup Cmds)
  BY MadeGrows DEF ArtifactsInv, FillArtifact
<1>3. ArtifactsTypeOK'
  BY <1>2 DEF ArtifactsInv, ArtifactsTypeOK, CommandSteps, FillArtifact
<1>4. ASSUME NEW d \in Cmds
      PROVE  (MadeOnce(d) /\ Holds(d) /\ OutOf(d) /\ PruneOf(d) /\ ScratchOf(d))'
  <2>1. MadeOnce(d)'
    BY <1>2 DEF ArtifactsInv, ArtifactsTypeOK, MadeOnce, FillArtifact
  <2>2. Holds(d)'
    BY <1>1, <1>2 DEF ArtifactsInv, ArtifactsTypeOK, MadeOnce, Holds, FillArtifact
  <2>3. OutOf(d)'
    BY DEF ArtifactsInv, ArtifactsTypeOK, OutOf, FillArtifact
  <2>4. PruneOf(d)'
    BY <1>1, ProtectedSame DEF ArtifactsInv, ArtifactsTypeOK, PruneOf, FillArtifact
  <2>5. ScratchOf(d)'
    BY DEF ArtifactsInv, ArtifactsTypeOK, ScratchOf, FillArtifact
  <2> QED
    BY <2>1, <2>2, <2>3, <2>4, <2>5
<1>5. \A n \in Earlier \ files' : MayGo(n)'
  BY <1>1 DEF ArtifactsInv, PruneOf, FillArtifact
<1> QED
  BY <1>3, <1>4, <1>5 DEF ArtifactsInv

LEMMA TakenKeeps ==
    ASSUME ArtifactsInv, NEW c \in Cmds, Taken(c)
    PROVE  ArtifactsInv'
<1> USE ArtifactsAssumption
<1>1. \A n : (MayGo(n) => MayGo(n)') /\ (Newer(n) >= Keep => Newer(n)' >= Keep)
  BY MayGoStays DEF ArtifactsInv, Taken
<1>2. Made' = Made
  BY DEF Taken, Made
<1>3. ArtifactsTypeOK'
  BY <1>2 DEF ArtifactsInv, ArtifactsTypeOK, CommandSteps, Taken, Moves
<1>4. ASSUME NEW d \in Cmds
      PROVE  (MadeOnce(d) /\ Holds(d) /\ OutOf(d) /\ PruneOf(d) /\ ScratchOf(d))'
  <2>1. MadeOnce(d)'
    BY <1>2 DEF ArtifactsInv, ArtifactsTypeOK, MadeOnce, Taken, Moves
  <2>2. Holds(d)'
    BY <1>1, <1>2 DEF ArtifactsInv, ArtifactsTypeOK, MadeOnce, Holds, Taken, Moves
  <2>3. OutOf(d)'
    BY DEF ArtifactsInv, ArtifactsTypeOK, OutOf, Taken, Moves
  <2>4. PruneOf(d)'
    BY <1>1, ProtectedSame DEF ArtifactsInv, ArtifactsTypeOK, PruneOf, Taken, Moves
  <2>5. ScratchOf(d)'
    BY DEF ArtifactsInv, ArtifactsTypeOK, ScratchOf, Taken, Moves
  <2> QED
    BY <2>1, <2>2, <2>3, <2>4, <2>5
<1>5. \A n \in Earlier \ files' : MayGo(n)'
  BY <1>1 DEF ArtifactsInv, PruneOf, Taken, Moves
<1> QED
  BY <1>3, <1>4, <1>5 DEF ArtifactsInv

LEMMA TakeFailsKeeps ==
    ASSUME ArtifactsInv, NEW c \in Cmds, TakeFails(c)
    PROVE  ArtifactsInv'
<1> USE ArtifactsAssumption
<1>1. \A n : (MayGo(n) => MayGo(n)') /\ (Newer(n) >= Keep => Newer(n)' >= Keep)
  BY MayGoStays DEF ArtifactsInv, TakeFails
<1>2. Made' = Made
  BY DEF TakeFails, Made
<1>3. ArtifactsTypeOK'
  BY <1>2 DEF ArtifactsInv, ArtifactsTypeOK, CommandSteps, TakeFails, Moves, RemoveStray
<1>4. ASSUME NEW d \in Cmds
      PROVE  (MadeOnce(d) /\ Holds(d) /\ OutOf(d) /\ PruneOf(d) /\ ScratchOf(d))'
  <2>1. MadeOnce(d)'
    BY <1>2 DEF ArtifactsInv, ArtifactsTypeOK, MadeOnce, TakeFails, Moves, RemoveStray
  <2>2. Holds(d)'
    BY <1>1, <1>2 DEF ArtifactsInv, ArtifactsTypeOK, MadeOnce, Holds, TakeFails, Moves, RemoveStray
  <2>3. OutOf(d)'
    BY DEF ArtifactsInv, ArtifactsTypeOK, OutOf, TakeFails, Moves, RemoveStray
  <2>4. PruneOf(d)'
    BY <1>1, ProtectedSame DEF ArtifactsInv, ArtifactsTypeOK, PruneOf, TakeFails, Moves, RemoveStray
  <2>5. ScratchOf(d)'
    BY DEF ArtifactsInv, ArtifactsTypeOK, ScratchOf, TakeFails, Moves, RemoveStray
  <2> QED
    BY <2>1, <2>2, <2>3, <2>4, <2>5
<1>5. \A n \in Earlier \ files' : MayGo(n)'
  BY <1>1 DEF ArtifactsInv, PruneOf, TakeFails, Moves, RemoveStray
<1> QED
  BY <1>3, <1>4, <1>5 DEF ArtifactsInv

LEMMA ListKeeps ==
    ASSUME ArtifactsInv, NEW c \in Cmds, List(c)
    PROVE  ArtifactsInv'
<1> USE ArtifactsAssumption
<1>1. \A n : (MayGo(n) => MayGo(n)') /\ (Newer(n) >= Keep => Newer(n)' >= Keep)
  BY MayGoStays DEF ArtifactsInv, List
<1>2. Made' = Made
  BY DEF List, Made
<1>3. ArtifactsTypeOK'
  BY <1>2 DEF ArtifactsInv, ArtifactsTypeOK, CommandSteps, List, Moves, Prunable
<1>4. ASSUME NEW d \in Cmds
      PROVE  (MadeOnce(d) /\ Holds(d) /\ OutOf(d) /\ PruneOf(d) /\ ScratchOf(d))'
  <2>1. MadeOnce(d)'
    BY <1>2 DEF ArtifactsInv, ArtifactsTypeOK, MadeOnce, List, Moves
  <2>2. Holds(d)'
    BY <1>1, <1>2 DEF ArtifactsInv, ArtifactsTypeOK, MadeOnce, Holds, List, Moves
  <2>3. OutOf(d)'
    BY DEF ArtifactsInv, ArtifactsTypeOK, OutOf, List, Moves
  <2>4. PruneOf(d)'
    <3>1. \A n \in Prunable(c) : n # Protected(c) /\ MayGo(n)
      BY CountedMayGo DEF ArtifactsInv, Prunable, MayGo
    <3> QED
      BY <1>1, <3>1, ProtectedSame DEF ArtifactsInv, ArtifactsTypeOK, PruneOf, List, Moves
  <2>5. ScratchOf(d)'
    BY DEF ArtifactsInv, ArtifactsTypeOK, ScratchOf, List, Moves
  <2> QED
    BY <2>1, <2>2, <2>3, <2>4, <2>5
<1>5. \A n \in Earlier \ files' : MayGo(n)'
  BY <1>1 DEF ArtifactsInv, PruneOf, List, Moves
<1> QED
  BY <1>3, <1>4, <1>5 DEF ArtifactsInv

LEMMA PruneKeeps ==
    ASSUME ArtifactsInv, NEW c \in Cmds, Prune(c)
    PROVE  ArtifactsInv'
<1> USE ArtifactsAssumption
<1>1. \A n : (MayGo(n) => MayGo(n)') /\ (Newer(n) >= Keep => Newer(n)' >= Keep)
  BY MayGoStays DEF ArtifactsInv, Prune
<1>2. Made' = Made
  BY DEF Prune, Made
<1>3. ArtifactsTypeOK'
  BY <1>2 DEF ArtifactsInv, ArtifactsTypeOK, CommandSteps, Prune
<1>4. ASSUME NEW d \in Cmds
      PROVE  (MadeOnce(d) /\ Holds(d) /\ OutOf(d) /\ PruneOf(d) /\ ScratchOf(d))'
  <2>1. MadeOnce(d)'
    BY <1>2 DEF ArtifactsInv, ArtifactsTypeOK, MadeOnce, Prune
  <2>2. Holds(d)'
    BY <1>1, <1>2 DEF ArtifactsInv, ArtifactsTypeOK, MadeOnce, Holds, PruneOf, MayGo,
               Protected, Prune
  <2>3. OutOf(d)'
    BY DEF ArtifactsInv, ArtifactsTypeOK, OutOf, Prune
  <2>4. PruneOf(d)'
    BY <1>1, ProtectedSame DEF ArtifactsInv, ArtifactsTypeOK, PruneOf, Prune
  <2>5. ScratchOf(d)'
    BY DEF ArtifactsInv, ArtifactsTypeOK, ScratchOf, Prune
  <2> QED
    BY <2>1, <2>2, <2>3, <2>4, <2>5
<1>5. \A n \in Earlier \ files' : MayGo(n)'
  BY <1>1 DEF ArtifactsInv, PruneOf, Prune
<1> QED
  BY <1>3, <1>4, <1>5 DEF ArtifactsInv

LEMMA PrunedKeeps ==
    ASSUME ArtifactsInv, NEW c \in Cmds, Pruned(c)
    PROVE  ArtifactsInv'
<1> USE ArtifactsAssumption
<1>1. \A n : (MayGo(n) => MayGo(n)') /\ (Newer(n) >= Keep => Newer(n)' >= Keep)
  BY MayGoStays DEF ArtifactsInv, Pruned
<1>2. Made' = Made
  BY DEF Pruned, Made
<1>3. ArtifactsTypeOK'
  BY <1>2 DEF ArtifactsInv, ArtifactsTypeOK, CommandSteps, Pruned, Moves, AfterTaking, Kinds
<1>4. ASSUME NEW d \in Cmds
      PROVE  (MadeOnce(d) /\ Holds(d) /\ OutOf(d) /\ PruneOf(d) /\ ScratchOf(d))'
  <2>1. MadeOnce(d)'
    BY <1>2 DEF ArtifactsInv, ArtifactsTypeOK, MadeOnce, Pruned, Moves, AfterTaking, Kinds
  <2>2. Holds(d)'
    BY <1>1, <1>2 DEF ArtifactsInv, ArtifactsTypeOK, MadeOnce, Holds, Pruned, Moves, AfterTaking, Kinds
  <2>3. OutOf(d)'
    BY DEF ArtifactsInv, ArtifactsTypeOK, OutOf, Pruned, Moves, AfterTaking, Kinds
  <2>4. PruneOf(d)'
    BY <1>1, ProtectedSame DEF ArtifactsInv, ArtifactsTypeOK, PruneOf, Pruned, Moves, AfterTaking, Kinds
  <2>5. ScratchOf(d)'
    BY DEF ArtifactsInv, ArtifactsTypeOK, ScratchOf, Pruned, Moves, AfterTaking, Kinds
  <2> QED
    BY <2>1, <2>2, <2>3, <2>4, <2>5
<1>5. \A n \in Earlier \ files' : MayGo(n)'
  BY <1>1 DEF ArtifactsInv, PruneOf, Pruned, Moves, AfterTaking, Kinds
<1> QED
  BY <1>3, <1>4, <1>5 DEF ArtifactsInv

LEMMA ScratchKeeps ==
    ASSUME ArtifactsInv, NEW c \in Cmds, Scratch(c)
    PROVE  ArtifactsInv'
<1> USE ArtifactsAssumption
<1>1. \A n : (MayGo(n) => MayGo(n)') /\ (Newer(n) >= Keep => Newer(n)' >= Keep)
  BY MayGoStays DEF ArtifactsInv, Scratch
<1>2. Made' = Made
  BY DEF Scratch, Made
<1>3. ArtifactsTypeOK'
  BY <1>2 DEF ArtifactsInv, ArtifactsTypeOK, CommandSteps, Scratch
<1>4. ASSUME NEW d \in Cmds
      PROVE  (MadeOnce(d) /\ Holds(d) /\ OutOf(d) /\ PruneOf(d) /\ ScratchOf(d))'
  <2>1. MadeOnce(d)'
    BY <1>2 DEF ArtifactsInv, ArtifactsTypeOK, MadeOnce, Scratch
  <2>2. Holds(d)'
    BY <1>1, <1>2 DEF ArtifactsInv, ArtifactsTypeOK, MadeOnce, Holds, Scratch
  <2>3. OutOf(d)'
    BY DEF ArtifactsInv, ArtifactsTypeOK, OutOf, Scratch
  <2>4. PruneOf(d)'
    BY <1>1, ProtectedSame DEF ArtifactsInv, ArtifactsTypeOK, PruneOf, Scratch
  <2>5. ScratchOf(d)'
    BY DEF ArtifactsInv, ArtifactsTypeOK, ScratchOf, Scratch
  <2> QED
    BY <2>1, <2>2, <2>3, <2>4, <2>5
<1>5. \A n \in Earlier \ files' : MayGo(n)'
  BY <1>1 DEF ArtifactsInv, PruneOf, Scratch
<1> QED
  BY <1>3, <1>4, <1>5 DEF ArtifactsInv

LEMMA SummarizedKeeps ==
    ASSUME ArtifactsInv, NEW c \in Cmds, Summarized(c)
    PROVE  ArtifactsInv'
<1> USE ArtifactsAssumption
<1>1. \A n : (MayGo(n) => MayGo(n)') /\ (Newer(n) >= Keep => Newer(n)' >= Keep)
  BY MayGoStays DEF ArtifactsInv, Summarized
<1>2. Made' = Made
  BY DEF Summarized, Made
<1>3. ArtifactsTypeOK'
  BY <1>2 DEF ArtifactsInv, ArtifactsTypeOK, CommandSteps, Summarized, Moves, AfterTaking, RemoveStray
<1>4. ASSUME NEW d \in Cmds
      PROVE  (MadeOnce(d) /\ Holds(d) /\ OutOf(d) /\ PruneOf(d) /\ ScratchOf(d))'
  <2>1. MadeOnce(d)'
    BY <1>2 DEF ArtifactsInv, ArtifactsTypeOK, MadeOnce, Summarized, Moves, AfterTaking, RemoveStray
  <2>2. Holds(d)'
    BY <1>1, <1>2 DEF ArtifactsInv, ArtifactsTypeOK, MadeOnce, Holds, Summarized, Moves, AfterTaking, RemoveStray
  <2>3. OutOf(d)'
    BY DEF ArtifactsInv, ArtifactsTypeOK, OutOf, Summarized, Moves, AfterTaking, RemoveStray
  <2>4. PruneOf(d)'
    BY <1>1, ProtectedSame DEF ArtifactsInv, ArtifactsTypeOK, PruneOf, Summarized, Moves, AfterTaking, RemoveStray
  <2>5. ScratchOf(d)'
    BY DEF ArtifactsInv, ArtifactsTypeOK, ScratchOf, Summarized, Moves, AfterTaking, RemoveStray
  <2> QED
    BY <2>1, <2>2, <2>3, <2>4, <2>5
<1>5. \A n \in Earlier \ files' : MayGo(n)'
  BY <1>1 DEF ArtifactsInv, PruneOf, Summarized, Moves, AfterTaking, RemoveStray
<1> QED
  BY <1>3, <1>4, <1>5 DEF ArtifactsInv

LEMMA LinkKeeps ==
    ASSUME ArtifactsInv, NEW c \in Cmds, Link(c)
    PROVE  ArtifactsInv'
<1> USE ArtifactsAssumption
<1>1. \A n : (MayGo(n) => MayGo(n)') /\ (Newer(n) >= Keep => Newer(n)' >= Keep)
  BY MayGoStays DEF ArtifactsInv, Link
<1>2. Made' = Made
  BY DEF Link, Made
<1>3. ArtifactsTypeOK'
  BY <1>2 DEF ArtifactsInv, ArtifactsTypeOK, CommandSteps, Link, Moves, CanLink
<1>4. ASSUME NEW d \in Cmds
      PROVE  (MadeOnce(d) /\ Holds(d) /\ OutOf(d) /\ PruneOf(d) /\ ScratchOf(d))'
  <2>1. MadeOnce(d)'
    BY <1>2 DEF ArtifactsInv, ArtifactsTypeOK, MadeOnce, Link, Moves, CanLink
  <2>2. Holds(d)'
    BY <1>1, <1>2 DEF ArtifactsInv, ArtifactsTypeOK, MadeOnce, Holds, Link, Moves, CanLink
  <2>3. OutOf(d)'
    BY DEF ArtifactsInv, ArtifactsTypeOK, OutOf, Link, Moves, CanLink
  <2>4. PruneOf(d)'
    BY <1>1, ProtectedSame DEF ArtifactsInv, ArtifactsTypeOK, PruneOf, Link, Moves, CanLink
  <2>5. ScratchOf(d)'
    BY DEF ArtifactsInv, ArtifactsTypeOK, ScratchOf, Link, Moves, CanLink
  <2> QED
    BY <2>1, <2>2, <2>3, <2>4, <2>5
<1>5. \A n \in Earlier \ files' : MayGo(n)'
  BY <1>1 DEF ArtifactsInv, PruneOf, Link, Moves, CanLink
<1> QED
  BY <1>3, <1>4, <1>5 DEF ArtifactsInv

LEMMA CopyBeginsKeeps ==
    ASSUME ArtifactsInv, NEW c \in Cmds, CopyBegins(c)
    PROVE  ArtifactsInv'
<1> USE ArtifactsAssumption
<1>1. \A n : (MayGo(n) => MayGo(n)') /\ (Newer(n) >= Keep => Newer(n)' >= Keep)
  BY MayGoStays DEF ArtifactsInv, CopyBegins
<1>2. Made' = Made
  BY DEF CopyBegins, Made
<1>3. ArtifactsTypeOK'
  BY <1>2 DEF ArtifactsInv, ArtifactsTypeOK, CommandSteps, CopyBegins, Moves
<1>4. ASSUME NEW d \in Cmds
      PROVE  (MadeOnce(d) /\ Holds(d) /\ OutOf(d) /\ PruneOf(d) /\ ScratchOf(d))'
  <2>1. MadeOnce(d)'
    BY <1>2 DEF ArtifactsInv, ArtifactsTypeOK, MadeOnce, CopyBegins, Moves
  <2>2. Holds(d)'
    BY <1>1, <1>2 DEF ArtifactsInv, ArtifactsTypeOK, MadeOnce, Holds, CopyBegins, Moves
  <2>3. OutOf(d)'
    BY DEF ArtifactsInv, ArtifactsTypeOK, OutOf, CopyBegins, Moves
  <2>4. PruneOf(d)'
    BY <1>1, ProtectedSame DEF ArtifactsInv, ArtifactsTypeOK, PruneOf, CopyBegins, Moves
  <2>5. ScratchOf(d)'
    BY DEF ArtifactsInv, ArtifactsTypeOK, ScratchOf, CopyBegins, Moves
  <2> QED
    BY <2>1, <2>2, <2>3, <2>4, <2>5
<1>5. \A n \in Earlier \ files' : MayGo(n)'
  BY <1>1 DEF ArtifactsInv, PruneOf, CopyBegins, Moves
<1> QED
  BY <1>3, <1>4, <1>5 DEF ArtifactsInv

LEMMA CopyEndsKeeps ==
    ASSUME ArtifactsInv, NEW c \in Cmds, CopyEnds(c)
    PROVE  ArtifactsInv'
<1> USE ArtifactsAssumption
<1>1. \A n : (MayGo(n) => MayGo(n)') /\ (Newer(n) >= Keep => Newer(n)' >= Keep)
  BY MayGoStays DEF ArtifactsInv, CopyEnds
<1>2. Made' = Made
  BY DEF CopyEnds, Made
<1>3. ArtifactsTypeOK'
  BY <1>2 DEF ArtifactsInv, ArtifactsTypeOK, CommandSteps, CopyEnds, Moves
<1>4. ASSUME NEW d \in Cmds
      PROVE  (MadeOnce(d) /\ Holds(d) /\ OutOf(d) /\ PruneOf(d) /\ ScratchOf(d))'
  <2>1. MadeOnce(d)'
    BY <1>2 DEF ArtifactsInv, ArtifactsTypeOK, MadeOnce, CopyEnds, Moves
  <2>2. Holds(d)'
    BY <1>1, <1>2 DEF ArtifactsInv, ArtifactsTypeOK, MadeOnce, Holds, CopyEnds, Moves
  <2>3. OutOf(d)'
    BY DEF ArtifactsInv, ArtifactsTypeOK, OutOf, CopyEnds, Moves
  <2>4. PruneOf(d)'
    BY <1>1, ProtectedSame DEF ArtifactsInv, ArtifactsTypeOK, PruneOf, CopyEnds, Moves
  <2>5. ScratchOf(d)'
    BY DEF ArtifactsInv, ArtifactsTypeOK, ScratchOf, CopyEnds, Moves
  <2> QED
    BY <2>1, <2>2, <2>3, <2>4, <2>5
<1>5. \A n \in Earlier \ files' : MayGo(n)'
  BY <1>1 DEF ArtifactsInv, PruneOf, CopyEnds, Moves
<1> QED
  BY <1>3, <1>4, <1>5 DEF ArtifactsInv

LEMMA RemoveSourceKeeps ==
    ASSUME ArtifactsInv, NEW c \in Cmds, RemoveSource(c)
    PROVE  ArtifactsInv'
<1> USE ArtifactsAssumption
<1>1. \A n : (MayGo(n) => MayGo(n)') /\ (Newer(n) >= Keep => Newer(n)' >= Keep)
  BY MayGoStays DEF ArtifactsInv, RemoveSource
<1>2. Made' = Made
  BY DEF RemoveSource, Made
<1>3. ArtifactsTypeOK'
  BY <1>2 DEF ArtifactsInv, ArtifactsTypeOK, CommandSteps, RemoveSource, Moves
<1>4. ASSUME NEW d \in Cmds
      PROVE  (MadeOnce(d) /\ Holds(d) /\ OutOf(d) /\ PruneOf(d) /\ ScratchOf(d))'
  <2>1. MadeOnce(d)'
    BY <1>2 DEF ArtifactsInv, ArtifactsTypeOK, MadeOnce, RemoveSource, Moves
  <2>2. Holds(d)'
    BY <1>1, <1>2 DEF ArtifactsInv, ArtifactsTypeOK, MadeOnce, Holds, RemoveSource, Moves
  <2>3. OutOf(d)'
    BY DEF ArtifactsInv, ArtifactsTypeOK, OutOf, RemoveSource, Moves
  <2>4. PruneOf(d)'
    BY <1>1, ProtectedSame DEF ArtifactsInv, ArtifactsTypeOK, PruneOf, RemoveSource, Moves
  <2>5. ScratchOf(d)'
    BY DEF ArtifactsInv, ArtifactsTypeOK, ScratchOf, RemoveSource, Moves
  <2> QED
    BY <2>1, <2>2, <2>3, <2>4, <2>5
<1>5. \A n \in Earlier \ files' : MayGo(n)'
  BY <1>1 DEF ArtifactsInv, PruneOf, RemoveSource, Moves
<1> QED
  BY <1>3, <1>4, <1>5 DEF ArtifactsInv

LEMMA PlaceFailsKeeps ==
    ASSUME ArtifactsInv, NEW c \in Cmds, PlaceFails(c)
    PROVE  ArtifactsInv'
<1> USE ArtifactsAssumption
<1>1. \A n : (MayGo(n) => MayGo(n)') /\ (Newer(n) >= Keep => Newer(n)' >= Keep)
  BY MayGoStays DEF ArtifactsInv, PlaceFails
<1>2. Made' = Made
  BY DEF PlaceFails, Made
<1>3. ArtifactsTypeOK'
  BY <1>2 DEF ArtifactsInv, ArtifactsTypeOK, CommandSteps, PlaceFails, Moves
<1>4. ASSUME NEW d \in Cmds
      PROVE  (MadeOnce(d) /\ Holds(d) /\ OutOf(d) /\ PruneOf(d) /\ ScratchOf(d))'
  <2>1. MadeOnce(d)'
    BY <1>2 DEF ArtifactsInv, ArtifactsTypeOK, MadeOnce, PlaceFails, Moves
  <2>2. Holds(d)'
    BY <1>1, <1>2 DEF ArtifactsInv, ArtifactsTypeOK, MadeOnce, Holds, PlaceFails, Moves
  <2>3. OutOf(d)'
    BY DEF ArtifactsInv, ArtifactsTypeOK, OutOf, PlaceFails, Moves
  <2>4. PruneOf(d)'
    BY <1>1, ProtectedSame DEF ArtifactsInv, ArtifactsTypeOK, PruneOf, PlaceFails, Moves
  <2>5. ScratchOf(d)'
    BY DEF ArtifactsInv, ArtifactsTypeOK, ScratchOf, PlaceFails, Moves
  <2> QED
    BY <2>1, <2>2, <2>3, <2>4, <2>5
<1>5. \A n \in Earlier \ files' : MayGo(n)'
  BY <1>1 DEF ArtifactsInv, PruneOf, PlaceFails, Moves
<1> QED
  BY <1>3, <1>4, <1>5 DEF ArtifactsInv

LEMMA KillCommandKeeps ==
    ASSUME ArtifactsInv, NEW c \in Cmds, KillCommand(c)
    PROVE  ArtifactsInv'
<1> USE ArtifactsAssumption
<1>1. \A n : (MayGo(n) => MayGo(n)') /\ (Newer(n) >= Keep => Newer(n)' >= Keep)
  BY MayGoStays DEF ArtifactsInv, KillCommand
<1>2. Made' = Made
  BY DEF KillCommand, Made
<1>3. ArtifactsTypeOK'
  BY <1>2 DEF ArtifactsInv, ArtifactsTypeOK, CommandSteps, KillCommand, Moves, Ended
<1>4. ASSUME NEW d \in Cmds
      PROVE  (MadeOnce(d) /\ Holds(d) /\ OutOf(d) /\ PruneOf(d) /\ ScratchOf(d))'
  <2>1. MadeOnce(d)'
    BY <1>2 DEF ArtifactsInv, ArtifactsTypeOK, MadeOnce, KillCommand, Moves, Ended
  <2>2. Holds(d)'
    BY <1>1, <1>2 DEF ArtifactsInv, ArtifactsTypeOK, MadeOnce, Holds, KillCommand, Moves, Ended
  <2>3. OutOf(d)'
    BY DEF ArtifactsInv, ArtifactsTypeOK, OutOf, KillCommand, Moves, Ended
  <2>4. PruneOf(d)'
    BY <1>1, ProtectedSame DEF ArtifactsInv, ArtifactsTypeOK, PruneOf, KillCommand, Moves, Ended
  <2>5. ScratchOf(d)'
    BY DEF ArtifactsInv, ArtifactsTypeOK, ScratchOf, KillCommand, Moves, Ended
  <2> QED
    BY <2>1, <2>2, <2>3, <2>4, <2>5
<1>5. \A n \in Earlier \ files' : MayGo(n)'
  BY <1>1 DEF ArtifactsInv, PruneOf, KillCommand, Moves, Ended
<1> QED
  BY <1>3, <1>4, <1>5 DEF ArtifactsInv

LEMMA StepArtifacts == ArtifactsInv /\ [ArtifactsNext]_artifactVars => ArtifactsInv'
<1> SUFFICES ASSUME ArtifactsInv, [ArtifactsNext]_artifactVars
             PROVE  ArtifactsInv'
  OBVIOUS
<1>1. CASE UNCHANGED artifactVars
  <2>1. \A n : (MayGo(n) => MayGo(n)') /\ (Newer(n) >= Keep => Newer(n)' >= Keep)
    BY <1>1, MayGoStays DEF ArtifactsInv, artifactVars
  <2> QED
    BY <1>1, <2>1
       DEF artifactVars, ArtifactsInv, ArtifactsTypeOK, Made, MadeOnce, Holds, OutOf,
           PruneOf, Protected, ScratchOf
<1>2. CASE Ages
  <2>1. \A n : (MayGo(n) => MayGo(n)') /\ (Newer(n) >= Keep => Newer(n)' >= Keep)
    BY <1>2, MayGoStays DEF ArtifactsInv, Ages
  <2> QED
    BY <1>2, <2>1
       DEF Ages, ArtifactsInv, ArtifactsTypeOK, Made, MadeOnce, Holds, OutOf, PruneOf,
           Protected, ScratchOf
<1>3. ASSUME NEW c \in Cmds, CommandStep(c)
      PROVE  ArtifactsInv'
  BY <1>3, BeginKeeps, CreateArtifactKeeps, FillArtifactKeeps, TakenKeeps, TakeFailsKeeps,
     ListKeeps, PruneKeeps, PrunedKeeps, ScratchKeeps, SummarizedKeeps,
     LinkKeeps, CopyBeginsKeeps, CopyEndsKeeps, RemoveSourceKeeps, PlaceFailsKeeps, KillCommandKeeps
     DEF CommandStep
<1> QED
  BY <1>1, <1>2, <1>3 DEF ArtifactsNext

\* What a command says of its artifact is so, for any number of commands that
\* run at once and are killed, any artifacts there before and any Keep: placed
\* it is whole at --out, kept it is there or Keep others of its directory were
\* written to since it was begun, failed it left nothing but a late dump, and no
\* scratch file stays (Prune, which ranks by ModTime, and Place).
THEOREM ArtifactsAreSafe == ArtifactsSpec => []ArtifactsSafe
<1>1. ArtifactsInv => ArtifactsSafe
  BY DEF ArtifactsInv, ArtifactsSafe, Holds, OutOf, ScratchOf, MayGo, Ended
<1> QED
  BY <1>1, InitArtifacts, StepArtifacts, PTL DEF ArtifactsSpec
=============================================================================
