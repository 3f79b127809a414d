------------------------------ MODULE MCTools ------------------------------
(***************************************************************************)
(* The parts that stand beside the sessions for TLC: test runs, the        *)
(* choice and the installation of adapters, the .NET helper and its        *)
(* artifacts.  They share nothing, so a behaviour is about one of them and *)
(* the variables of the others stay as they are.                           *)
(***************************************************************************)
EXTENDS TestRun, AdapterCatalog, AdapterInstall, DotnetHelper, Artifacts

CONSTANT b1

MCBefore == <<b1>>

VARIABLE part

allVars == <<part, vars, catalogVars, installVars, helperVars, artifactVars>>

MCInit ==
    /\ part \in {"test", "catalog", "install", "helper", "artifacts"}
    /\ Init /\ CatalogInit /\ InstallInit /\ HelperInit /\ ArtifactsInit
    \* a part that is not looked at has one initial state
    /\ part # "install" => archive = Files
    /\ part # "helper" => ~bounded
    /\ part # "artifacts" =>
          out = NoFile /\ \A c \in Cmds \cup Earlier : kind[c] = [does |-> "dump", out |-> FALSE]

InTest(A) ==
    part = "test" /\ A /\ UNCHANGED <<part, catalogVars, installVars, helperVars, artifactVars>>
InHelper(A) ==
    part = "helper" /\ A /\ UNCHANGED <<part, vars, catalogVars, installVars, artifactVars>>

MCNext ==
    \/ InTest(Next)
    \/ part = "catalog" /\ CatalogNext
       /\ UNCHANGED <<part, vars, installVars, helperVars, artifactVars>>
    \/ part = "install" /\ InstallNext
       /\ UNCHANGED <<part, vars, catalogVars, helperVars, artifactVars>>
    \/ InHelper(HelperNext)
    \/ part = "artifacts" /\ ArtifactsNext
       /\ UNCHANGED <<part, vars, catalogVars, installVars, helperVars>>

\* TestRun's Fairness and DotnetHelper's, each for its behaviours.
RunnerGone == ended \/ runner \in {"exited", "killed"}
MCFairness ==
    /\ WF_allVars(InTest(Start)) /\ WF_allVars(InTest(Watcher)) /\ WF_allVars(InTest(Watch))
    /\ \A e \in Enders : WF_allVars(InTest(Terminate(e)))
    /\ WF_allVars(InTest(RunnerGone /\ AdapterGone)) /\ WF_allVars(InTest(OnOutput))
    /\ WF_allVars(InHelper(Command)) /\ WF_allVars(InHelper(Waits))
    /\ WF_allVars(InHelper(Reads)) /\ WF_allVars(InHelper(ReaderStops))
    /\ WF_allVars(InHelper(HelloTimeout)) /\ WF_allVars(InHelper(KillGroup))
    /\ WF_allVars(InHelper(bounded /\ CtxDone))
    /\ WF_allVars(InHelper(Cancel)) /\ WF_allVars(InHelper(WaitDelayPasses))

MCSpec == MCInit /\ [][MCNext]_allVars /\ MCFairness

\* Whatever runs beside the daemon's own goroutines comes to an end: a test
\* session once its runner exited, the helper once its command may not wait
\* any longer (watchRunner, Client.Close).
ToolsEnd == RunEnds /\ HelperEnds
=============================================================================
