------------------------------ MODULE MCFacade ------------------------------
(***************************************************************************)
(* The facade's two kinds of connection, which share only the session      *)
(* behind them, for TLC: one behaviour is about a joined connection or a   *)
(* launch connection; the variables of the other stay as they are.         *)
(***************************************************************************)
EXTENDS FacadeConnection, FacadeLaunch

VARIABLE part    \* which of the two this behaviour is about

vars == <<part, connectionVars, launchConnVars>>

Init ==
    /\ part \in {"connection", "launch"}
    /\ ConnectionInit /\ LaunchInit

NextConnection ==
    part = "connection" /\ ConnectionNext /\ UNCHANGED <<part, launchConnVars>>
NextLaunch == part = "launch" /\ LaunchNext /\ UNCHANGED <<part, connectionVars>>
Next == NextConnection \/ NextLaunch

\* ConnectionFairness and LaunchFairness, each for its behaviours.
InConnection(A) == part = "connection" /\ A /\ UNCHANGED <<part, launchConnVars>>
InLaunch(A) == part = "launch" /\ A /\ UNCHANGED <<part, connectionVars>>
Fairness ==
    /\ WF_vars(InConnection(Spawn))
    /\ SF_vars(InConnection(Join))
    /\ WF_vars(InConnection(ReadEnds))
    /\ SF_vars(InConnection(Serve))
    /\ WF_vars(InConnection(Respond))
    /\ \A r \in Reqs : WF_vars(InConnection(ServeRead(r)))
    /\ WF_vars(InConnection(Follow \/ FollowEnds))
    /\ SF_vars(InConnection(Resync \/ Relay))
    /\ WF_vars(InConnection(ServeEnds))
    /\ WF_vars(InLaunch(Worker)) /\ WF_vars(InLaunch(TerminateLaunch))
    /\ WF_vars(InLaunch(LaunchServeEnds)) /\ WF_vars(InLaunch(ServeTerminal))
    /\ WF_vars(InLaunch(LaunchGoroutine))

Spec == Init /\ [][Next]_vars /\ Fairness

\* A connection whose editor is gone closes, whether it joined a session or
\* launches one, and a terminate is answered: nothing waits for ever.
ConnectionsEnd == ConnectionEnds /\ LaunchEnds /\ TerminateAnswered
=============================================================================
