--------------------------- MODULE MCGroupEvents ---------------------------
(***************************************************************************)
(* Requests about a group of sessions for TLC: one that reads their events *)
(* page by page, or one that waits for one of them to stop.  A behaviour   *)
(* is about one of the two, and the variables of the other stay as they    *)
(* are.                                                                    *)
(***************************************************************************)
EXTENDS GroupEvents, GroupWait

VARIABLE part   \* which of the two this behaviour is about

allVars == <<part, vars, waitVars>>

\* A part that is not looked at has one initial state.
MCInit ==
    /\ part \in {"events", "wait"}
    /\ Init /\ (part = "wait" => wanted = CHOOSE f \in Filters : TRUE)
    /\ WaitInit /\ (part = "events" => \A m \in Group : state[m] = "running")

InEvents(A) == part = "events" /\ A /\ UNCHANGED <<part, waitVars>>
InWait(A) == part = "wait" /\ A /\ UNCHANGED <<part, vars>>

MCSpec ==
    /\ MCInit /\ [][InEvents(Next) \/ InWait(WaitNext)]_allVars
    /\ WF_allVars(InEvents(Reader)) /\ WF_allVars(InWait(Waiter))

\* No request sleeps over what it waits for: an event that another client's
\* call appends while the members are queried (WaiterWakes of GroupEvents), a
\* stop or an end while they are looked at (WaitWakes of GroupWait).
RequestsWake == WaiterWakes /\ WaitWakes

\* Output may be larger than a whole log.
MCSize(kd) == IF kd = "output" THEN 4 ELSE 1
=============================================================================
