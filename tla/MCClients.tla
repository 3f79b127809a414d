----------------------------- MODULE MCClients -----------------------------
(***************************************************************************)
(* The clients of one session for TLC: who controls it, and what they read *)
(* of it.  The lease and the inspection share nothing here, so a behaviour *)
(* is about one of them.                                                   *)
(*                                                                         *)
(* Four clients and a request list of two: enough that a request displaces *)
(* the oldest one, that a human and agents compete, and that a request     *)
(* outlives several policy changes.  Two readers and one change of the     *)
(* variables over three stops: enough that a capture is in flight when a   *)
(* variable is set, and that the next stop is diffed against this one.     *)
(***************************************************************************)
EXTENDS ControlLease, Inspection, SequencesExt

\* The removal of one position is slices.DeleteFunc on lists without
\* duplicates.
ASSUME \A n \in 0 .. 3 : \A s \in [1 .. n -> Clients] :
           IsInjective(s) => \A c \in Clients : Without(s, c) = Remove(s, c)

VARIABLE part

MCvars == <<part, leaseVars, inspectVars>>

MCInit ==
    /\ part \in {"lease", "inspection"} /\ LeaseInit /\ InspectInit
    /\ part = "inspection" => policy = "free"

MCNext ==
    \/ part = "lease" /\ LeaseNext /\ UNCHANGED <<part, inspectVars>>
    \/ part = "inspection" /\ InspectNext /\ UNCHANGED <<part, leaseVars>>

MCSpec == MCInit /\ [][MCNext]_MCvars
=============================================================================
