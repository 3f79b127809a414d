--------------------------- MODULE AtomicInstall ---------------------------
(***************************************************************************)
(* What `adapters install` promises (internal/adapters/install.go's        *)
(* Install): to everyone who looks for it, an adapter appears in one step  *)
(* and stays; a process that reports success reports what is there.        *)
(***************************************************************************)

CONSTANT Installs  \* the processes that install

VARIABLES
    found,    \* is the adapter found?
    outcome   \* of each process: "running", "ok", "error" or "killed"

vars == <<found, outcome>>

Init == found = FALSE /\ outcome = [p \in Installs |-> "running"]

Appear(p) ==
    /\ outcome[p] = "running" /\ ~found
    /\ found' = TRUE
    /\ UNCHANGED outcome

End(p, o) ==
    /\ outcome[p] = "running"
    /\ o = "ok" => found
    /\ outcome' = [outcome EXCEPT ![p] = o]
    /\ UNCHANGED found

Next ==
    \E p \in Installs : Appear(p) \/ \E o \in {"ok", "error", "killed"} : End(p, o)

Spec == Init /\ [][Next]_vars
=============================================================================
