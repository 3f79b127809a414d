----------------------------- MODULE MCCompose -----------------------------
(***************************************************************************)
(* Fast mode and its lock for TLC: a behaviour is one of either.           *)
(***************************************************************************)
EXTENDS ComposeFast

CONSTANTS Runs, NoFile, MaxKills, MaxErrors

VARIABLES part, lpc, attempt, want, name, moved, whole, old, kills, errors

L == INSTANCE ComposeLock

locks == <<lpc, attempt, want, name, moved, whole, old, kills, errors>>
MCvars == <<vars, part, locks>>

MCInit == part \in {"fast", "lock"} /\ Init /\ L!LockInit

MCNext ==
    \/ part = "fast" /\ Next /\ UNCHANGED <<part, locks>>
    \/ part = "lock" /\ L!LockNext /\ UNCHANGED <<part, vars>>

MCSpec == MCInit /\ [][MCNext]_MCvars

\* Only one run works on the project's directory, however many find a dead
\* run's lock stale at once (artifacts.Lock).
LockExclusive == L!LockExclusive
=============================================================================
