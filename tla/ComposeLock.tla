---------------------------- MODULE ComposeLock ----------------------------
(***************************************************************************)
(* The lock of a compose project's directory (internal/artifacts/          *)
(* compose.go): a file created exclusively that holds its run's line, a    *)
(* stale one taken over by renaming it to a private name, checking it      *)
(* there and removing it, or putting it back by a link when it is another. *)
(*                                                                         *)
(* A step is one operation on the file system.  A file is named by the run *)
(* that created it: its line holds a fresh token.                          *)
(***************************************************************************)
EXTENDS Naturals, FiniteSets

CONSTANTS
    Runs,      \* the runs, each of which takes the lock once
    NoFile,
    MaxKills,  \* bound: runs that are killed
    MaxErrors  \* bound: writes of a lock that fail

VARIABLES
    lpc,      \* where each run is
    attempt,  \* lock's loop
    want,     \* what removeLock is to remove
    name,     \* the file at the lock's name, or NoFile
    moved,    \* the file at each run's private name, or NoFile
    whole,    \* does a run's file hold its complete line?
    old,      \* is a run's file older than LockMaxAge?
    kills, errors

lockVars == <<lpc, attempt, want, name, moved, whole, old, kills, errors>>

Goto(r, next) == lpc' = [lpc EXCEPT ![r] = next]

\* readLock of the file f: one complete line.
Readable(f) == f # NoFile /\ whole[f]

\* createLock: the exclusive create ...
CreateLock(r) ==
    /\ lpc[r] = "create"
    /\ IF name = NoFile
       THEN name' = r /\ Goto(r, "write")
       ELSE UNCHANGED name /\ Goto(r, "read")
    /\ UNCHANGED <<attempt, want, moved, whole, old, kills, errors>>

\* ... and the write, to the file wherever it is by then; when it fails what
\* is at the name goes.
WriteLock(r) ==
    /\ lpc[r] = "write"
    /\ \/ whole' = [whole EXCEPT ![r] = TRUE] /\ Goto(r, "work")
          /\ UNCHANGED <<name, errors>>
       \/ errors < MaxErrors /\ errors' = errors + 1
          /\ name' = NoFile /\ Goto(r, "failed") /\ UNCHANGED whole
    /\ UNCHANGED <<attempt, want, moved, old, kills>>

\* lock: a lock that is there is held, unless it is whole and old, and this
\* is the first attempt; one that is gone by now is tried again.
ReadLock(r) ==
    /\ lpc[r] = "read"
    /\ IF name = NoFile
       THEN /\ attempt' = [attempt EXCEPT ![r] = @ + 1]
            /\ Goto(r, IF attempt[r] = 0 THEN "create" ELSE "failed")
            /\ UNCHANGED want
       ELSE IF Readable(name) /\ old[name] /\ attempt[r] = 0
       THEN /\ want' = [want EXCEPT ![r] = name]
            /\ Goto(r, "check") /\ UNCHANGED attempt
       ELSE Goto(r, "failed") /\ UNCHANGED <<attempt, want>>
    /\ UNCHANGED <<name, moved, whole, old, kills, errors>>

\* What becomes of a run whose removeLock removed the lock, or did not.
Removed(r) == IF want[r] = r THEN "done" ELSE "create"
Kept(r) == IF want[r] = r THEN "done" ELSE "failed"

\* removeLock: only a lock that holds want is moved ...
CheckLock(r) ==
    /\ lpc[r] = "check"
    /\ Goto(r, IF Readable(name) /\ name = want[r] THEN "rename" ELSE Kept(r))
    /\ UNCHANGED <<attempt, want, name, moved, whole, old, kills, errors>>

\* ... whatever it is by now ...
RenameLock(r) ==
    /\ lpc[r] = "rename"
    /\ IF name = NoFile
       THEN Goto(r, Kept(r)) /\ UNCHANGED <<name, moved>>
       ELSE /\ moved' = [moved EXCEPT ![r] = name] /\ name' = NoFile
            /\ Goto(r, "verify")
    /\ UNCHANGED <<attempt, want, whole, old, kills, errors>>

\* The moved file is told apart by what it holds.
IsAnyLock(r) == Readable(moved[r])
IsWanted(r) == Readable(moved[r]) /\ moved[r] = want[r]

\* ... and removed when it is want, else put back ...
VerifyMoved(r) ==
    /\ lpc[r] = "verify"
    /\ IF IsWanted(r)
       THEN /\ moved' = [moved EXCEPT ![r] = NoFile]
            /\ Goto(r, Removed(r))
            /\ attempt' = [attempt EXCEPT ![r] = IF want[r] = r THEN @ ELSE @ + 1]
       ELSE Goto(r, "link") /\ UNCHANGED <<moved, attempt>>
    /\ UNCHANGED <<want, name, whole, old, kills, errors>>

\* ... if no other run took the name meanwhile.
LinkBack(r) ==
    /\ lpc[r] = "link"
    /\ name' = IF name = NoFile THEN moved[r] ELSE name
    /\ moved' = [moved EXCEPT ![r] = NoFile]
    /\ Goto(r, Kept(r))
    /\ UNCHANGED <<attempt, want, whole, old, kills, errors>>

\* The run is over: its release unlocks.
Unlock(r) ==
    /\ lpc[r] = "work"
    /\ want' = [want EXCEPT ![r] = r]
    /\ Goto(r, "check")
    /\ UNCHANGED <<attempt, name, moved, whole, old, kills, errors>>

\* The run's prune removed the project's directory, with the lock in it.
UnlockRemoved(r) ==
    /\ lpc[r] = "work"
    /\ name' = NoFile
    /\ want' = [want EXCEPT ![r] = r]
    /\ Goto(r, "check")
    /\ UNCHANGED <<attempt, moved, whole, old, kills, errors>>

\* A run dies, wherever it is.
KillRun(r) ==
    /\ lpc[r] \notin {"done", "failed", "dead"} /\ kills < MaxKills
    /\ kills' = kills + 1
    /\ Goto(r, "dead")
    /\ UNCHANGED <<attempt, want, name, moved, whole, old, errors>>

\* LockMaxAge passes; no run that lives takes that long.
Age(f) ==
    /\ lpc[f] = "dead" /\ ~old[f] /\ f \in {name} \cup {moved[r] : r \in Runs}
    /\ old' = [old EXCEPT ![f] = TRUE]
    /\ UNCHANGED <<lpc, attempt, want, name, moved, whole, kills, errors>>

LockInit ==
    /\ lpc = [r \in Runs |-> "create"] /\ attempt = [r \in Runs |-> 0]
    /\ want = [r \in Runs |-> NoFile] /\ name = NoFile
    /\ moved = [r \in Runs |-> NoFile]
    /\ whole = [r \in Runs |-> FALSE] /\ old = [r \in Runs |-> FALSE]
    /\ kills = 0 /\ errors = 0

LockNext ==
    \E r \in Runs :
        \/ CreateLock(r) \/ WriteLock(r) \/ ReadLock(r) \/ CheckLock(r)
        \/ RenameLock(r) \/ VerifyMoved(r) \/ LinkBack(r)
        \/ Unlock(r) \/ UnlockRemoved(r) \/ KillRun(r) \/ Age(r)

LockSpec == LockInit /\ [][LockNext]_lockVars

----------------------------------------------------------------------------
(***************************************************************************)
(* Properties.                                                             *)
(***************************************************************************)

Working == {r \in Runs : lpc[r] \in {"write", "work"}}

\* Only one run works on the project, whoever died and however many find its
\* lock stale at once, with at most two runs beside the dead one (removeLock
\* names the race a third one is in); and the lock of a run at work is at its
\* name, or in the hands of a run that is about to put it back.
LockExclusive ==
    /\ Cardinality(Working) <= 1
    /\ \A r \in Working :
          name = r \/ \E q \in Runs : moved[q] = r /\ lpc[q] \in {"verify", "link", "dead"}
=============================================================================
