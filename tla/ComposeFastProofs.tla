------------------------- MODULE ComposeFastProofs --------------------------
(***************************************************************************)
(* Fast mode in containers, for any services and however launches and      *)
(* restores fail, are killed or meet each other's leftovers                *)
(* (internal/cli/compose_launch*.go, compose_restore.go).                  *)
(*                                                                         *)
(* The argument: an app under the debugger is in a container in fast mode  *)
(* with a session in its name, so a launch that lists the sessions finds   *)
(* and stops it before the files it runs from are replaced.  A recreate    *)
(* that was given up on may still be done: its build stays, because a run  *)
(* whose recreate failed does not prune.  What a restore has still to do   *)
(* covers all that is in fast mode, as long as nothing failed.             *)
(***************************************************************************)
EXTENDS ComposeFast, TLAPS

\* The values the variables have.
Ctrs == {"built", "fast", "gone"}
Apps == {"none", "session"}
Builds == {"none", "half", "ok"}
Sessions == {"none", "attached", "launched"}
RunRecords == [kind : {"none", "launch", "restore"}, noBuild : NoBuilds \cup {FALSE}, all : BOOLEAN,
               foundFast : BOOLEAN, upFailed : BOOLEAN, keepProject : BOOLEAN, clean : BOOLEAN,
               at : Services \cup {"none"}]

\* The stages of a launch, and of a restore, that the other does not have.
LaunchStages == {"classify", "settle", "resolve", "build", "connect", "mirror", "mirroring",
                 "up", "refresh", "launch"}
RestoreStages == {"inspect", "restore", "rewrite"}
Stages == LaunchStages \cup RestoreStages \cup {"idle", "stop", "stopping", "finish"}

\* The types of the variables.
FastTypeOK ==
    /\ ctr \in [Services -> Ctrs] /\ app \in [Services -> Apps] /\ late \subseteq Services
    /\ rec \subseteq Services /\ build \in [Services -> Builds]
    /\ sess \in [Services -> Sessions] /\ listed \in [Services -> Sessions]
    /\ pc \in Stages /\ run \in RunRecords /\ fails \in Nat
    /\ live \subseteq Services /\ todo \subseteq Services /\ entry \subseteq Services
    /\ seen \subseteq Services

\* Which run is in which stage.
StageOfRun ==
    /\ pc \in LaunchStages => run.kind = "launch"
    /\ pc \in RestoreStages => run.kind = "restore"
    /\ pc \in {"stop", "stopping"} => run.kind # "none"
    /\ run.kind = "restore" => ~run.keepProject

\* An app under the debugger is in a container in fast mode, with its session.
AppsHaveSessions ==
    \A s \in Services : app[s] = "session" => sess[s] = "launched" /\ ctr[s] = "fast"

\* A recreate that may still be done: its build stays, for the run is not to
\* prune, and it counts as a failure.
LateKept ==
    /\ late # {} => fails # 0 /\ (pc = "idle" \/ run.upFailed)
    /\ run.kind = "restore" => late = {}
    /\ \A s \in late : build[s] # "none"

\* What a launch has got ready: no app runs where files are to be replaced, and
\* a service that is still in the run after its turn has a complete build.
Prepared ==
    /\ pc = "stopping" => run.at \in Services
    /\ pc = "stop" /\ run.kind = "launch" =>
          \A s \in live : app[s] = "session" => s \in todo /\ listed[s] # "none"
    /\ pc = "stopping" /\ run.kind = "launch" =>
          \A s \in live : app[s] = "session" => (s \in todo \/ s = run.at) /\ listed[s] # "none"
    /\ pc \in {"mirror", "mirroring"} => todo \subseteq live /\ \A s \in live : app[s] # "session"
    /\ pc = "mirror" => \A s \in live : s \notin todo => build[s] = "ok"
    /\ pc = "mirroring" => /\ run.at \in live \ todo
                           /\ \A s \in live : s \notin todo /\ s # run.at => build[s] = "ok"
    /\ pc = "up" => Entering \subseteq rec
    /\ pc \in {"up", "refresh"} => \A s \in live : build[s] = "ok"
    /\ pc = "launch" => todo \subseteq live /\ (run.noBuild \/ \A s \in live : build[s] = "ok")

\* A restore of everything that met no failure: what is in fast mode is still
\* to be restored; later nothing is.
Restoring ==
    run.kind = "restore" /\ run.all /\ run.clean =>
        /\ pc \in {"inspect", "stop", "stopping", "restore"} => FastContainers \subseteq live
        /\ pc = "inspect" => live \subseteq seen
        /\ pc \in {"rewrite", "finish"} => FastContainers = {} /\ ~run.upFailed

\* The inductive invariant.
FastInv ==
    /\ FastTypeOK /\ StageOfRun /\ AppsHaveSessions /\ LateKept /\ Prepared /\ Restoring /\ MountedKept

----------------------------------------------------------------------------
\* A step that keeps the run, but for what fails in it.
SameRun ==
    /\ run' \in RunRecords /\ run'.kind = run.kind /\ run'.noBuild = run.noBuild /\ run'.all = run.all
    /\ run'.upFailed = run.upFailed /\ run'.keepProject = run.keepProject
    /\ run'.clean => run.clean

\* Lose.
LEMMA LoseFacts ==
    ASSUME FastTypeOK, NEW lost, Lose(lost)
    PROVE  /\ SameRun /\ run'.at = run.at /\ (run'.clean => lost = {})
           /\ fails' \in Nat /\ (fails' = 0 => fails = 0 /\ lost = {})
<1>1. run \in RunRecords /\ fails \in Nat
  BY DEF FastTypeOK
<1>2. run' = [run EXCEPT !.clean = run.clean /\ lost = {}] /\ fails' = IF lost = {} THEN fails ELSE fails + 1
  BY DEF Lose
<1>3. run' \in RunRecords
  BY <1>1, <1>2 DEF RunRecords
<1>4. /\ run'.kind = run.kind /\ run'.noBuild = run.noBuild /\ run'.all = run.all /\ run'.at = run.at
      /\ run'.upFailed = run.upFailed /\ run'.keepProject = run.keepProject
  BY <1>1, <1>2 DEF RunRecords
<1>5. run'.clean => run.clean /\ lost = {}
  BY <1>1, <1>2 DEF RunRecords
<1>6. fails' \in Nat /\ (fails' = 0 => fails = 0 /\ lost = {})
  BY <1>1, <1>2
<1> QED
  BY <1>3, <1>4, <1>5, <1>6 DEF SameRun

\* PublishFails, which may also keep the project's directory.
LEMMA PublishFacts ==
    ASSUME FastTypeOK, NEW lost, PublishFails(lost)
    PROVE  /\ run' \in RunRecords /\ run'.kind = run.kind /\ run'.upFailed = run.upFailed
           /\ fails' \in Nat /\ (fails' = 0 => fails = 0)
<1>1. run \in RunRecords /\ fails \in Nat
  BY DEF FastTypeOK
<1>2. /\ run' = [run EXCEPT !.clean = run.clean /\ lost = {}, !.keepProject = lost # {}]
      /\ fails' = IF lost = {} THEN fails ELSE fails + 1
  BY DEF PublishFails
<1>3. run' \in RunRecords
  BY <1>1, <1>2 DEF RunRecords
<1>4. run'.kind = run.kind /\ run'.upFailed = run.upFailed
  BY <1>1, <1>2 DEF RunRecords
<1>5. fails' \in Nat /\ (fails' = 0 => fails = 0)
  BY <1>1, <1>2
<1> QED
  BY <1>3, <1>4, <1>5

\* What a ComposeUp leaves: what failed in it is out of the run; the others are
\* of that kind.
UpDone(S, failed, k) ==
    /\ run' \in RunRecords /\ run'.kind = run.kind /\ run'.all = run.all
    /\ run'.keepProject = run.keepProject /\ run'.noBuild = run.noBuild
    /\ (run'.clean => run.clean /\ failed = {})
    /\ (run'.upFailed => failed # {}) /\ (failed # {} => run'.upFailed)
    /\ fails' \in Nat /\ (fails' = 0 => fails = 0 /\ failed = {})
    /\ live' = live \ failed
    /\ ctr' \in [Services -> Ctrs] /\ app' \in [Services -> Apps] /\ sess' \in [Services -> Sessions]
    /\ seen' \subseteq Services /\ listed' \in [Services -> Sessions]
    /\ \A s \in Services : s \notin S => ctr'[s] = ctr[s] /\ app'[s] = app[s] /\ sess'[s] = sess[s]
    /\ \A s \in S \ failed : ctr'[s] = k
    /\ \A s \in S : ctr'[s] \in {ctr[s], k, "gone"}
    /\ \A s \in Services : app'[s] = "session" =>
          app[s] = "session" /\ ctr'[s] = ctr[s] /\ sess'[s] = sess[s]

\* ComposeUp.
LEMMA ComposeUpFacts ==
    ASSUME FastTypeOK, NEW S \in SUBSET Services, NEW failed \in SUBSET S, NEW k \in {"built", "fast"},
           ComposeUp(S, failed, k)
    PROVE  UpDone(S, failed, k)
<1>1. run \in RunRecords /\ fails \in Nat
  BY DEF FastTypeOK
<1>2. /\ run' = [run EXCEPT !.clean = run.clean /\ failed = {}, !.upFailed = failed # {}]
      /\ fails' = IF failed = {} THEN fails ELSE fails + 1
      /\ live' = live \ failed
  BY DEF ComposeUp
<1>3. PICK done \in SUBSET failed : \E to \in [done -> {k, "gone"}] :
         Recreate(done \cup (S \ failed), [s \in S |-> IF s \in done THEN to[s] ELSE k])
  BY DEF ComposeUp
<1>4. PICK to \in [done -> {k, "gone"}] :
         Recreate(done \cup (S \ failed), [s \in S |-> IF s \in done THEN to[s] ELSE k])
  BY <1>3
<1> DEFINE R == done \cup (S \ failed)
           new == [s \in S |-> IF s \in done THEN to[s] ELSE k]
<1>5. /\ ctr' = [s \in Services |-> IF s \in R THEN new[s] ELSE ctr[s]]
      /\ app' = [s \in Services |-> IF s \in R THEN "none" ELSE app[s]]
      /\ sess' = [s \in Services |-> IF s \in R THEN "none" ELSE sess[s]]
      /\ seen' = seen \ R
      /\ listed' = [s \in Services |-> IF s \in R THEN "none" ELSE listed[s]]
  BY <1>4 DEF Recreate
<1>6. \A s \in R : s \in S /\ new[s] \in {k, "gone"} /\ (s \notin done => new[s] = k)
  OBVIOUS
<1>7. R \subseteq S /\ \A s \in S \ failed : s \in R /\ s \notin done
  OBVIOUS
<1> HIDE DEF R, new
<1>8. /\ ctr' \in [Services -> Ctrs] /\ app' \in [Services -> Apps] /\ sess' \in [Services -> Sessions]
      /\ seen' \subseteq Services /\ listed' \in [Services -> Sessions]
  BY <1>5, <1>6 DEF FastTypeOK, Ctrs, Apps, Sessions
<1>9. /\ run' \in RunRecords /\ run'.kind = run.kind /\ run'.all = run.all
      /\ run'.keepProject = run.keepProject /\ run'.noBuild = run.noBuild
      /\ (run'.clean => run.clean /\ failed = {})
      /\ (run'.upFailed => failed # {}) /\ (failed # {} => run'.upFailed)
  BY <1>1, <1>2 DEF RunRecords
<1>10. fails' \in Nat /\ (fails' = 0 => fails = 0 /\ failed = {})
  BY <1>1, <1>2
<1>11. /\ \A s \in Services : s \notin S => ctr'[s] = ctr[s] /\ app'[s] = app[s] /\ sess'[s] = sess[s]
       /\ \A s \in S \ failed : ctr'[s] = k
       /\ \A s \in S : ctr'[s] \in {ctr[s], k, "gone"}
       /\ \A s \in Services : app'[s] = "session" =>
             app[s] = "session" /\ ctr'[s] = ctr[s] /\ sess'[s] = sess[s]
  BY <1>5, <1>6, <1>7
<1> QED
  BY <1>2, <1>8, <1>9, <1>10, <1>11 DEF UpDone

\* A container is made anew, or removed.
LEMMA RecreateFacts ==
    ASSUME FastTypeOK, NEW s \in Services, NEW to \in Ctrs, Recreate({s}, [x \in {s} |-> to])
    PROVE  /\ ctr' \in [Services -> Ctrs] /\ app' \in [Services -> Apps] /\ sess' \in [Services -> Sessions]
           /\ seen' = seen \ {s} /\ ctr'[s] = to /\ app'[s] = "none" /\ listed' \in [Services -> Sessions]
           /\ \A x \in Services : x # s => /\ ctr'[x] = ctr[x] /\ app'[x] = app[x]
                                          /\ sess'[x] = sess[x] /\ listed'[x] = listed[x]
<1>1. /\ ctr' = [x \in Services |-> IF x \in {s} THEN to ELSE ctr[x]]
      /\ app' = [x \in Services |-> IF x \in {s} THEN "none" ELSE app[x]]
      /\ sess' = [x \in Services |-> IF x \in {s} THEN "none" ELSE sess[x]]
      /\ seen' = seen \ {s}
      /\ listed' = [x \in Services |-> IF x \in {s} THEN "none" ELSE listed[x]]
  BY DEF Recreate
<1> QED
  BY <1>1 DEF FastTypeOK, Apps, Sessions

\* A session ends.
LEMMA EndFacts ==
    ASSUME FastInv, NEW s \in Services, NEW left, EndSession(s, left)
    PROVE  /\ app' \in [Services -> Apps] /\ sess' \in [Services -> Sessions]
           /\ listed' \in [Services -> Sessions] /\ app'[s] # "session"
           /\ \A x \in Services : x # s => app'[x] = app[x] /\ sess'[x] = sess[x] /\ listed'[x] = listed[x]
           /\ \A x \in Services : app'[x] = "session" =>
                 app[x] = "session" /\ sess'[x] = sess[x] /\ listed'[x] = listed[x]
<1>1. /\ app \in [Services -> Apps] /\ sess \in [Services -> Sessions]
      /\ listed \in [Services -> Sessions]
  BY DEF FastInv, FastTypeOK
<1>2. /\ sess' = [sess EXCEPT ![s] = "none"] /\ app' = [app EXCEPT ![s] = "none"]
      /\ listed' = [listed EXCEPT ![s] = "none"]
  BY DEF EndSession
<1>3. "none" \in Sessions /\ "none" \in Apps
  BY DEF Sessions, Apps
<1> QED
  BY <1>1, <1>2, <1>3

\* A step that leaves containers, files and sessions alone.
LEMMA RunOnly ==
    ASSUME FastInv, UNCHANGED <<ctr, app, late, rec, build, sess>>, pc # "idle",
           run'.kind = run.kind, run'.upFailed = run.upFailed, fails' = 0 => fails = 0
    PROVE  AppsHaveSessions' /\ LateKept' /\ MountedKept'
<1>1. AppsHaveSessions'
  BY DEF FastInv, AppsHaveSessions
<1>2. LateKept'
  BY DEF FastInv, LateKept
<1>3. MountedKept'
  BY DEF FastInv, MountedKept, FastContainers
<1> QED
  BY <1>1, <1>2, <1>3

\* A step of the surroundings: what a run has got ready stays so.
LEMMA AroundRun ==
    ASSUME FastInv, UNCHANGED <<pc, live, todo, entry, rec, build>>,
           SameRun, run'.at = run.at,
           \A s \in Services : app'[s] = "session" => app[s] = "session" /\ listed'[s] = listed[s]
    PROVE  StageOfRun' /\ Prepared'
<1>1. StageOfRun'
  BY DEF FastInv, StageOfRun, SameRun
<1>2. live \subseteq Services /\ Entering' = Entering
  BY DEF FastInv, FastTypeOK, Entering
<1>3. Prepared'
  BY <1>2 DEF FastInv, Prepared, SameRun
<1> QED
  BY <1>1, <1>3

\* docker compose by a user.
LEMMA UserKeeps ==
    ASSUME FastInv, NEW s \in Services, NEW to \in {"built", "gone"}, UserRecreates(s, to)
    PROVE  FastInv'
<1>1. /\ UNCHANGED <<late, rec, build, pc, live, todo, entry, fails>>
      /\ Recreate({s}, [x \in {s} |-> to]) /\ run' = [run EXCEPT !.clean = FALSE]
  BY DEF UserRecreates, files
<1>2. FastTypeOK /\ to \in Ctrs
  BY DEF FastInv, Ctrs
<1>3. /\ ctr' \in [Services -> Ctrs] /\ app' \in [Services -> Apps] /\ sess' \in [Services -> Sessions]
      /\ seen' = seen \ {s} /\ ctr'[s] = to /\ app'[s] = "none" /\ listed' \in [Services -> Sessions]
      /\ \A x \in Services : x # s => /\ ctr'[x] = ctr[x] /\ app'[x] = app[x]
                                     /\ sess'[x] = sess[x] /\ listed'[x] = listed[x]
  BY <1>1, <1>2, RecreateFacts
<1>4. SameRun /\ run'.at = run.at /\ ~run'.clean
  <2>1. run \in RunRecords
    BY <1>2 DEF FastTypeOK
  <2>2. run' \in RunRecords
    BY <1>1, <2>1 DEF RunRecords
  <2>3. /\ run'.kind = run.kind /\ run'.noBuild = run.noBuild /\ run'.all = run.all /\ run'.at = run.at
        /\ run'.upFailed = run.upFailed /\ run'.keepProject = run.keepProject /\ ~run'.clean
    BY <1>1, <2>1 DEF RunRecords
  <2> QED
    BY <2>2, <2>3 DEF SameRun
<1>5. FastTypeOK'
  BY <1>1, <1>2, <1>3, <1>4 DEF FastTypeOK, SameRun
<1>6. StageOfRun' /\ Prepared'
  BY <1>1, <1>3, <1>4, AroundRun
<1>7. AppsHaveSessions'
  BY <1>3 DEF FastInv, AppsHaveSessions
<1>8. LateKept'
  BY <1>1, <1>4 DEF FastInv, LateKept, SameRun
<1>9. MountedKept'
  BY <1>1, <1>3 DEF FastInv, MountedKept, FastContainers
<1>10. Restoring'
  BY <1>4 DEF Restoring
<1> QED
  BY <1>5, <1>6, <1>7, <1>8, <1>9, <1>10 DEF FastInv

\* A recreate that is done after all.
LEMMA LandKeeps ==
    ASSUME FastInv, NEW s \in Services, Land(s)
    PROVE  FastInv'
<1>1. /\ UNCHANGED <<rec, build, pc, run, live, todo, entry, fails>>
      /\ Recreate({s}, [x \in {s} |-> "fast"]) /\ s \in late /\ late' = late \ {s}
  BY DEF Land, files, bounds
<1>2. FastTypeOK /\ "fast" \in Ctrs
  BY DEF FastInv, Ctrs
<1>3. /\ ctr' \in [Services -> Ctrs] /\ app' \in [Services -> Apps] /\ sess' \in [Services -> Sessions]
      /\ seen' = seen \ {s} /\ ctr'[s] = "fast" /\ app'[s] = "none" /\ listed' \in [Services -> Sessions]
      /\ \A x \in Services : x # s => /\ ctr'[x] = ctr[x] /\ app'[x] = app[x]
                                     /\ sess'[x] = sess[x] /\ listed'[x] = listed[x]
  BY <1>1, <1>2, RecreateFacts
<1>4. SameRun /\ run.kind # "restore" /\ build[s] # "none" /\ fails # 0
  BY <1>1, <1>2 DEF SameRun, FastTypeOK, FastInv, LateKept
<1>5. FastTypeOK'
  BY <1>1, <1>2, <1>3 DEF FastTypeOK
<1>6. StageOfRun' /\ Prepared'
  BY <1>1, <1>3, <1>4, AroundRun
<1>7. AppsHaveSessions'
  BY <1>3 DEF FastInv, AppsHaveSessions
<1>8. LateKept'
  BY <1>1 DEF FastInv, LateKept
<1>9. MountedKept'
  BY <1>1, <1>3, <1>4 DEF FastInv, MountedKept, FastContainers
<1>10. Restoring'
  BY <1>1, <1>4 DEF Restoring
<1> QED
  BY <1>5, <1>6, <1>7, <1>8, <1>9, <1>10 DEF FastInv

\* Sessions come and go.
LEMMA SessionsKeep ==
    ASSUME FastInv, NEW s \in Services,
           Attach(s) \/ BpAdd(s) \/ BpRemove(s) \/ \E stray \in BOOLEAN : SessionEnds(s, stray)
    PROVE  FastInv'
<1>1. /\ UNCHANGED <<ctr, late, rec, build, pc, run, live, todo, entry, seen>>
      /\ fails' = fails \/ fails' = fails + 1
  BY DEF Attach, BpAdd, BpRemove, SessionEnds, engine, files, stage, bounds
<1>2. /\ app' \in [Services -> Apps] /\ sess' \in [Services -> Sessions]
      /\ listed' \in [Services -> Sessions]
      /\ \A x \in Services : app'[x] = "session" =>
            app[x] = "session" /\ sess'[x] = sess[x] /\ listed'[x] = listed[x]
  <2>1. CASE Attach(s)
    <3>1. /\ app' = app /\ sess' = [sess EXCEPT ![s] = "attached"] /\ sess[s] = "none"
          /\ listed' = listed
      BY <2>1 DEF Attach, AttachMember, Attachable, engine, stage
    <3>2. app[s] # "session" /\ "attached" \in Sessions
      BY <3>1 DEF FastInv, AppsHaveSessions, Sessions
    <3> QED
      BY <3>1, <3>2 DEF FastInv, FastTypeOK
  <2>2. CASE BpAdd(s) \/ BpRemove(s)
    BY <2>2 DEF BpAdd, BpRemove, engine, stage, FastInv, FastTypeOK
  <2>3. CASE \E stray \in BOOLEAN : SessionEnds(s, stray)
    BY <2>3, EndFacts DEF SessionEnds
  <2> QED
    BY <2>1, <2>2, <2>3
<1>3. fails' \in Nat /\ (fails' = 0 => fails = 0)
  BY <1>1 DEF FastInv, FastTypeOK
<1>4. FastTypeOK'
  BY <1>1, <1>2, <1>3 DEF FastInv, FastTypeOK
<1>5. StageOfRun' /\ Prepared'
  <2>1. SameRun
    BY <1>1 DEF SameRun, FastInv, FastTypeOK
  <2> QED
    BY <1>1, <1>2, <2>1, AroundRun
<1>6. AppsHaveSessions'
  BY <1>1, <1>2 DEF FastInv, AppsHaveSessions
<1>7. LateKept' /\ MountedKept' /\ Restoring'
  BY <1>1, <1>3 DEF FastInv, LateKept, MountedKept, FastContainers, Restoring
<1> QED
  BY <1>4, <1>5, <1>6, <1>7 DEF FastInv

----------------------------------------------------------------------------
\* Beginning a run: nothing is late any more.
LEMMA BeginKeeps ==
    ASSUME FastInv, NEW names \in SUBSET Services,
           (\E noBuild \in NoBuilds : BeginLaunch(names, noBuild)) \/ BeginRestore(names)
    PROVE  FastInv'
<1>1. /\ UNCHANGED <<ctr, app, rec, build, sess>> /\ todo' = {} /\ entry' = {} /\ late' = {}
      /\ listed' = [s \in Services |-> "none"]
  BY DEF BeginLaunch, BeginRestore, TakeLock, files, daemon
<1>2. FastTypeOK /\ "none" \in Sessions
  BY DEF FastInv, Sessions
<1>3. /\ live' \subseteq Services /\ seen' = live' /\ fails' \in Nat /\ (fails' = 0 => fails = 0)
      /\ run' \in RunRecords /\ ~run'.keepProject /\ ~run'.upFailed
      /\ \/ pc' = "classify" /\ run'.kind = "launch"
         \/ /\ run'.kind = "restore" /\ pc' \in {"inspect", "finish"}
            /\ run'.clean /\ run'.all => pc' = "inspect" /\ live' = FastContainers
  <2>1. fails \in Nat
    BY <1>2 DEF FastTypeOK
  <2>2. CASE \E noBuild \in NoBuilds : BeginLaunch(names, noBuild)
    <3>1. PICK noBuild \in NoBuilds : BeginLaunch(names, noBuild)
      BY <2>2
    <3>2. run' = [NoRun EXCEPT !.kind = "launch", !.noBuild = noBuild]
      BY <3>1 DEF BeginLaunch
    <3>3. run' \in RunRecords /\ ~run'.keepProject /\ ~run'.upFailed /\ run'.kind = "launch"
      BY <3>2 DEF NoRun, RunRecords
    <3>4. live' \subseteq Services /\ seen' = live' /\ fails' = fails /\ pc' = "classify"
      BY <3>1 DEF BeginLaunch, Selected, Goto
    <3> QED
      BY <2>1, <3>3, <3>4
  <2>3. CASE BeginRestore(names)
    <3>1. PICK found \in BOOLEAN :
             /\ fails' = IF found THEN fails ELSE fails + 1
             /\ run' = [NoRun EXCEPT !.kind = "restore", !.all = names = Services, !.clean = found,
                                     !.foundFast = found /\ FastContainers # {}]
             /\ live' = IF found THEN names \cap FastContainers ELSE {}
             /\ pc' = IF found THEN "inspect" ELSE "finish"
      BY <2>3 DEF BeginRestore, Goto
    <3>2. seen' = live' /\ live' \subseteq Services
      BY <2>3, <3>1 DEF BeginRestore, FastContainers
    <3>3. fails' \in Nat /\ (fails' = 0 => fails = 0)
      BY <2>1, <3>1
    <3>4. run' \in RunRecords /\ run'.kind = "restore" /\ ~run'.keepProject /\ ~run'.upFailed
      BY <3>1 DEF NoRun, RunRecords
    <3>5. (run'.clean => found) /\ (run'.all => names = Services)
      BY <3>1 DEF NoRun
    <3>6. found /\ names = Services => pc' = "inspect" /\ live' = FastContainers
      BY <3>1 DEF FastContainers
    <3>7. pc' \in {"inspect", "finish"}
      BY <3>1
    <3> QED
      BY <3>2, <3>3, <3>4, <3>5, <3>6, <3>7
  <2> QED
    BY <2>2, <2>3
<1>4. FastTypeOK'
  BY <1>1, <1>2, <1>3 DEF FastTypeOK, Stages, LaunchStages, RestoreStages
<1>5. StageOfRun'
  BY <1>3 DEF StageOfRun, LaunchStages, RestoreStages
<1>6. AppsHaveSessions' /\ LateKept' /\ MountedKept'
  BY <1>1, <1>3 DEF FastInv, AppsHaveSessions, LateKept, MountedKept, FastContainers
<1>7. Prepared'
  BY <1>3 DEF Prepared
<1>8. Restoring'
  BY <1>1, <1>3 DEF Restoring, FastContainers
<1> QED
  BY <1>4, <1>5, <1>6, <1>7, <1>8 DEF FastInv

\* The stages of a launch before anything is changed.
LEMMA LaunchHead ==
    ASSUME FastInv, Classify \/ Settle \/ ResolveProjects \/ Build \/ Connect
    PROVE  FastInv'
<1>1. /\ UNCHANGED <<ctr, app, late, rec, build, sess, seen>>
      /\ pc \in {"classify", "settle", "resolve", "build", "connect"}
      /\ live' \subseteq live
      /\ pc' \in {"settle", "resolve", "build", "connect", "stop", "finish"}
      /\ entry' = entry \/ entry' \subseteq live'
      /\ \/ todo' = todo /\ listed' = listed /\ pc' # "stop"
         \/ todo' = live' /\ listed' = sess
      /\ \E lost : Lose(lost) \/ PublishFails(lost)
  <2>1. CASE Classify
    BY <2>1 DEF Classify, InspectFails, engine, files, daemon, Goto
  <2>2. CASE Settle
    BY <2>2 DEF Settle, CorroborateFails, engine, files, daemon, Goto
  <2>3. CASE ResolveProjects
    BY <2>3 DEF ResolveProjects, ProjectFails, MountsFail, engine, files, daemon, Goto
  <2>4. CASE Build
    BY <2>4 DEF Build, engine, files, daemon, Goto
  <2>5. CASE Connect
    BY <2>5 DEF Connect, engine, files, daemon, Goto
  <2> QED
    BY <2>1, <2>2, <2>3, <2>4, <2>5
<1>2. FastTypeOK /\ run.kind = "launch"
  BY <1>1 DEF FastInv, StageOfRun, LaunchStages
<1>3. /\ run' \in RunRecords /\ run'.kind = "launch" /\ run'.upFailed = run.upFailed
      /\ fails' \in Nat /\ (fails' = 0 => fails = 0)
  BY <1>1, <1>2, LoseFacts, PublishFacts DEF SameRun
<1>4. FastTypeOK'
  BY <1>1, <1>2, <1>3 DEF FastTypeOK, Stages, LaunchStages, RestoreStages
<1>5. AppsHaveSessions' /\ LateKept' /\ MountedKept'
  BY <1>1, <1>2, <1>3, RunOnly
<1>6. StageOfRun' /\ Restoring'
  BY <1>1, <1>3 DEF StageOfRun, Restoring, RestoreStages
<1>7. Prepared'
  <2>1. \A s \in live' : app'[s] = "session" => sess[s] # "none"
    BY <1>1, <1>2 DEF FastInv, AppsHaveSessions, FastTypeOK
  <2> QED
    BY <1>1, <2>1 DEF Prepared
<1> QED
  BY <1>4, <1>5, <1>6, <1>7 DEF FastInv

\* A service of the list is read.
LEMMA CarryAndStopKeeps ==
    ASSUME FastInv, NEW s \in Services, CarryAndStop(s)
    PROVE  FastInv'
<1>1. /\ UNCHANGED <<ctr, app, late, rec, build, sess, live, entry, seen, listed>> /\ pc = "stop"
      /\ todo' = todo \ {s}
      /\ fails' = fails \/ fails' = fails + 1
      /\ \/ s \in live /\ run' = [run EXCEPT !.at = s] /\ pc' = "stopping"
         \/ (s \notin live \/ listed[s] = "none") /\ UNCHANGED <<run, pc>>
  BY DEF CarryAndStop, Capture, engine, files, daemon, Goto
<1>2. FastTypeOK /\ run \in RunRecords
  BY DEF FastInv, FastTypeOK
<1>3. SameRun /\ fails' \in Nat /\ (fails' = 0 => fails = 0) /\ (pc' = "stopping" => run'.at = s)
  <2>1. fails' \in Nat /\ (fails' = 0 => fails = 0)
    BY <1>1, <1>2 DEF FastTypeOK
  <2>2. run' \in RunRecords
    BY <1>1, <1>2 DEF RunRecords
  <2>3. /\ run'.kind = run.kind /\ run'.noBuild = run.noBuild /\ run'.all = run.all
        /\ run'.upFailed = run.upFailed /\ run'.keepProject = run.keepProject
        /\ run'.clean = run.clean
    BY <1>1, <1>2 DEF RunRecords
  <2>4. pc' = "stopping" => run'.at = s
    BY <1>1, <1>2 DEF RunRecords
  <2> QED
    BY <2>1, <2>2, <2>3, <2>4 DEF SameRun
<1>4. FastTypeOK'
  BY <1>1, <1>2, <1>3 DEF FastTypeOK, SameRun, Stages
<1>5. StageOfRun'
  BY <1>1, <1>3 DEF FastInv, StageOfRun, SameRun, LaunchStages, RestoreStages
<1>6. AppsHaveSessions' /\ LateKept' /\ MountedKept'
  BY <1>1, <1>3, RunOnly DEF SameRun
<1>7. Prepared'
  <2>1. \A x \in live : run.kind = "launch" /\ app[x] = "session" => x \in todo /\ listed[x] # "none"
    BY <1>1 DEF FastInv, Prepared
  <2> QED
    BY <1>1, <1>3, <2>1 DEF Prepared, SameRun
<1>8. Restoring'
  BY <1>1, <1>3 DEF FastInv, Restoring, FastContainers, SameRun
<1> QED
  BY <1>4, <1>5, <1>6, <1>7, <1>8 DEF FastInv

\* Its session is stopped, or the service is out of the run.
LEMMA StopSessionKeeps ==
    ASSUME FastInv, StopSession
    PROVE  FastInv'
<1>1. /\ UNCHANGED <<ctr, late, rec, build, todo, entry, seen>> /\ pc = "stopping" /\ pc' = "stop"
  BY DEF StopSession, files, Goto
<1>2. FastTypeOK /\ run.at \in Services
  BY <1>1 DEF FastInv, Prepared
<1>3. /\ app' \in [Services -> Apps] /\ sess' \in [Services -> Sessions]
      /\ listed' \in [Services -> Sessions]
      /\ \A x \in Services : app'[x] = "session" =>
            app[x] = "session" /\ sess'[x] = sess[x] /\ listed'[x] = listed[x]
      /\ live' \subseteq live
      /\ SameRun /\ fails' \in Nat /\ (fails' = 0 => fails = 0)
      /\ run'.clean => live' = live
      /\ run.kind = "launch" /\ run.at \in live' => app'[run.at] # "session"
  <2>1. CASE EndSession(run.at, FALSE) /\ UNCHANGED <<live, fails, run>>
    <3>1. SameRun /\ fails' \in Nat
      BY <1>2, <2>1 DEF FastTypeOK, SameRun
    <3> QED
      BY <1>2, <2>1, <3>1, EndFacts
  <2>2. CASE live' = live \ {run.at} /\ Lose({run.at}) /\ UNCHANGED <<app, sess, listed>>
    <3>1. SameRun /\ ~run'.clean /\ fails' \in Nat /\ (fails' = 0 => fails = 0)
      BY <1>2, <2>2, LoseFacts
    <3> QED
      BY <1>2, <2>2, <3>1 DEF FastTypeOK
  <2>3. CASE listed[run.at] = "none" /\ UNCHANGED <<app, sess, listed, live, fails, run>>
    <3>1. SameRun /\ fails' \in Nat
      BY <1>2, <2>3 DEF FastTypeOK, SameRun
    <3>2. run.kind = "launch" /\ run.at \in live => app[run.at] # "session"
      BY <1>1, <2>3 DEF FastInv, Prepared
    <3> QED
      BY <1>2, <2>3, <3>1, <3>2 DEF FastTypeOK
  <2> QED
    BY <2>1, <2>2, <2>3 DEF StopSession, Refused, daemon
<1>4. FastTypeOK'
  BY <1>1, <1>2, <1>3 DEF FastTypeOK, SameRun, Stages
<1>5. StageOfRun'
  BY <1>1, <1>3 DEF FastInv, StageOfRun, SameRun, LaunchStages, RestoreStages
<1>6. AppsHaveSessions'
  BY <1>1, <1>3 DEF FastInv, AppsHaveSessions
<1>7. LateKept' /\ MountedKept'
  BY <1>1, <1>3 DEF FastInv, LateKept, MountedKept, FastContainers, SameRun
<1>8. Prepared'
  <2>1. run'.kind = run.kind
    BY <1>3 DEF SameRun
  <2>2. ASSUME run.kind = "launch", NEW x \in live', app'[x] = "session"
        PROVE  x \in todo' /\ listed'[x] # "none"
    <3>1. x \in live /\ x \in Services /\ app[x] = "session" /\ listed'[x] = listed[x]
      BY <1>2, <1>3, <2>2 DEF FastTypeOK
    <3>2. (x \in todo \/ x = run.at) /\ listed[x] # "none"
      BY <1>1, <2>2, <3>1 DEF FastInv, Prepared
    <3> QED
      BY <1>1, <1>3, <2>2, <3>1, <3>2
  <2> QED
    BY <1>1, <2>1, <2>2 DEF Prepared
<1>9. Restoring'
  BY <1>1, <1>3 DEF FastInv, Restoring, FastContainers, SameRun
<1> QED
  BY <1>4, <1>5, <1>6, <1>7, <1>8, <1>9 DEF FastInv

\* The next stage begins.
LEMMA StoppedKeeps ==
    ASSUME FastInv, Stopped
    PROVE  FastInv'
<1>1. /\ UNCHANGED <<ctr, app, late, rec, build, sess, run, live, entry, seen, listed, fails>>
      /\ pc = "stop" /\ todo = {} /\ todo' = live
      /\ pc' = IF run.kind = "restore" THEN "restore" ELSE IF run.noBuild THEN "launch" ELSE "mirror"
  BY DEF Stopped, engine, files, daemon, bounds, Goto
<1>2. FastTypeOK
  BY DEF FastInv
<1>3. FastTypeOK'
  BY <1>1, <1>2 DEF FastTypeOK, Stages, LaunchStages, RestoreStages
<1>4. AppsHaveSessions' /\ LateKept' /\ MountedKept'
  BY <1>1, RunOnly
<1>5. run.kind # "restore" => run.kind = "launch"
  BY <1>1, <1>2 DEF FastInv, StageOfRun, FastTypeOK, RunRecords
<1>6. StageOfRun'
  BY <1>1, <1>5 DEF FastInv, StageOfRun, LaunchStages, RestoreStages
<1>7. Prepared'
  BY <1>1, <1>5 DEF FastInv, Prepared
<1>8. Restoring'
  BY <1>1 DEF FastInv, Restoring, FastContainers
<1> QED
  BY <1>3, <1>4, <1>6, <1>7, <1>8 DEF FastInv

\* Files are replaced, from the first to the last or to one that fails.
LEMMA MirrorKeeps ==
    ASSUME FastInv, MirrorEnd \/ \E s \in Services : MirrorBegin(s)
    PROVE  FastInv'
<1>1. FastTypeOK /\ live \subseteq Services
  BY DEF FastInv, FastTypeOK
<1>2. /\ UNCHANGED <<ctr, app, late, rec, sess, entry, seen, listed>>
      /\ pc \in {"mirror", "mirroring"} /\ pc' \in {"mirror", "mirroring"}
      /\ live' \subseteq live /\ todo' \subseteq todo
  BY DEF MirrorBegin, MirrorEnd, MirrorFailed, engine, daemon, Goto
<1>3. run.kind = "launch" /\ todo \subseteq live /\ \A s \in live : app[s] # "session"
  BY <1>2 DEF FastInv, StageOfRun, LaunchStages, Prepared
<1>4. /\ build' \in [Services -> Builds]
      /\ \A s \in Services : build'[s] = "none" => build[s] = "none"
      /\ SameRun /\ fails' \in Nat /\ (fails' = 0 => fails = 0)
      /\ todo' \subseteq live'
      /\ pc' = "mirror" => \A s \in live' : s \notin todo' => build'[s] = "ok"
      /\ pc' = "mirroring" => /\ run'.at \in live' \ todo'
                              /\ \A s \in live' : s \notin todo' /\ s # run'.at => build'[s] = "ok"
  <2>1. "half" \in Builds /\ "ok" \in Builds /\ build \in [Services -> Builds]
    BY <1>1 DEF Builds, FastTypeOK
  <2>2. ASSUME NEW s \in Services, MirrorBegin(s), build' = [build EXCEPT ![s] = "half"],
               run' = [run EXCEPT !.at = s], pc' = "mirroring", UNCHANGED <<live, fails>>
        PROVE  <1>4!:
    <3>1. pc = "mirror" /\ s \in todo /\ todo' = todo \ {s}
      BY <2>2 DEF MirrorBegin
    <3>2. run' \in RunRecords
      BY <1>1, <2>2 DEF FastTypeOK, RunRecords
    <3>3. /\ run'.kind = run.kind /\ run'.noBuild = run.noBuild /\ run'.all = run.all
          /\ run'.upFailed = run.upFailed /\ run'.keepProject = run.keepProject
          /\ run'.clean = run.clean /\ run'.at = s
      BY <1>1, <2>2 DEF FastTypeOK, RunRecords
    <3>4. SameRun /\ fails' \in Nat /\ fails' = fails
      BY <1>1, <2>2, <3>2, <3>3 DEF SameRun, FastTypeOK
    <3>5. \A x \in live : x \notin todo => build[x] = "ok"
      BY <3>1 DEF FastInv, Prepared
    <3>6. /\ build' \in [Services -> Builds] /\ build'[s] = "half"
          /\ \A x \in Services : x # s => build'[x] = build[x]
      BY <2>1, <2>2
    <3> QED
      BY <1>1, <1>3, <2>2, <3>1, <3>3, <3>4, <3>5, <3>6
  <2>3. ASSUME NEW s \in Services, MirrorBegin(s), Lose({s}), live' = live \ {s}, UNCHANGED <<build, pc>>
        PROVE  <1>4!:
    <3>1. pc = "mirror" /\ s \in todo /\ todo' = todo \ {s}
      BY <2>3 DEF MirrorBegin
    <3>2. SameRun /\ fails' \in Nat /\ (fails' = 0 => fails = 0)
      BY <1>1, <2>3, LoseFacts
    <3>3. \A x \in live : x \notin todo => build[x] = "ok"
      BY <3>1 DEF FastInv, Prepared
    <3> QED
      BY <1>3, <2>1, <2>3, <3>1, <3>2, <3>3
  <2>4. ASSUME MirrorEnd
        PROVE  <1>4!:
    <3>1. /\ pc = "mirroring" /\ pc' = "mirror" /\ todo' = todo
          /\ run.at \in live \ todo /\ run.at \in Services
          /\ \A s \in live : s \notin todo /\ s # run.at => build[s] = "ok"
      BY <1>1, <2>4 DEF MirrorEnd, FastInv, Prepared, Goto
    <3>2. CASE build' = [build EXCEPT ![run.at] = "ok"] /\ UNCHANGED <<live, fails, run>>
      <4>1. SameRun /\ fails' \in Nat
        BY <1>1, <3>2 DEF SameRun, FastTypeOK
      <4>2. /\ build' \in [Services -> Builds] /\ build'[run.at] = "ok"
            /\ \A x \in Services : x # run.at => build'[x] = build[x]
        BY <2>1, <3>1, <3>2
      <4> QED
        BY <1>1, <1>3, <3>1, <3>2, <4>1, <4>2
    <3>3. CASE Lose({run.at}) /\ live' = live \ {run.at} /\ UNCHANGED build
      <4>1. SameRun /\ fails' \in Nat /\ (fails' = 0 => fails = 0)
        BY <1>1, <3>3, LoseFacts
      <4>2. todo \subseteq live \ {run.at}
        BY <1>3, <3>1
      <4> QED
        BY <1>3, <2>1, <3>1, <3>3, <4>1, <4>2
    <3> QED
      BY <2>4, <3>2, <3>3 DEF MirrorEnd, MirrorFailed
  <2> QED
    BY <2>2, <2>3, <2>4 DEF MirrorBegin, Goto
<1>5. FastTypeOK'
  BY <1>1, <1>2, <1>4 DEF FastTypeOK, SameRun, Stages, LaunchStages
<1>6. StageOfRun' /\ Restoring'
  BY <1>2, <1>3, <1>4 DEF StageOfRun, Restoring, SameRun, RestoreStages
<1>7. AppsHaveSessions' /\ LateKept' /\ MountedKept'
  BY <1>1, <1>2, <1>4 DEF FastInv, FastTypeOK, AppsHaveSessions, LateKept, MountedKept, FastContainers, SameRun
<1>8. Prepared'
  BY <1>2, <1>3, <1>4 DEF Prepared
<1> QED
  BY <1>5, <1>6, <1>7, <1>8 DEF FastInv

\* The override is written, or the entering services are out of the run.
LEMMA WriteOverrideKeeps ==
    ASSUME FastInv, WriteOverride
    PROVE  FastInv'
<1>1. FastTypeOK /\ live \subseteq Services /\ Entering \subseteq live
  BY DEF FastInv, FastTypeOK, Entering
<1>2. /\ UNCHANGED <<ctr, app, late, build, sess, entry, seen, listed>> /\ pc = "mirror" /\ todo = {}
  BY DEF WriteOverride, engine, daemon
<1>3. run.kind = "launch" /\ \A s \in live : build[s] = "ok"
  BY <1>2 DEF FastInv, StageOfRun, LaunchStages, Prepared
<1>4. /\ SameRun /\ fails' \in Nat /\ (fails' = 0 => fails = 0)
      /\ live' \subseteq live /\ rec' \subseteq Services
      /\ fails' = 0 => \A s \in FastContainers : s \in rec'
      /\ pc' \in {"up", "launch"} /\ (pc' = "up" => Entering' \subseteq rec' /\ todo' = todo)
      /\ pc' = "launch" => todo' = live'
  <2>0. fails = 0 => \A s \in FastContainers : s \in rec
    BY DEF FastInv, MountedKept
  <2>1. CASE pc' = "launch" /\ todo' = live /\ UNCHANGED <<rec, live, fails, run>>
    <3>1. SameRun /\ fails' \in Nat /\ rec \subseteq Services
      BY <1>1, <2>1 DEF SameRun, FastTypeOK
    <3> QED
      BY <2>0, <2>1, <3>1
  <2>2. ASSUME NEW lost, lost \subseteq StayingFragments(Entering), Lose(lost),
               rec' = Entering \cup (StayingFragments(Entering) \ lost), pc' = "up", UNCHANGED <<live, todo>>
        PROVE  <1>4!:
    <3>1. SameRun /\ fails' \in Nat /\ (fails' = 0 => fails = 0 /\ lost = {})
      BY <1>1, <2>2, LoseFacts
    <3>2. StayingFragments(Entering) \subseteq Services
      BY DEF StayingFragments, FastContainers
    <3>3. ASSUME NEW s \in FastContainers, fails = 0, s \notin Entering
          PROVE  s \in StayingFragments(Entering)
      <4>1. s \in rec /\ build[s] # "none" /\ ctr[s] = "fast"
        BY <3>3 DEF FastInv, MountedKept, FastContainers
      <4> QED
        BY <3>3, <4>1 DEF StayingFragments, RecordedFast, Recorded
    <3>4. Entering' = Entering
      BY <1>2, <2>2 DEF Entering
    <3> QED
      BY <1>1, <2>2, <3>1, <3>2, <3>3, <3>4
  <2>3. CASE Lose(Entering) /\ live' = live \ Entering /\ pc' = "launch" /\ todo' = live' /\ rec' = rec
    <3>1. SameRun /\ fails' \in Nat /\ (fails' = 0 => fails = 0) /\ rec \subseteq Services
      BY <1>1, <2>3, LoseFacts DEF FastTypeOK
    <3> QED
      BY <2>0, <2>3, <3>1
  <2> QED
    BY <2>1, <2>2, <2>3 DEF WriteOverride, DockerFails, Goto
<1>5. FastTypeOK'
  BY <1>1, <1>2, <1>4 DEF FastTypeOK, SameRun, Stages, LaunchStages
<1>6. StageOfRun' /\ Restoring'
  BY <1>3, <1>4 DEF StageOfRun, Restoring, SameRun, RestoreStages
<1>7. AppsHaveSessions' /\ LateKept'
  BY <1>2, <1>4 DEF FastInv, AppsHaveSessions, LateKept, SameRun
<1>8. MountedKept'
  BY <1>2, <1>4 DEF FastInv, MountedKept, FastContainers
<1>9. Prepared'
  BY <1>2, <1>3, <1>4 DEF Prepared
<1> QED
  BY <1>5, <1>6, <1>7, <1>8, <1>9 DEF FastInv

\* The entering services are recreated.
LEMMA UpKeeps ==
    ASSUME FastInv, Up
    PROVE  FastInv'
<1>1. FastTypeOK /\ Entering \subseteq live /\ Entering \in SUBSET Services /\ "fast" \in {"built", "fast"}
  BY DEF FastInv, FastTypeOK, Entering
<1>2. PICK failed \in SUBSET Entering : ComposeUp(Entering, failed, "fast") /\ late' = failed
  BY DEF Up
<1>3. pc = "up" /\ pc' = "refresh" /\ UNCHANGED <<rec, build, todo, entry>>
  BY DEF Up, Goto, files
<1>4. run.kind = "launch" /\ Entering \subseteq rec /\ \A s \in live : build[s] = "ok"
  BY <1>3 DEF FastInv, StageOfRun, LaunchStages, Prepared
<1>s. PICK S : S = Entering
  OBVIOUS
<1>5. S \in SUBSET Services /\ failed \in SUBSET S /\ ComposeUp(S, failed, "fast")
  BY <1>1, <1>2, <1>s
<1>u. UpDone(S, failed, "fast")
  BY <1>1, <1>5, ComposeUpFacts
<1>6. /\ run' \in RunRecords /\ run'.kind = run.kind /\ (failed # {} => run'.upFailed)
      /\ fails' \in Nat /\ (fails' = 0 => fails = 0 /\ failed = {}) /\ live' = live \ failed
      /\ ctr' \in [Services -> Ctrs] /\ app' \in [Services -> Apps] /\ sess' \in [Services -> Sessions]
      /\ seen' \subseteq Services /\ listed' \in [Services -> Sessions]
      /\ \A s \in Services : s \notin S => ctr'[s] = ctr[s] /\ app'[s] = app[s] /\ sess'[s] = sess[s]
      /\ \A s \in Services : app'[s] = "session" =>
            app[s] = "session" /\ ctr'[s] = ctr[s] /\ sess'[s] = sess[s]
  BY <1>u DEF UpDone
<1>7. FastTypeOK'
  <2>1. failed \subseteq Services
    BY <1>1, <1>2
  <2> QED
    BY <1>1, <1>2, <1>3, <1>6, <2>1 DEF FastTypeOK, Stages, LaunchStages
<1>8. StageOfRun' /\ Restoring'
  BY <1>3, <1>4, <1>6 DEF StageOfRun, Restoring, RestoreStages
<1>9. AppsHaveSessions'
  BY <1>6 DEF FastInv, AppsHaveSessions
<1>10. LateKept'
  BY <1>1, <1>2, <1>3, <1>4, <1>6 DEF LateKept
<1>11. MountedKept'
  <2>1. ASSUME NEW s \in Services, ctr'[s] = "fast"
        PROVE  build[s] # "none" /\ (fails = 0 => s \in rec)
    <3>1. CASE s \in S
      BY <1>1, <1>4, <1>s, <3>1
    <3>2. CASE s \notin S
      BY <1>6, <2>1, <3>2 DEF FastInv, MountedKept, FastContainers
    <3> QED
      BY <3>1, <3>2
  <2> QED
    BY <1>3, <1>6, <2>1 DEF MountedKept, FastContainers
<1>12. Prepared'
  BY <1>3, <1>4, <1>6 DEF Prepared
<1> QED
  BY <1>7, <1>8, <1>9, <1>10, <1>11, <1>12 DEF FastInv

\* The new containers are read, and the launching begins.
LEMMA RefreshKeeps ==
    ASSUME FastInv, Refresh
    PROVE  FastInv'
<1>1. FastTypeOK /\ Entering \subseteq Services
  BY DEF FastInv, FastTypeOK, Entering
<1>2. /\ UNCHANGED <<ctr, app, late, rec, build, sess, entry, listed>>
      /\ pc = "refresh" /\ pc' = "launch" /\ live' \subseteq live /\ todo' = live'
      /\ seen' = seen \cup Entering /\ \E lost : Lose(lost)
  BY DEF Refresh, DockerFails, engine, files, daemon, Goto
<1>3. run.kind = "launch" /\ \A s \in live : build[s] = "ok"
  BY <1>2 DEF FastInv, StageOfRun, LaunchStages, Prepared
<1>4. SameRun /\ fails' \in Nat /\ (fails' = 0 => fails = 0)
  BY <1>1, <1>2, LoseFacts
<1>5. FastTypeOK'
  BY <1>1, <1>2, <1>4 DEF FastTypeOK, SameRun, Stages, LaunchStages
<1>6. StageOfRun' /\ Restoring'
  BY <1>2, <1>3, <1>4 DEF StageOfRun, Restoring, SameRun, RestoreStages
<1>7. AppsHaveSessions' /\ LateKept' /\ MountedKept'
  BY <1>2, <1>4, RunOnly DEF SameRun
<1>8. Prepared'
  BY <1>2, <1>3 DEF Prepared
<1> QED
  BY <1>5, <1>6, <1>7, <1>8 DEF FastInv

\* An app is launched, or its service is out of the run.
LEMMA LaunchKeeps ==
    ASSUME FastInv, NEW s \in Services, Launch(s)
    PROVE  FastInv'
<1>1. FastTypeOK
  BY DEF FastInv
<1>2. UNCHANGED <<ctr, late, rec, build, pc, entry, seen, listed>> /\ pc = "launch" /\ todo' = todo \ {s}
  BY DEF Launch, files
<1>3. run.kind = "launch" /\ todo \subseteq live /\ (run.noBuild \/ \A x \in live : build[x] = "ok")
  BY <1>2 DEF FastInv, StageOfRun, LaunchStages, Prepared
<1>4. /\ app' \in [Services -> Apps] /\ sess' \in [Services -> Sessions]
      /\ AppsHaveSessions'
      /\ SameRun /\ fails' \in Nat /\ (fails' = 0 => fails = 0)
      /\ live' \subseteq live /\ todo' \subseteq live'
  <2>1. CASE (\E topFails \in BOOLEAN : LaunchMember(s, topFails)) /\ UNCHANGED <<live, run>>
    <3>1. /\ sess' = [sess EXCEPT ![s] = "launched"] /\ app' = [app EXCEPT ![s] = "session"]
          /\ ctr[s] = "fast" /\ "launched" \in Sessions /\ "session" \in Apps
          /\ fails' = fails \/ fails' = fails + 1
      BY <2>1 DEF LaunchMember, Launchable, Sessions, Apps
    <3>2. /\ app' \in [Services -> Apps] /\ sess' \in [Services -> Sessions]
          /\ sess'[s] = "launched" /\ \A x \in Services : x # s => app'[x] = app[x] /\ sess'[x] = sess[x]
      BY <1>1, <3>1 DEF FastTypeOK
    <3>3. AppsHaveSessions'
      BY <1>2, <3>1, <3>2 DEF FastInv, AppsHaveSessions
    <3>4. SameRun /\ fails' \in Nat /\ (fails' = 0 => fails = 0)
      BY <1>1, <2>1, <3>1 DEF SameRun, FastTypeOK
    <3> QED
      BY <1>2, <1>3, <2>1, <3>2, <3>3, <3>4
  <2>2. CASE live' = live \ {s} /\ UNCHANGED <<app, sess>> /\ (UNCHANGED <<fails, run>> \/ Lose({s}))
    <3>1. SameRun /\ fails' \in Nat /\ (fails' = 0 => fails = 0)
      BY <1>1, <2>2, LoseFacts DEF SameRun, FastTypeOK
    <3>2. AppsHaveSessions'
      BY <1>2, <2>2 DEF FastInv, AppsHaveSessions
    <3> QED
      BY <1>1, <1>2, <1>3, <2>2, <3>1, <3>2 DEF FastTypeOK
  <2> QED
    BY <2>1, <2>2 DEF Launch, AdapterFails, daemon
<1>5. FastTypeOK'
  BY <1>1, <1>2, <1>4 DEF FastTypeOK, SameRun
<1>6. StageOfRun' /\ Restoring'
  BY <1>2, <1>3, <1>4 DEF StageOfRun, Restoring, SameRun, RestoreStages
<1>7. LateKept' /\ MountedKept'
  BY <1>2, <1>4 DEF FastInv, LateKept, MountedKept, FastContainers, SameRun
<1>8. Prepared'
  BY <1>2, <1>3, <1>4 DEF Prepared, SameRun
<1> QED
  BY <1>4, <1>5, <1>6, <1>7, <1>8 DEF FastInv

\* A restore reads the containers and the sessions.
LEMMA InspectKeeps ==
    ASSUME FastInv, InspectAndList
    PROVE  FastInv'
<1>1. FastTypeOK
  BY DEF FastInv
<1>2. /\ UNCHANGED <<ctr, app, late, rec, build, sess, entry, seen>>
      /\ pc = "inspect" /\ pc' = "stop" /\ todo' = live' /\ listed' = sess
  BY DEF InspectAndList, engine, files, daemon, Goto
<1>3. PICK lost : Lose(lost) /\ live' = {s \in live \ lost : Inspectable(s)}
  BY DEF InspectAndList, InspectFails
<1>4. run.kind = "restore"
  BY <1>2 DEF FastInv, StageOfRun, RestoreStages
<1>5. SameRun /\ (run'.clean => lost = {}) /\ fails' \in Nat /\ (fails' = 0 => fails = 0)
  BY <1>1, <1>3, LoseFacts
<1>6. FastTypeOK'
  BY <1>1, <1>2, <1>3, <1>5 DEF FastTypeOK, SameRun, Stages
<1>7. AppsHaveSessions' /\ LateKept' /\ MountedKept'
  BY <1>2, <1>5, RunOnly DEF SameRun
<1>8. StageOfRun' /\ Prepared'
  BY <1>2, <1>4, <1>5 DEF FastInv, StageOfRun, Prepared, SameRun, LaunchStages, RestoreStages
<1>9. Restoring'
  <2>1. ASSUME run'.all, run'.clean
        PROVE  FastContainers \subseteq live'
    <3>1. FastContainers \subseteq live /\ live \subseteq seen /\ lost = {}
      BY <1>2, <1>4, <1>5, <2>1 DEF FastInv, Restoring, SameRun
    <3> QED
      BY <1>3, <3>1 DEF FastContainers, Inspectable
  <2> QED
    BY <1>2, <2>1 DEF Restoring, FastContainers
<1> QED
  BY <1>6, <1>7, <1>8, <1>9 DEF FastInv

\* What is restored is recreated as built.
LEMMA UpAsBuiltKeeps ==
    ASSUME FastInv, UpAsBuilt
    PROVE  FastInv'
<1>1. FastTypeOK /\ live \subseteq Services /\ "built" \in {"built", "fast"}
  BY DEF FastInv, FastTypeOK
<1>2. PICK S, failed : S = live /\ failed \in SUBSET live /\ ComposeUp(live, failed, "built")
  BY DEF UpAsBuilt
<1>3. pc = "restore" /\ pc' = "rewrite" /\ UNCHANGED <<late, rec, build, todo, entry>>
  BY DEF UpAsBuilt, Goto, files
<1>4. run.kind = "restore" /\ late = {} /\ ~run.keepProject
  BY <1>3 DEF FastInv, StageOfRun, RestoreStages, LateKept
<1>5. S \in SUBSET Services /\ failed \in SUBSET S /\ ComposeUp(S, failed, "built")
  BY <1>1, <1>2
<1>u. UpDone(S, failed, "built")
  BY <1>1, <1>5, ComposeUpFacts
<1>6. /\ run' \in RunRecords /\ run'.kind = run.kind /\ run'.all = run.all
      /\ run'.keepProject = run.keepProject
      /\ (run'.clean => run.clean /\ failed = {}) /\ (run'.upFailed => failed # {})
      /\ fails' \in Nat /\ (fails' = 0 => fails = 0) /\ live' = live \ failed
      /\ ctr' \in [Services -> Ctrs] /\ app' \in [Services -> Apps] /\ sess' \in [Services -> Sessions]
      /\ seen' \subseteq Services /\ listed' \in [Services -> Sessions]
      /\ \A s \in Services : s \notin S => ctr'[s] = ctr[s]
      /\ \A s \in S \ failed : ctr'[s] = "built"
      /\ \A s \in S : ctr'[s] \in {ctr[s], "built", "gone"}
      /\ \A s \in Services : app'[s] = "session" =>
            app[s] = "session" /\ ctr'[s] = ctr[s] /\ sess'[s] = sess[s]
  BY <1>u DEF UpDone
<1>7. FastTypeOK'
  BY <1>1, <1>3, <1>6 DEF FastTypeOK, Stages, RestoreStages
<1>8. StageOfRun' /\ Prepared'
  BY <1>3, <1>4, <1>6 DEF StageOfRun, Prepared, LaunchStages, RestoreStages
<1>9. AppsHaveSessions' /\ LateKept'
  BY <1>3, <1>4, <1>6 DEF FastInv, AppsHaveSessions, LateKept
<1>10. MountedKept'
  <2>1. \A s \in Services : ctr'[s] = "fast" => ctr[s] = "fast"
    BY <1>6
  <2> QED
    BY <1>3, <1>6, <2>1 DEF FastInv, MountedKept, FastContainers
<1>11. Restoring'
  <2>1. ASSUME run'.all, run'.clean
        PROVE  FastContainers' = {} /\ ~run'.upFailed
    <3>1. FastContainers \subseteq live /\ failed = {}
      BY <1>3, <1>4, <1>6, <2>1 DEF FastInv, Restoring
    <3> QED
      BY <1>2, <1>6, <3>1 DEF FastContainers
  <2> QED
    BY <1>3, <2>1 DEF Restoring
<1> QED
  BY <1>7, <1>8, <1>9, <1>10, <1>11 DEF FastInv

\* The override, after a restore.
LEMMA RewriteKeeps ==
    ASSUME FastInv, RewriteOverride
    PROVE  FastInv'
<1>1. FastTypeOK
  BY DEF FastInv
<1>2. /\ UNCHANGED <<ctr, app, late, build, sess, live, todo, entry, seen, listed>>
      /\ pc = "rewrite" /\ pc' = "finish"
  BY DEF RewriteOverride, engine, daemon, stage, Goto
<1>3. PICK lost : Lose(lost) /\ (rec' = rec \/ rec' = StayingFragments({}) \ lost)
  BY DEF RewriteOverride
<1>4. run.kind = "restore"
  BY <1>2 DEF FastInv, StageOfRun, RestoreStages
<1>5. SameRun /\ fails' \in Nat /\ (fails' = 0 => fails = 0 /\ lost = {})
  BY <1>1, <1>3, LoseFacts
<1>6. StayingFragments({}) \subseteq Services
  BY DEF StayingFragments, FastContainers
<1>7. FastTypeOK'
  BY <1>1, <1>2, <1>3, <1>5, <1>6 DEF FastTypeOK, SameRun, Stages
<1>8. StageOfRun' /\ Prepared'
  BY <1>2, <1>4, <1>5 DEF FastInv, StageOfRun, Prepared, SameRun, LaunchStages, RestoreStages
<1>9. AppsHaveSessions' /\ LateKept'
  BY <1>2, <1>5 DEF FastInv, AppsHaveSessions, LateKept, SameRun
<1>10. MountedKept'
  <2>1. ASSUME fails' = 0, NEW s \in FastContainers
        PROVE  s \in rec'
    <3>1. s \in rec /\ build[s] # "none" /\ ctr[s] = "fast" /\ lost = {}
      BY <1>5, <2>1 DEF FastInv, MountedKept, FastContainers
    <3>2. s \in StayingFragments({})
      BY <2>1, <3>1 DEF StayingFragments, RecordedFast, Recorded
    <3> QED
      BY <1>3, <3>1, <3>2
  <2> QED
    BY <1>2, <2>1 DEF FastInv, MountedKept, FastContainers
<1>11. Restoring'
  BY <1>2, <1>5 DEF FastInv, Restoring, FastContainers, SameRun
<1> QED
  BY <1>7, <1>8, <1>9, <1>10, <1>11 DEF FastInv

\* The launching is over, or the run is, or it is killed.
LEMMA EndsKeep ==
    ASSUME FastInv, Launched \/ Finish \/ Kill
    PROVE  FastInv'
<1>1. FastTypeOK
  BY DEF FastInv
<1>2. UNCHANGED <<ctr, app, sess, live, todo, entry, seen, listed>>
  BY DEF Launched, Finish, Kill, engine, daemon, stage
<1>3. CASE Launched
  <2>1. /\ UNCHANGED <<late, rec, build, run, fails>> /\ pc = "launch" /\ pc' = "finish"
    BY <1>3 DEF Launched, engine, files, bounds, Goto
  <2>2. FastTypeOK'
    BY <1>1, <1>2, <2>1 DEF FastTypeOK, Stages
  <2>3. AppsHaveSessions' /\ LateKept' /\ MountedKept'
    BY <1>2, <2>1, RunOnly
  <2>4. run.kind = "launch"
    BY <2>1 DEF FastInv, StageOfRun, LaunchStages
  <2>5. StageOfRun' /\ Prepared' /\ Restoring'
    BY <2>1, <2>4 DEF StageOfRun, Prepared, Restoring, LaunchStages, RestoreStages
  <2> QED
    BY <2>2, <2>3, <2>5 DEF FastInv
<1>4. CASE Finish \/ Kill
  <2>1. run' = NoRun /\ pc' = "idle"
    BY <1>4 DEF Finish, Kill, Goto
  <2>2. run' \in RunRecords /\ run'.kind = "none"
    BY <2>1 DEF NoRun, RunRecords
  <2>3. StageOfRun' /\ Prepared' /\ Restoring'
    BY <2>1, <2>2 DEF StageOfRun, Prepared, Restoring, LaunchStages, RestoreStages
  <2>4. AppsHaveSessions'
    BY <1>2 DEF FastInv, AppsHaveSessions
  <2>5. CASE Finish
    <3>1. late' = late /\ pc = "finish"
      BY <2>5 DEF Finish, engine
    <3>2. fails' \in Nat /\ (fails' = 0 => fails = 0)
      BY <1>1, <2>5 DEF Finish, FastTypeOK
    <3>3. \/ UNCHANGED <<rec, build>>
          \/ /\ PruneDue /\ build' = PruneServices
             /\ rec' = IF FastContainers = {} /\ ~run.keepProject THEN {} ELSE rec
      BY <2>5 DEF Finish, files
    <3>4. late # {} => ~PruneDue
      BY <3>1 DEF FastInv, LateKept, PruneDue
    <3>5. FastTypeOK'
      BY <1>1, <1>2, <2>1, <2>2, <3>1, <3>2, <3>3 DEF FastTypeOK, Stages, PruneServices, Builds
    <3>6. LateKept'
      BY <2>1, <2>2, <3>1, <3>2, <3>3, <3>4 DEF FastInv, LateKept
    <3>7. MountedKept'
      <4>1. \A s \in FastContainers : build'[s] = build[s] /\ (s \in rec => s \in rec')
        BY <3>3 DEF PruneServices, FastContainers
      <4> QED
        BY <1>2, <3>2, <4>1 DEF FastInv, MountedKept, FastContainers
    <3> QED
      BY <2>3, <2>4, <3>5, <3>6, <3>7 DEF FastInv
  <2>6. CASE Kill
    <3>1. /\ UNCHANGED <<rec, build>> /\ fails' = fails + 1
          /\ late' = late \/ (pc = "up" /\ late' = Entering)
      BY <2>6 DEF Kill, files
    <3>2. fails' \in Nat /\ fails' # 0 /\ Entering \subseteq live /\ live \subseteq Services
      BY <1>1, <3>1 DEF FastTypeOK, Entering
    <3>3. \A s \in late' : build[s] # "none"
      BY <3>1, <3>2 DEF FastInv, LateKept, Prepared
    <3>4. FastTypeOK'
      BY <1>1, <1>2, <2>1, <2>2, <3>1, <3>2 DEF FastTypeOK, Stages
    <3>5. LateKept' /\ MountedKept'
      BY <1>2, <2>1, <2>2, <3>1, <3>2, <3>3 DEF FastInv, LateKept, MountedKept, FastContainers
    <3> QED
      BY <2>3, <2>4, <3>4, <3>5 DEF FastInv
  <2> QED
    BY <1>4, <2>5, <2>6
<1> QED
  BY <1>3, <1>4

\* FastInv holds at first.
LEMMA FastInit == Init => FastInv
<1> SUFFICES ASSUME Init PROVE FastInv
  OBVIOUS
<1>1. /\ ctr = [s \in Services |-> "built"] /\ app = [s \in Services |-> "none"] /\ late = {} /\ rec = {}
      /\ build = [s \in Services |-> "none"] /\ sess = [s \in Services |-> "none"]
      /\ listed = [s \in Services |-> "none"]
      /\ pc = "idle" /\ run = NoRun /\ live = {} /\ todo = {} /\ entry = {} /\ seen = {} /\ fails = 0
  BY DEF Init
<1>2. run \in RunRecords /\ run.kind = "none"
  BY <1>1 DEF NoRun, RunRecords
<1>3. FastTypeOK
  BY <1>1, <1>2 DEF FastTypeOK, Ctrs, Apps, Builds, Sessions, Stages
<1>4. StageOfRun /\ Prepared /\ Restoring
  BY <1>1, <1>2 DEF StageOfRun, Prepared, Restoring, LaunchStages, RestoreStages
<1>5. AppsHaveSessions /\ LateKept /\ MountedKept
  BY <1>1, <1>2 DEF AppsHaveSessions, LateKept, MountedKept, FastContainers
<1> QED
  BY <1>3, <1>4, <1>5 DEF FastInv

\* Every step keeps it.
LEMMA FastNext ==
    ASSUME FastInv, [Next]_vars
    PROVE  FastInv'
<1>1. CASE UNCHANGED vars
  <2>1. UNCHANGED <<ctr, app, late, rec, build, sess, bps, pc, run, live, todo, entry, seen, listed, carry, fails>>
    BY <1>1 DEF vars, engine, files, daemon, stage, bounds
  <2>2. FastTypeOK' /\ StageOfRun' /\ AppsHaveSessions' /\ LateKept'
    BY <2>1 DEF FastInv, FastTypeOK, StageOfRun, AppsHaveSessions, LateKept
  <2>3. Prepared' /\ Restoring' /\ MountedKept'
    BY <2>1 DEF FastInv, Prepared, Restoring, MountedKept, FastContainers, Entering
  <2> QED
    BY <2>2, <2>3 DEF FastInv
<1>2. CASE \E s \in Services :
              \/ \E to \in {"built", "gone"} : UserRecreates(s, to)
              \/ Land(s) \/ Attach(s) \/ BpAdd(s) \/ BpRemove(s)
              \/ \E stray \in BOOLEAN : SessionEnds(s, stray)
  BY <1>2, UserKeeps, LandKeeps, SessionsKeep
<1>3. CASE \E s \in Services : CarryAndStop(s) \/ MirrorBegin(s) \/ Launch(s)
  BY <1>3, CarryAndStopKeeps, MirrorKeeps, LaunchKeeps
<1>4. CASE \E names \in SUBSET Services \ {{}} :
              (\E noBuild \in NoBuilds : BeginLaunch(names, noBuild)) \/ BeginRestore(names)
  BY <1>4, BeginKeeps
<1>5. CASE Classify \/ Settle \/ ResolveProjects \/ Build \/ Connect
  BY <1>5, LaunchHead
<1>6. CASE StopSession \/ Stopped \/ MirrorEnd \/ WriteOverride \/ Up \/ Refresh
  BY <1>6, StopSessionKeeps, StoppedKeeps, MirrorKeeps, WriteOverrideKeeps, UpKeeps, RefreshKeeps
<1>7. CASE InspectAndList \/ UpAsBuilt \/ RewriteOverride
  BY <1>7, InspectKeeps, UpAsBuiltKeeps, RewriteKeeps
<1>8. CASE Launched \/ Finish \/ Kill
  BY <1>8, EndsKeep
<1> QED
  BY <1>1, <1>2, <1>3, <1>4, <1>5, <1>6, <1>7, <1>8 DEF Next

\* The inductive invariant of fast mode.
THEOREM FastKept == Spec => []FastInv
<1>1. FastInv /\ [Next]_vars => FastInv'
  BY FastNext
<1> QED
  BY <1>1, FastInit, PTL DEF Spec

\* A container in fast mode has its build, and as long as nothing failed the
\* override records it, for any services, runs, failures and kills
\* (PruneServices, rewriteOverride, stayingFragments).
THEOREM MountsKept == Spec => []MountedKept
<1>1. FastInv => MountedKept
  BY DEF FastInv
<1> QED
  BY <1>1, FastKept, PTL

----------------------------------------------------------------------------
\* Breakpoints that are to be read or were: those of a listed session are
\* there, as long as it has not ended; what was read is carried.
CarryTypeOK ==
    /\ bps \in [Services -> BOOLEAN] /\ carry \in [Services -> BOOLEAN] /\ had \subseteq Services
    /\ listed \in [Services -> Sessions] /\ user \in Nat
CarryStages == {"stop", "stopping", "mirror", "mirroring", "up", "refresh", "launch"}
CarryInv ==
    /\ CarryTypeOK
    /\ \A s \in Services : listed[s] # "none" => sess[s] # "none"
    /\ pc \in CarryStages /\ run.kind = "launch" =>
          \A s \in had : IF pc \in {"stop", "stopping"} /\ s \in todo
                         THEN listed[s] # "none" => bps[s] ELSE carry[s]

\* The types of what is carried are kept.
LEMMA CarryTypes ==
    ASSUME FastInv, CarryTypeOK, [Next]_vars
    PROVE  CarryTypeOK'
<1>0. /\ bps \in [Services -> BOOLEAN] /\ carry \in [Services -> BOOLEAN] /\ had \subseteq Services
      /\ listed \in [Services -> Sessions] /\ user \in Nat /\ "none" \in Sessions
      /\ sess \in [Services -> Sessions] /\ live \subseteq Services
  BY DEF CarryTypeOK, Sessions, FastInv, FastTypeOK
<1>1. CASE UNCHANGED <<bps, carry, had, listed, user>>
  BY <1>1 DEF CarryTypeOK
<1>2. ASSUME NEW R, NEW to, Recreate(R, to), UNCHANGED <<carry, had>>, user' = user \/ user' = user + 1
      PROVE  CarryTypeOK'
  BY <1>0, <1>2 DEF Recreate, CarryTypeOK
<1>3. CASE \E s \in Services : (\E to \in {"built", "gone"} : UserRecreates(s, to)) \/ Land(s)
  BY <1>2, <1>3 DEF UserRecreates, Land, bounds
<1>4. CASE \E s \in Services : Attach(s) \/ BpAdd(s) \/ BpRemove(s)
  BY <1>0, <1>4 DEF Attach, BpAdd, BpRemove, stage, bounds, CarryTypeOK
<1>5. ASSUME NEW s, NEW left, EndSession(s, left), UNCHANGED <<carry, had, user>>
      PROVE  CarryTypeOK'
  BY <1>0, <1>5 DEF EndSession, CarryTypeOK
<1>6. CASE StopSession \/ \E s \in Services : \E stray \in BOOLEAN : SessionEnds(s, stray)
  BY <1>1, <1>5, <1>6 DEF StopSession, SessionEnds, daemon
<1>7. CASE \E s \in Services : CarryAndStop(s)
  BY <1>0, <1>7 DEF CarryAndStop, Capture, daemon, CarryTypeOK
<1>8. CASE \E s \in Services : Launch(s)
  <2>1. PICK s \in Services : Launch(s)
    BY <1>8
  <2>2. UNCHANGED <<carry, had, listed>>
    BY <2>1 DEF Launch
  <2>3. /\ bps' = bps \/ bps' = [bps EXCEPT ![s] = carry[s]] \/ bps' = [bps EXCEPT ![s] = FALSE]
        /\ user' = user \/ user' = user + 1
    BY <2>1 DEF Launch, LaunchMember, daemon
  <2>4. carry[s] \in BOOLEAN
    BY <1>0
  <2>5. bps' \in [Services -> BOOLEAN]
    BY <1>0, <2>3, <2>4
  <2>6. user' \in Nat
    BY <1>0, <2>3
  <2> QED
    BY <1>0, <2>2, <2>5, <2>6 DEF CarryTypeOK
<1>9. CASE \E names \in SUBSET Services \ {{}} :
              (\E noBuild \in NoBuilds : BeginLaunch(names, noBuild)) \/ BeginRestore(names)
  <2>1. /\ UNCHANGED <<bps, user>> /\ had' = {}
        /\ listed' = [s \in Services |-> "none"] /\ carry' = [s \in Services |-> FALSE]
    BY <1>9 DEF BeginLaunch, BeginRestore, TakeLock, daemon
  <2> QED
    BY <1>0, <2>1 DEF CarryTypeOK
<1>10. CASE Connect \/ InspectAndList
  BY <1>0, <1>10 DEF Connect, InspectAndList, daemon, CarryTypeOK
<1>11. CASE Classify \/ Settle \/ ResolveProjects \/ Build \/ Stopped \/ \E s \in Services : MirrorBegin(s)
  BY <1>1, <1>11 DEF Classify, Settle, ResolveProjects, Build, Stopped, MirrorBegin, daemon, bounds
<1>12. CASE MirrorEnd \/ WriteOverride \/ Refresh \/ Launched \/ RewriteOverride \/ Finish \/ Kill
  BY <1>1, <1>12 DEF MirrorEnd, WriteOverride, Refresh, Launched, RewriteOverride, Finish, Kill, daemon, stage, bounds
<1>13. CASE Up \/ UpAsBuilt
  BY <1>2, <1>13 DEF Up, UpAsBuilt, ComposeUp
<1>14. CASE UNCHANGED vars
  BY <1>1, <1>14 DEF vars, daemon, stage, bounds
<1> QED
  BY <1>3, <1>4, <1>6, <1>7, <1>8, <1>9, <1>10, <1>11, <1>12, <1>13, <1>14 DEF Next

\* A listed session that has not ended is there.
LEMMA ListedThere ==
    ASSUME FastInv, CarryInv, [Next]_vars, NEW s \in Services, listed'[s] # "none"
    PROVE  sess'[s] # "none"
<1>0. /\ listed \in [Services -> Sessions] /\ sess \in [Services -> Sessions]
      /\ listed[s] # "none" => sess[s] # "none"
  BY DEF CarryInv, CarryTypeOK, FastInv, FastTypeOK
<1>1. CASE UNCHANGED <<sess, listed>>
  BY <1>0, <1>1
<1>2. ASSUME NEW R, NEW to, Recreate(R, to)
      PROVE  sess'[s] # "none"
  BY <1>0, <1>2 DEF Recreate
<1>3. CASE \E x \in Services : (\E to \in {"built", "gone"} : UserRecreates(x, to)) \/ Land(x)
  BY <1>2, <1>3 DEF UserRecreates, Land
<1>4. CASE \E x \in Services : Attach(x) \/ Launch(x)
  <2>1. PICK x \in Services : Attach(x) \/ Launch(x)
    BY <1>4
  <2>2. listed' = listed
    BY <2>1 DEF Attach, Launch, stage
  <2>3. sess' = sess \/ sess' = [sess EXCEPT ![x] = "attached"] \/ sess' = [sess EXCEPT ![x] = "launched"]
    BY <2>1 DEF Attach, AttachMember, Launch, LaunchMember, daemon
  <2> QED
    BY <1>0, <2>2, <2>3
<1>5. ASSUME NEW x, NEW left, EndSession(x, left)
      PROVE  sess'[s] # "none"
  BY <1>0, <1>5 DEF EndSession
<1>6. CASE StopSession \/ \E x \in Services : \E stray \in BOOLEAN : SessionEnds(x, stray)
  BY <1>1, <1>5, <1>6 DEF StopSession, SessionEnds, daemon
<1>7. CASE \E x \in Services : BpAdd(x) \/ BpRemove(x) \/ CarryAndStop(x) \/ MirrorBegin(x)
  BY <1>1, <1>7 DEF BpAdd, BpRemove, CarryAndStop, MirrorBegin, daemon, stage
<1>8. CASE \E names \in SUBSET Services \ {{}} :
              (\E noBuild \in NoBuilds : BeginLaunch(names, noBuild)) \/ BeginRestore(names)
  BY <1>8 DEF BeginLaunch, BeginRestore, TakeLock
<1>9. CASE Connect \/ InspectAndList
  BY <1>9 DEF Connect, InspectAndList, daemon
<1>10. CASE Classify \/ Settle \/ ResolveProjects \/ Build \/ Stopped
  BY <1>1, <1>10 DEF Classify, Settle, ResolveProjects, Build, Stopped, daemon
<1>11. CASE MirrorEnd \/ WriteOverride \/ Refresh \/ Launched \/ RewriteOverride \/ Finish \/ Kill
  BY <1>1, <1>11 DEF MirrorEnd, WriteOverride, Refresh, Launched, RewriteOverride, Finish, Kill, daemon, stage
<1>12. CASE Up \/ UpAsBuilt
  BY <1>2, <1>12 DEF Up, UpAsBuilt, ComposeUp
<1>13. CASE UNCHANGED vars
  BY <1>1, <1>13 DEF vars, daemon, stage
<1> QED
  BY <1>3, <1>4, <1>6, <1>7, <1>8, <1>9, <1>10, <1>11, <1>12, <1>13 DEF Next

\* A step around the run: what is to be read stays, or its session has ended.
LEMMA CarryAround ==
    ASSUME CarryInv, UNCHANGED <<carry, had, todo, pc>>, run'.kind = run.kind,
           \A s \in Services : listed'[s] # "none" => listed[s] # "none" /\ (bps[s] => bps'[s]),
           NEW s \in had, pc' \in CarryStages, run'.kind = "launch"
    PROVE  IF pc' \in {"stop", "stopping"} /\ s \in todo'
           THEN listed'[s] # "none" => bps'[s] ELSE carry'[s]
  BY DEF CarryInv, CarryTypeOK

\* CarryInv is kept by every step.
LEMMA CarryKeeps ==
    ASSUME CarryInv, FastInv, FastInv', [Next]_vars
    PROVE  CarryInv'
<1> DEFINE Owed(s) == IF pc \in {"stop", "stopping"} /\ s \in todo
                      THEN listed[s] # "none" => bps[s] ELSE carry[s]
           Goal == pc' \in CarryStages /\ run'.kind = "launch" => \A s \in had' : Owed(s)'
<1>0. /\ bps \in [Services -> BOOLEAN] /\ carry \in [Services -> BOOLEAN] /\ had \subseteq Services
      /\ listed \in [Services -> Sessions] /\ run \in RunRecords /\ live \subseteq Services
      /\ pc \in CarryStages /\ run.kind = "launch" => \A s \in had : Owed(s)
  BY DEF CarryInv, CarryTypeOK, FastInv, FastTypeOK
<1>1. ASSUME UNCHANGED <<carry, had, todo, pc>>, run'.kind = run.kind,
             \A s \in Services : listed'[s] # "none" => listed[s] # "none" /\ (bps[s] => bps'[s])
      PROVE  Goal
  BY <1>1, CarryAround
<1>2. ASSUME UNCHANGED <<carry, had>>, run'.kind = run.kind, pc \in CarryStages \ {"stop", "stopping"},
             pc' \notin {"stop", "stopping"}
      PROVE  Goal
  BY <1>0, <1>2
<1>3. ASSUME pc' \notin CarryStages \/ run'.kind # "launch"
      PROVE  Goal
  BY <1>3
<1>4. ASSUME \E s \in Services : (\E to \in {"built", "gone"} : UserRecreates(s, to)) \/ Land(s)
      PROVE  Goal
  <2>1. PICK s \in Services : (\E to \in {"built", "gone"} : UserRecreates(s, to)) \/ Land(s)
    BY <1>4
  <2>2. UNCHANGED <<carry, had, todo, pc>> /\ \E to : Recreate({s}, to)
    BY <2>1 DEF UserRecreates, Land
  <2>3. run'.kind = run.kind
    BY <1>0, <2>1 DEF UserRecreates, Land, RunRecords
  <2>4. \A x \in Services : listed'[x] # "none" => listed[x] # "none" /\ (bps[x] => bps'[x])
    BY <1>0, <2>2 DEF Recreate
  <2> QED
    BY <1>1, <2>2, <2>3, <2>4
<1>5. ASSUME \E s \in Services : Attach(s) \/ BpAdd(s) \/ \E stray \in BOOLEAN : SessionEnds(s, stray)
      PROVE  Goal
  <2>1. PICK s \in Services : Attach(s) \/ BpAdd(s) \/ \E stray \in BOOLEAN : SessionEnds(s, stray)
    BY <1>5
  <2>2. UNCHANGED <<carry, had, todo, pc, run>>
    BY <2>1 DEF Attach, BpAdd, SessionEnds, stage
  <2>3. CASE Attach(s)
    <3>1. listed[s] = "none" /\ listed' = listed /\ \E b \in BOOLEAN : bps' = [bps EXCEPT ![s] = b]
      BY <2>3 DEF Attach, AttachMember, Attachable, stage, CarryInv
    <3>2. \A x \in Services : listed'[x] # "none" => listed[x] # "none" /\ (bps[x] => bps'[x])
      BY <1>0, <3>1
    <3> QED
      BY <1>1, <2>2, <3>2
  <2>4. CASE BpAdd(s)
    <3>1. listed' = listed /\ bps' = [bps EXCEPT ![s] = TRUE]
      BY <2>4 DEF BpAdd, stage
    <3>2. \A x \in Services : listed'[x] # "none" => listed[x] # "none" /\ (bps[x] => bps'[x])
      BY <1>0, <3>1
    <3> QED
      BY <1>1, <2>2, <3>2
  <2>5. CASE \E stray \in BOOLEAN : SessionEnds(s, stray)
    <3>1. listed' = [listed EXCEPT ![s] = "none"] /\ bps' = [bps EXCEPT ![s] = FALSE]
      BY <2>5 DEF SessionEnds, EndSession
    <3>2. \A x \in Services : listed'[x] # "none" => listed[x] # "none" /\ (bps[x] => bps'[x])
      BY <1>0, <3>1
    <3> QED
      BY <1>1, <2>2, <3>2
  <2> QED
    BY <2>1, <2>3, <2>4, <2>5
<1>5a. ASSUME \E s \in Services : BpRemove(s)
      PROVE  Goal
  <2>1. PICK s \in Services : BpRemove(s)
    BY <1>5a
  <2>2. /\ UNCHANGED <<carry, todo, pc, run, listed>> /\ had' \subseteq had
        /\ bps' = [bps EXCEPT ![s] = FALSE]
        /\ pc \in {"stop", "stopping"} /\ s \in todo => s \notin had'
    BY <2>1 DEF BpRemove
  <2>3. \A x \in Services : x # s => bps'[x] = bps[x]
    BY <1>0, <2>2
  <2> QED
    BY <1>0, <2>2, <2>3
<1>6. ASSUME \E s \in Services : CarryAndStop(s)
      PROVE  Goal
  <2>1. PICK s \in Services : CarryAndStop(s)
    BY <1>6
  <2>2. /\ UNCHANGED <<listed, bps>> /\ pc = "stop" /\ pc' \in {"stop", "stopping"} /\ todo' = todo \ {s}
        /\ s \in todo /\ had' \subseteq had
    BY <2>1 DEF CarryAndStop, Capture, daemon, Goto
  <2>3. run'.kind = run.kind
    BY <1>0, <2>1 DEF CarryAndStop, RunRecords
  <2>4. ASSUME NEW x \in had', run.kind = "launch"
        PROVE  Owed(x)'
    <3>1. x \in had /\ Owed(x)
      BY <1>0, <2>2, <2>4 DEF CarryStages
    <3>2. carry' = carry \/ (carry' = [carry EXCEPT ![s] = bps[s]] /\ listed[s] # "none")
      BY <2>1 DEF CarryAndStop, Capture
    <3>3. CASE x # s
      BY <1>0, <2>2, <3>1, <3>2, <3>3
    <3>4. CASE x = s
      <4>1. carry' = [carry EXCEPT ![s] = bps[s]] /\ listed[s] # "none"
        BY <2>1, <2>4, <3>4 DEF CarryAndStop, Capture
      <4> QED
        BY <1>0, <2>2, <3>1, <3>4, <4>1 DEF CarryInv
    <3> QED
      BY <3>3, <3>4
  <2> QED
    BY <2>3, <2>4
<1>7. ASSUME StopSession
      PROVE  Goal
  <2>1. UNCHANGED <<carry, had, todo>> /\ pc = "stopping" /\ pc' = "stop" /\ run.at \in Services
    BY <1>7 DEF StopSession, Goto, FastInv, Prepared
  <2>2. run'.kind = run.kind
    BY <1>0, <1>7 DEF StopSession, Lose, RunRecords
  <2>3. \A x \in Services : listed'[x] # "none" => listed[x] # "none" /\ (bps[x] => bps'[x])
    BY <1>0, <1>7, <2>1 DEF StopSession, EndSession, daemon
  <2> QED
    BY <1>0, <2>1, <2>2, <2>3 DEF CarryStages
<1>8. ASSUME Stopped
      PROVE  Goal
  <2>1. UNCHANGED <<carry, had, run>> /\ pc = "stop" /\ todo = {} /\ pc' \notin {"stop", "stopping"}
    BY <1>8 DEF Stopped, Goto
  <2> QED
    BY <1>0, <2>1 DEF CarryStages
<1>9. ASSUME Connect
      PROVE  Goal
  BY <1>0, <1>9 DEF Connect, Goto, daemon, CarryStages
<1>10. ASSUME \E names \in SUBSET Services \ {{}} :
              (\E noBuild \in NoBuilds : BeginLaunch(names, noBuild)) \/ BeginRestore(names)
      PROVE  Goal
  BY <1>3, <1>10 DEF BeginLaunch, BeginRestore, Goto, CarryStages
<1>11. ASSUME Classify \/ Settle \/ ResolveProjects \/ Build
      PROVE  Goal
  BY <1>3, <1>11 DEF Classify, Settle, ResolveProjects, Build, Goto, CarryStages
<1>12. ASSUME Launched \/ Finish \/ Kill \/ UpAsBuilt \/ RewriteOverride
      PROVE  Goal
  BY <1>3, <1>12 DEF Launched, Finish, Kill, UpAsBuilt, RewriteOverride, Goto, CarryStages
<1>13. ASSUME InspectAndList
      PROVE  Goal
  <2>1. run.kind = "restore"
    BY <1>13 DEF InspectAndList, FastInv, StageOfRun, RestoreStages
  <2>2. run'.kind = run.kind
    BY <1>0, <1>13 DEF InspectAndList, InspectFails, Lose, RunRecords
  <2> QED
    BY <1>3, <2>1, <2>2
<1>14. ASSUME MirrorEnd \/ WriteOverride \/ Up \/ Refresh \/ \E s \in Services : MirrorBegin(s) \/ Launch(s)
      PROVE  Goal
  <2>1. UNCHANGED <<carry, had>>
    BY <1>14 DEF MirrorBegin, MirrorEnd, WriteOverride, Up, Refresh, Launch
  <2>2. pc \in CarryStages \ {"stop", "stopping"} /\ pc' \notin {"stop", "stopping"}
    BY <1>14 DEF MirrorBegin, MirrorEnd, WriteOverride, Up, Refresh, Launch, CarryStages, Goto
  <2>3. run'.kind = run.kind
    <3>1. CASE MirrorEnd \/ \E s \in Services : MirrorBegin(s)
      BY <1>0, <3>1 DEF MirrorBegin, MirrorEnd, Lose, RunRecords
    <3>2. CASE WriteOverride \/ Up \/ Refresh
      BY <1>0, <3>2 DEF WriteOverride, Up, Refresh, ComposeUp, DockerFails, Lose, RunRecords
    <3>3. CASE \E s \in Services : Launch(s)
      BY <1>0, <3>3 DEF Launch, AdapterFails, Lose, RunRecords
    <3> QED
      BY <1>14, <3>1, <3>2, <3>3
  <2> QED
    BY <1>2, <2>1, <2>2, <2>3
<1>15. ASSUME UNCHANGED vars
      PROVE  Goal
  BY <1>1, <1>15 DEF vars, daemon, stage
<1>16. Goal
  BY <1>4, <1>5, <1>6, <1>7, <1>8, <1>9, <1>10, <1>11, <1>12, <1>13, <1>14, <1>15, <1>5a
     DEF Next
<1>17. CarryTypeOK' /\ \A s \in Services : listed'[s] # "none" => sess'[s] # "none"
  BY CarryTypes, ListedThere DEF CarryInv
<1> QED
  BY <1>16, <1>17 DEF CarryInv

\* A run replaces or removes only files from which no session's app runs.
LEMMA FilesOfStopped ==
    ASSUME FastInv, [Next]_vars, NEW s \in Services, build'[s] # build[s]
    PROVE  app[s] # "session"
<1>1. FastTypeOK /\ build \in [Services -> Builds]
  BY DEF FastInv, FastTypeOK
<1>2. CASE \E x \in Services : MirrorBegin(x)
  <2>1. PICK x \in Services : MirrorBegin(x)
    BY <1>2
  <2>2. x \in todo /\ pc = "mirror" /\ (build' = [build EXCEPT ![x] = "half"] \/ build' = build)
    BY <2>1 DEF MirrorBegin
  <2>3. s = x
    BY <1>1, <2>2
  <2> QED
    BY <2>2, <2>3 DEF FastInv, Prepared
<1>3. CASE MirrorEnd
  <2>1. pc = "mirroring" /\ (build' = [build EXCEPT ![run.at] = "ok"] \/ build' = build)
    BY <1>3 DEF MirrorEnd
  <2>2. s = run.at
    BY <1>1, <2>1
  <2> QED
    BY <2>1, <2>2 DEF FastInv, Prepared
<1>4. CASE Finish
  <2>1. s \notin FastContainers
    BY <1>1, <1>4 DEF Finish, PruneServices, files
  <2> QED
    BY <2>1 DEF FastInv, AppsHaveSessions, FastContainers
<1>5. CASE UNCHANGED build
  BY <1>5
<1>6. CASE \E x \in Services :
              \/ \E to \in {"built", "gone"} : UserRecreates(x, to)
              \/ Land(x) \/ Attach(x) \/ BpAdd(x) \/ BpRemove(x)
              \/ \E stray \in BOOLEAN : SessionEnds(x, stray)
              \/ CarryAndStop(x) \/ Launch(x)
  BY <1>5, <1>6 DEF UserRecreates, Land, Attach, BpAdd, BpRemove, SessionEnds, CarryAndStop,
                   Launch, files
<1>7. CASE \E names \in SUBSET Services \ {{}} :
              (\E noBuild \in NoBuilds : BeginLaunch(names, noBuild)) \/ BeginRestore(names)
  BY <1>5, <1>7 DEF BeginLaunch, BeginRestore, files
<1>8. CASE Classify \/ Settle \/ ResolveProjects \/ Build \/ Connect \/ Stopped \/ WriteOverride \/ Up \/ Refresh
  BY <1>5, <1>8 DEF Classify, Settle, ResolveProjects, Build, Connect, Stopped, WriteOverride, Up, Refresh, files
<1>9. CASE StopSession \/ Launched \/ InspectAndList \/ UpAsBuilt \/ RewriteOverride \/ Kill \/ UNCHANGED vars
  BY <1>5, <1>9 DEF StopSession, Launched, InspectAndList, UpAsBuilt, RewriteOverride, Kill, vars, files
<1> QED
  BY <1>2, <1>3, <1>4, <1>6, <1>7, <1>8, <1>9 DEF Next

\* Only a launch starts an app.
LEMMA OnlyLaunchStarts ==
    ASSUME FastInv, [Next]_vars, NEW s \in Services, Starts(s)
    PROVE  Launch(s)
<1>1. FastTypeOK /\ app'[s] = "session" /\ app[s] # "session"
  BY DEF FastInv, Starts
<1>2. CASE UNCHANGED app
  BY <1>1, <1>2
<1>3. ASSUME NEW x \in Services, NEW to \in Ctrs, Recreate({x}, [y \in {x} |-> to])
      PROVE  FALSE
  BY <1>1, <1>3, RecreateFacts
<1>4. ASSUME NEW x \in Services, NEW left, EndSession(x, left)
      PROVE  FALSE
  BY <1>1, <1>4, EndFacts
<1>5. CASE \E x \in Services : (\E to \in {"built", "gone"} : UserRecreates(x, to)) \/ Land(x)
  <2>1. PICK x \in Services : (\E to \in {"built", "gone"} : UserRecreates(x, to)) \/ Land(x)
    BY <1>5
  <2>2. "built" \in Ctrs /\ "gone" \in Ctrs /\ "fast" \in Ctrs
    BY DEF Ctrs
  <2>3. CASE \E to \in {"built", "gone"} : UserRecreates(x, to)
    BY <1>3, <2>2, <2>3 DEF UserRecreates
  <2>4. CASE Land(x)
    BY <1>3, <2>2, <2>4 DEF Land
  <2> QED
    BY <2>1, <2>3, <2>4
<1>6. CASE \E x \in Services : Attach(x) \/ BpAdd(x) \/ BpRemove(x) \/ MirrorBegin(x) \/ CarryAndStop(x)
  BY <1>2, <1>6 DEF Attach, BpAdd, BpRemove, MirrorBegin, CarryAndStop, engine
<1>7. CASE StopSession \/ \E x \in Services : \E stray \in BOOLEAN : SessionEnds(x, stray)
  <2>1. pc = "stopping" => run.at \in Services
    BY DEF FastInv, Prepared
  <2> QED
    BY <1>2, <1>4, <1>7, <2>1 DEF SessionEnds, StopSession
<1>8. CASE \E x \in Services : Launch(x)
  <2>1. PICK x \in Services : Launch(x)
    BY <1>8
  <2>2. app' = app \/ app' = [app EXCEPT ![x] = "session"]
    BY <2>1 DEF Launch, LaunchMember
  <2>3. s = x
    BY <1>1, <2>2 DEF FastTypeOK
  <2> QED
    BY <2>1, <2>3
<1>9. CASE Up \/ UpAsBuilt
  <2>1. PICK S, failed, k : /\ S \in SUBSET Services /\ failed \in SUBSET S /\ k \in {"built", "fast"}
                            /\ ComposeUp(S, failed, k)
    <3>1. Entering \in SUBSET Services /\ live \in SUBSET Services
      BY <1>1 DEF FastTypeOK, Entering
    <3> QED
      BY <1>9, <3>1 DEF Up, UpAsBuilt
  <2>2. UpDone(S, failed, k)
    BY <1>1, <2>1, ComposeUpFacts
  <2> QED
    BY <1>1, <2>2 DEF UpDone
<1>10. CASE \E names \in SUBSET Services \ {{}} :
              (\E noBuild \in NoBuilds : BeginLaunch(names, noBuild)) \/ BeginRestore(names)
  BY <1>2, <1>10 DEF BeginLaunch, BeginRestore
<1>11. CASE Classify \/ Settle \/ ResolveProjects \/ Build \/ Connect \/ Stopped \/ MirrorEnd \/ WriteOverride
  BY <1>2, <1>11 DEF Classify, Settle, ResolveProjects, Build, Connect, Stopped, MirrorEnd, WriteOverride, engine
<1>12. CASE Refresh \/ Launched \/ InspectAndList \/ RewriteOverride \/ Finish \/ Kill \/ UNCHANGED vars
  BY <1>2, <1>12 DEF Refresh, Launched, InspectAndList, RewriteOverride, Finish, Kill, vars, engine
<1> QED
  BY <1>5, <1>6, <1>7, <1>8, <1>9, <1>10, <1>11, <1>12 DEF Next

\* The old app is stopped before its files are replaced; one is launched only
\* where none runs, unless docker top failed, from a complete build, and with
\* the breakpoints the listed session had, for any services, runs and failures
\* (execute, strayGuard, capture).
THEOREM OldAppsStopped == Spec => OldAppStopped
<1>1. ASSUME FastInv, CarryInv, [Next]_vars, NEW s \in Services, Starts(s)
      PROVE  /\ s \notin strays \/ fails' # fails
             /\ run.noBuild \/ build[s] = "ok"
             /\ s \in had => bps'[s] \/ user' # user
  <2>1. Launch(s)
    BY <1>1, OnlyLaunchStarts
  <2>2. PICK topFails \in BOOLEAN : LaunchMember(s, topFails) /\ pc = "launch" /\ s \in todo
    BY <1>1, <2>1 DEF Launch, Starts
  <2>3. fails \in Nat /\ run.kind = "launch"
    BY <1>1, <2>2 DEF FastInv, FastTypeOK, StageOfRun, LaunchStages
  <2>4. s \notin strays \/ fails' # fails
    BY <2>2, <2>3 DEF LaunchMember, Launchable, StrayGuard
  <2>5. run.noBuild \/ build[s] = "ok"
    BY <1>1, <2>2 DEF FastInv, Prepared
  <2>6. s \in had => carry[s]
    BY <1>1, <2>2, <2>3 DEF CarryInv, CarryStages
  <2>7. bps'[s] = carry[s] \/ user' # user
    BY <1>1, <2>2 DEF LaunchMember, CarryInv, CarryTypeOK
  <2> QED
    BY <2>4, <2>5, <2>6, <2>7
<1>2. FastInv /\ CarryInv /\ [Next]_vars =>
         [\A s \in Services :
            /\ build'[s] # build[s] => app[s] # "session"
            /\ Starts(s) => /\ s \notin strays \/ fails' # fails
                            /\ run.noBuild \/ build[s] = "ok"
                            /\ s \in had => bps'[s] \/ user' # user]_vars
  BY <1>1, FilesOfStopped
<1>3. Init => CarryInv
  BY DEF Init, CarryInv, CarryTypeOK, CarryStages, Sessions
<1>4. Spec => []CarryInv
  <2>1. CarryInv /\ FastInv /\ FastInv' /\ [Next]_vars => CarryInv'
    BY CarryKeeps
  <2> QED
    BY <1>3, <2>1, FastKept, PTL DEF Spec
<1> QED
  BY <1>2, <1>4, FastKept, PTL DEF Spec, OldAppStopped

\* A restore of everything that met no failure leaves nothing of fast mode, for
\* any services, users and earlier runs (composeRestore).
THEOREM RestoresComplete == Spec => RestoreComplete
<1>1. ASSUME FastInv, [Next]_vars, pc = "finish", pc' = "idle", fails' = fails,
             run.kind = "restore", run.all, run.clean, run.foundFast
      PROVE  (\A s \in Services : ctr'[s] # "fast" /\ build'[s] = "none") /\ rec' = {}
  <2>1. FastContainers = {} /\ ~run.upFailed /\ ~run.keepProject /\ fails \in Nat
    BY <1>1 DEF FastInv, Restoring, StageOfRun, FastTypeOK
  <2>2. PruneDue /\ ~Kill
    BY <1>1, <2>1 DEF PruneDue, Kill
  <2>3. Finish
    <3>1. ~UNCHANGED vars
      BY <1>1 DEF vars
    <3>2. pc # pc' /\ pc = "finish"
      BY <1>1
    <3>3. ASSUME NEW s \in Services
          PROVE  /\ ~\E to \in {"built", "gone"} : UserRecreates(s, to)
                 /\ ~Land(s) /\ ~Attach(s) /\ ~BpAdd(s) /\ ~BpRemove(s)
                 /\ ~\E stray \in BOOLEAN : SessionEnds(s, stray)
                 /\ ~CarryAndStop(s) /\ ~MirrorBegin(s) /\ ~Launch(s)
      BY <3>2 DEF UserRecreates, Land, Attach, BpAdd, BpRemove, SessionEnds, CarryAndStop, MirrorBegin,
                     Launch
    <3>4. \A names : ~BeginRestore(names) /\ \A noBuild : ~BeginLaunch(names, noBuild)
      BY <3>2 DEF BeginRestore, BeginLaunch, TakeLock
    <3>5. ~(Classify \/ Settle \/ ResolveProjects \/ Build \/ Connect \/ StopSession \/ Stopped \/ MirrorEnd \/ WriteOverride)
      BY <3>2 DEF Classify, Settle, ResolveProjects, Build, Connect, StopSession, Stopped, MirrorEnd, WriteOverride
    <3>6. ~(Up \/ Refresh \/ Launched \/ InspectAndList \/ UpAsBuilt \/ RewriteOverride)
      BY <3>2 DEF Up, Refresh, Launched, InspectAndList, UpAsBuilt, RewriteOverride
    <3> QED
      BY <1>1, <2>2, <3>1, <3>3, <3>4, <3>5, <3>6 DEF Next
  <2>4. build' = PruneServices /\ rec' = {} /\ UNCHANGED ctr
    BY <1>1, <2>1, <2>2, <2>3 DEF Finish, engine
  <2> QED
    BY <2>1, <2>4 DEF PruneServices, FastContainers
<1>2. FastInv /\ [Next]_vars =>
         [(pc = "finish" /\ pc' = "idle" /\ fails' = fails
           /\ run.kind = "restore" /\ run.all /\ run.clean /\ run.foundFast)
          => /\ \A s \in Services : ctr'[s] # "fast" /\ build'[s] = "none"
             /\ rec' = {}]_vars
  BY <1>1
<1> QED
  BY <1>2, FastKept, PTL DEF Spec, RestoreComplete
=============================================================================
