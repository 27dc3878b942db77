-------------------------- MODULE BrokerSupervisor --------------------------
(***************************************************************************)
(* The host supervisor (trusted_local_supervisor.py and                    *)
(* scripts/run_trusted_local_broker_supervisor.py) that replaces the       *)
(* broker's container by the image of a reviewed revision.  It reads the   *)
(* BROKER_RELEASE lines of the coordination issue, oldest first, verifies  *)
(* each against origin/main and the CI checks, builds an image, and swaps  *)
(* the container with a rollback to the image it captured before.          *)
(*                                                                         *)
(* Every docker command of the swap is a step of its own: it may fail with *)
(* or without effect, and the supervisor may die after it.  Revisions are  *)
(* numbered in the order they reach origin/main; an image is named by its  *)
(* revision, Base being the one of the first installation.                 *)
(***************************************************************************)
EXTENDS Naturals, Sequences

CONSTANTS Last,           \* revisions that may reach origin/main
          None,           \* no container, no captured image
          MaxDirectives, MaxFaults, MaxCrashes   \* bounds

ASSUME SupervisorAssumption ==
  /\ Last \in Nat /\ None \notin Nat
  /\ MaxDirectives \in Nat /\ MaxFaults \in Nat /\ MaxCrashes \in Nat

Base == 0
Revisions == 1..Last
Images == 0..Last

VARIABLES main,         \* live origin/main
          cloned,       \* newest revision of the local clone it builds from
          green,        \* revisions with successful checks
          quality,      \* broken: no image can be built; unhealthy: its container is
          directives,   \* revisions of the BROKER_RELEASE lines, oldest first
          container,    \* the container of the fixed name, if any
          sup,          \* the supervisor process
          faults, crashes

world == <<main, cloned, green, directives>>
vars == <<world, quality, container, sup, faults, crashes>>

Pcs == {"idle", "next", "build", "capture", "stop", "remove", "start", "probe",
        "undo", "rollback", "dead"}

\* at: position of the directive being applied; upto: directives this pass read
Supervisors == [pc : Pcs, at : Nat, upto : Nat, previous : Images \cup {None}]

Absent == [image |-> None, up |-> FALSE]
Containers == {Absent} \cup [image : Images, up : BOOLEAN]
Running(r) == [image |-> r, up |-> TRUE]
Halted(r) == [image |-> r, up |-> FALSE]
Idle == [pc |-> "idle", at |-> 1, upto |-> 0, previous |-> None]
Dead == [Idle EXCEPT !.pc = "dead"]

TypeOK ==
  /\ main \in Images /\ cloned \in Images
  /\ green \in SUBSET Revisions
  /\ quality \in [Revisions -> {"broken", "unhealthy", "good"}]
  /\ directives \in Seq(Revisions)
  /\ container \in Containers
  /\ sup \in Supervisors
  /\ faults \in Nat /\ crashes \in Nat

\* The bootstrap installation has left a clone and a running broker.
Init ==
  /\ main = Base /\ cloned = Base /\ green = {} /\ directives = <<>>
  /\ quality \in [Revisions -> {"broken", "unhealthy", "good"}]
  /\ container = Running(Base)
  /\ sup = Idle
  /\ faults = 0 /\ crashes = 0

sha == directives[sup.at]

\* Defect: the directive's revision need not be live origin/main.
Approved_anysha == sha \in green

\* verify_origin_and_main and checks_successful
Approved == sha = main /\ sha \in green

Goto(pc) == sup' = [sup EXCEPT !.pc = pc]
Raise == sup' = Dead
-----------------------------------------------------------------------------
(***************************************************************************)
(* One pass of main and apply_release, command by command                  *)
(***************************************************************************)

\* Every BROKER_RELEASE line of the issue, from the first one.
Poll ==
  /\ sup.pc = "idle"
  /\ sup' = [Idle EXCEPT !.pc = "next", !.upto = Len(directives)]
  /\ UNCHANGED <<world, quality, container, faults, crashes>>

\* Defect: a container of the image counts as running.
Verify_halted ==
  /\ sup.pc = "next" /\ sup.at <= sup.upto
  /\ \/ ~Approved /\ Raise
     \/ Approved /\ container.image = sha /\ sup' = [sup EXCEPT !.at = @ + 1]
     \/ Approved /\ container.image # sha /\ Goto("build")
  /\ UNCHANGED <<world, quality, container, faults, crashes>>

\* A directive that is not approved raises out of the loop and ends the
\* process; one whose revision already runs is a no-op.
Verify ==
  /\ sup.pc = "next" /\ sup.at <= sup.upto
  /\ \/ ~Approved /\ Raise
     \/ Approved /\ container = Running(sha) /\ sup' = [sup EXCEPT !.at = @ + 1]
     \/ Approved /\ container # Running(sha) /\ Goto("build")
  /\ UNCHANGED <<world, quality, container, faults, crashes>>

PassDone ==
  /\ sup.pc = "next" /\ sup.at > sup.upto
  /\ sup' = Idle
  /\ UNCHANGED <<world, quality, container, faults, crashes>>

\* Worktree, docker build and smoke test, all before the old broker stops.
\* The worktree is added in the local clone, which no step of the supervisor
\* fetches: git worktree add raises for a revision the clone does not have.
Build ==
  /\ sup.pc = "build"
  /\ IF sha > cloned \/ quality[sha] = "broken" THEN Raise ELSE Goto("capture")
  /\ UNCHANGED <<world, quality, container, faults, crashes>>

Capture ==
  /\ sup.pc = "capture"
  /\ sup' = [sup EXCEPT !.previous = container.image,
                        !.pc = IF container = Absent THEN "start" ELSE "stop"]
  /\ UNCHANGED <<world, quality, container, faults, crashes>>

StopOld ==
  /\ sup.pc = "stop"
  /\ container' = Halted(container.image)
  /\ Goto("remove")
  /\ UNCHANGED <<world, quality, faults, crashes>>

RemoveOld ==
  /\ sup.pc = "remove"
  /\ container' = Absent
  /\ Goto("start")
  /\ UNCHANGED <<world, quality, faults, crashes>>

\* docker run of the candidate; the name may still be taken.
StartCandidate ==
  /\ sup.pc = "start"
  /\ IF container = Absent
     THEN container' = Running(sha) /\ Goto("probe")
     ELSE UNCHANGED container /\ Goto("undo")
  /\ UNCHANGED <<world, quality, faults, crashes>>

\* Defect: identity and health of the candidate are not awaited.
Probe_trust ==
  /\ sup.pc = "probe"
  /\ sup' = [sup EXCEPT !.pc = "next", !.at = @ + 1, !.previous = None]
  /\ UNCHANGED <<world, quality, container, faults, crashes>>

\* The identity and health tests of the candidate
Probe ==
  /\ sup.pc = "probe"
  /\ IF quality[sha] = "good"
     THEN sup' = [sup EXCEPT !.pc = "next", !.at = @ + 1, !.previous = None]
     ELSE Goto("undo")
  /\ UNCHANGED <<world, quality, container, faults, crashes>>

\* docker rm -f of the name, whatever container has it
Undo ==
  /\ sup.pc = "undo"
  /\ container' = Absent
  /\ Goto("rollback")
  /\ UNCHANGED <<world, quality, faults, crashes>>

\* docker run of the captured image, if any; then the error is raised again.
Rollback ==
  /\ sup.pc = "rollback"
  /\ container' = IF sup.previous # None /\ container = Absent
                  THEN Running(sup.previous) ELSE container
  /\ Raise
  /\ UNCHANGED <<world, quality, faults, crashes>>
-----------------------------------------------------------------------------
(***************************************************************************)
(* Failing commands, dying supervisor, the world outside                   *)
(***************************************************************************)

\* A command that raises SupervisorError where nothing catches it
CommandRaises ==
  /\ \/ sup.pc \in {"idle", "build"} /\ UNCHANGED container
     \/ sup.pc = "next" /\ sup.at <= sup.upto /\ UNCHANGED container
     \/ sup.pc = "stop" /\ container' \in {container, Halted(container.image)}
     \/ /\ sup.pc = "rollback" /\ sup.previous # None /\ container = Absent
        /\ container' \in {Absent, Halted(sup.previous), Running(sup.previous)}
  /\ Raise

\* A docker inspect whose failure reads as "not there", a docker rm whose
\* failure is ignored, and the commands inside the try of apply_release
CommandMisleads ==
  \/ sup.pc = "next" /\ sup.at <= sup.upto /\ Approved /\ Goto("build") /\ UNCHANGED container
  \/ sup.pc = "capture" /\ Goto("start") /\ UNCHANGED container
  \/ sup.pc = "remove" /\ Goto("start") /\ UNCHANGED container
  \/ /\ sup.pc = "start" /\ Goto("undo")
     /\ container' \in IF container = Absent THEN {Absent, Halted(sha), Running(sha)}
                      ELSE {container}
  \/ sup.pc = "probe" /\ Goto("undo") /\ UNCHANGED container
  \/ sup.pc = "undo" /\ Goto("rollback") /\ UNCHANGED container

CommandFails ==
  /\ faults < MaxFaults
  /\ faults' = faults + 1
  /\ CommandRaises \/ CommandMisleads
  /\ UNCHANGED <<world, quality, crashes>>

Crash ==
  /\ crashes < MaxCrashes /\ sup.pc # "dead"
  /\ crashes' = crashes + 1
  /\ Raise
  /\ UNCHANGED <<world, quality, container, faults>>

\* The host service starts the supervisor again.
Restart ==
  /\ sup.pc = "dead"
  /\ sup' = Idle
  /\ UNCHANGED <<world, quality, container, faults, crashes>>

Merge ==
  /\ main < Last
  /\ main' = main + 1
  /\ UNCHANGED <<cloned, green, directives, quality, container, sup, faults, crashes>>

\* Somebody fetches in the clone of the host, and perhaps the branch of a
\* revision that is still to be merged.
Fetch(r) ==
  /\ cloned < r /\ main <= r
  /\ cloned' = r
  /\ UNCHANGED <<main, green, directives, quality, container, sup, faults, crashes>>

ChecksPass(r) ==
  /\ r \notin green
  /\ green' = green \cup {r}
  /\ UNCHANGED <<main, cloned, directives, quality, container, sup, faults, crashes>>

PostRelease(r) ==
  /\ Len(directives) < MaxDirectives
  /\ directives' = Append(directives, r)
  /\ UNCHANGED <<main, cloned, green, quality, container, sup, faults, crashes>>

Step ==
  \/ Poll \/ Verify \/ PassDone \/ Build \/ Capture \/ StopOld \/ RemoveOld
  \/ StartCandidate \/ Probe \/ Undo \/ Rollback

Next ==
  \/ Step \/ CommandFails \/ Crash \/ Restart \/ Merge
  \/ \E r \in Revisions : ChecksPass(r) \/ PostRelease(r) \/ Fetch(r)

Spec == Init /\ [][Next]_vars

\* The polling loop goes on and the host service restarts the supervisor.
\* Nobody is obliged to fetch.
FairSpec == Spec /\ WF_vars(Step) /\ WF_vars(Restart)
-----------------------------------------------------------------------------
(***************************************************************************)
(* Properties                                                              *)
(***************************************************************************)
Released == {directives[i] : i \in 1..Len(directives)}
Swapping == sup.pc \in {"remove", "start", "probe", "undo", "rollback"}

\* The container only ever has the first image or that of a revision that was
\* named by a directive, reached origin/main and passed its checks, over
\* failing commands, rollbacks and restarts (apply_release).
OnlyReviewedRuns ==
  container.image \in {None, Base} \cup {r \in green \cap Released : r <= main}

\* Outside a swap a broker runs, on the first image or on one that proved
\* healthy: what the rollback of apply_release is for.
KnownGoodRuns ==
  ~Swapping => container.up /\ (container.image # Base => quality[container.image] = "good")

\* It is so as long as no command fails and the supervisor does not die,
\* whatever candidates turn out to be.
UninterruptedBrokerRuns == faults + crashes = 0 => KnownGoodRuns

Deployable(r) == r \in Released /\ r = main /\ r \in green /\ quality[r] = "good"

\* A released revision that stays origin/main is eventually running, when the
\* issue holds no directive for another one and somebody has fetched it into
\* the clone of the host: whatever failed and died before (apply_release).
SoleReleaseTakesEffect ==
  \A r \in Revisions :
    Deployable(r) /\ Released = {r} /\ r <= cloned
      ~> container = Running(r) \/ main # r \/ Released # {r}

\* The documented hands-off release: a released revision that stays
\* origin/main is eventually running without anybody touching the host.
SoleReleaseIsHandsOff ==
  \A r \in Revisions :
    Deployable(r) /\ Released = {r} ~> container = Running(r) \/ main # r \/ Released # {r}

\* And so is one that was fetched, whatever was released before it.
ReleaseTakesEffect ==
  \A r \in Revisions : Deployable(r) /\ r <= cloned ~> container = Running(r) \/ main # r
=============================================================================
