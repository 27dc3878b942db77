----------------------- MODULE BrokerSupervisor_proofs -----------------------
(***************************************************************************)
(* Proofs about BrokerSupervisor for any number of revisions, directives,  *)
(* failing commands and crashes.  Directives are only appended, main only  *)
(* advances and green only grows, so what Verify saw of a revision stays   *)
(* true while it is built, started and later captured for a rollback.      *)
(***************************************************************************)
EXTENDS BrokerSupervisor, TLAPS

Applying == sup.pc \in {"build", "capture", "stop", "remove", "start", "probe", "undo", "rollback"}

Reviewed == {r \in green \cap Released : r <= main}

\* A pass reads a prefix of the directives, and applies what it has verified.
PassInv ==
  /\ sup.at \in Nat \ {0} /\ sup.upto <= Len(directives)
  /\ Applying => sup.at <= Len(directives) /\ sha \in green /\ sha <= main

RollbackInv == sup.previous \in {None, Base} \cup Reviewed

Proven(i) == i = Base \/ (i \in Revisions /\ quality[i] = "good")

\* What each step of an undisturbed swap leaves
SwapInv ==
  faults + crashes = 0 =>
    /\ ~Swapping => container.up /\ Proven(container.image)
    /\ sup.pc \in {"stop", "remove"} => sup.previous = container.image
    /\ Swapping => Proven(sup.previous)
    /\ sup.pc \in {"start", "rollback"} => container = Absent
    /\ sup.pc = "probe" => container = Running(sha)

SupInv == TypeOK /\ PassInv /\ RollbackInv /\ OnlyReviewedRuns /\ SwapInv

\* What the assignments to sup do
LEMMA Moves ==
  ASSUME TypeOK
  PROVE  /\ \A p \in Pcs : Goto(p) =>
              /\ sup' \in Supervisors /\ sup'.pc = p
              /\ sup'.at = sup.at /\ sup'.upto = sup.upto /\ sup'.previous = sup.previous
         /\ Raise => /\ sup' \in Supervisors /\ sup'.pc = "dead"
                     /\ sup'.at = 1 /\ sup'.upto = 0 /\ sup'.previous = None
         /\ sup' = Idle => /\ sup' \in Supervisors /\ sup'.pc = "idle"
                           /\ sup'.at = 1 /\ sup'.upto = 0 /\ sup'.previous = None
         /\ Poll => /\ sup' \in Supervisors /\ sup'.pc = "next"
                    /\ sup'.at = 1 /\ sup'.upto = Len(directives) /\ sup'.previous = None
         /\ sup' = [sup EXCEPT !.at = @ + 1] =>
              /\ sup' \in Supervisors /\ sup'.pc = sup.pc
              /\ sup'.at = sup.at + 1 /\ sup'.upto = sup.upto /\ sup'.previous = sup.previous
         /\ sup' = [sup EXCEPT !.pc = "next", !.at = @ + 1, !.previous = None] =>
              /\ sup' \in Supervisors /\ sup'.pc = "next"
              /\ sup'.at = sup.at + 1 /\ sup'.upto = sup.upto /\ sup'.previous = None
         /\ Capture => /\ sup' \in Supervisors
                       /\ sup'.pc = IF container = Absent THEN "start" ELSE "stop"
                       /\ sup'.at = sup.at /\ sup'.upto = sup.upto
                       /\ sup'.previous = container.image
<1>1. sup \in Supervisors /\ Len(directives) \in Nat /\ container.image \in Images \cup {None}
  BY DEF TypeOK, Containers, Absent
<1>2. ASSUME NEW p \in Pcs, Goto(p)
      PROVE  /\ sup' \in Supervisors /\ sup'.pc = p
             /\ sup'.at = sup.at /\ sup'.upto = sup.upto /\ sup'.previous = sup.previous
  BY <1>1, <1>2 DEF Supervisors, Goto
<1>3. ASSUME Raise
      PROVE  /\ sup' \in Supervisors /\ sup'.pc = "dead"
             /\ sup'.at = 1 /\ sup'.upto = 0 /\ sup'.previous = None
  BY <1>3 DEF Raise, Dead, Idle, Supervisors, Pcs
<1>4. ASSUME sup' = Idle
      PROVE  /\ sup' \in Supervisors /\ sup'.pc = "idle"
             /\ sup'.at = 1 /\ sup'.upto = 0 /\ sup'.previous = None
  BY <1>4 DEF Idle, Supervisors, Pcs
<1>5. ASSUME Poll
      PROVE  /\ sup' \in Supervisors /\ sup'.pc = "next"
             /\ sup'.at = 1 /\ sup'.upto = Len(directives) /\ sup'.previous = None
  BY <1>1, <1>5 DEF Poll, Idle, Supervisors, Pcs
<1>6. ASSUME sup' = [sup EXCEPT !.at = @ + 1]
      PROVE  /\ sup' \in Supervisors /\ sup'.pc = sup.pc
             /\ sup'.at = sup.at + 1 /\ sup'.upto = sup.upto /\ sup'.previous = sup.previous
  BY <1>1, <1>6 DEF Supervisors
<1>7. ASSUME sup' = [sup EXCEPT !.pc = "next", !.at = @ + 1, !.previous = None]
      PROVE  /\ sup' \in Supervisors /\ sup'.pc = "next"
             /\ sup'.at = sup.at + 1 /\ sup'.upto = sup.upto /\ sup'.previous = None
  <2>1. sup.at + 1 \in Nat /\ "next" \in Pcs
    BY <1>1 DEF Supervisors, Pcs
  <2>. QED BY <1>1, <1>7, <2>1 DEF Supervisors
<1>8. ASSUME Capture
      PROVE  /\ sup' \in Supervisors
             /\ sup'.pc = IF container = Absent THEN "start" ELSE "stop"
             /\ sup'.at = sup.at /\ sup'.upto = sup.upto
             /\ sup'.previous = container.image
  BY <1>1, <1>8 DEF Capture, Supervisors, Pcs
<1>. QED BY <1>2, <1>3, <1>4, <1>5, <1>6, <1>7, <1>8

\* What verification established is not lost while the issue, main and the
\* checks move on.
LEMMA ReviewedGrows ==
  ASSUME TypeOK, [Next]_vars
  PROVE  /\ Reviewed \subseteq Reviewed'
         /\ Len(directives) <= Len(directives')
         /\ \A i \in 1..Len(directives) : directives'[i] = directives[i]
         /\ main <= main' /\ green \subseteq green' /\ quality' = quality
<1> USE SupervisorAssumption
<1>1. /\ Len(directives) <= Len(directives')
      /\ \A i \in 1..Len(directives) : directives'[i] = directives[i]
  <2>1. CASE UNCHANGED directives
    BY <2>1 DEF TypeOK
  <2>2. CASE \E r \in Revisions : PostRelease(r)
    BY <2>2 DEF TypeOK, PostRelease, Revisions
  <2>. QED BY <2>1, <2>2 DEF Next, Step, vars, world, Poll, Verify, PassDone, Build, Capture,
         StopOld, RemoveOld, StartCandidate, Probe, Undo, Rollback, CommandFails, Crash, Restart,
         Merge, Fetch, ChecksPass
<1>2. main <= main' /\ green \subseteq green' /\ quality' = quality
  BY DEF TypeOK, Images, Next, Step, vars, world, Poll, Verify, PassDone, Build, Capture,
     StopOld, RemoveOld, StartCandidate, Probe, Undo, Rollback, CommandFails, Crash, Restart,
     Merge, Fetch, ChecksPass, PostRelease
<1>3. Released \subseteq Released'
  BY <1>1 DEF Released, TypeOK
<1>4. main \in Nat /\ main' \in Nat
  BY DEF TypeOK, Images, Next, Step, vars, world, Poll, Verify, PassDone, Build, Capture,
     StopOld, RemoveOld, StartCandidate, Probe, Undo, Rollback, CommandFails, Crash, Restart,
     Merge, Fetch, ChecksPass, PostRelease
<1>5. green \subseteq Nat
  BY DEF TypeOK, Revisions
<1>6. Reviewed \subseteq Reviewed'
  <2> SUFFICES ASSUME NEW r \in Reviewed
               PROVE  r \in Reviewed'
    OBVIOUS
  <2>1. r \in green /\ r \in Released /\ r <= main
    BY DEF Reviewed
  <2>2. r \in green' /\ r \in Released' /\ r <= main'
    BY <1>2, <1>3, <1>4, <1>5, <2>1
  <2>. QED BY <2>2 DEF Reviewed
<1>. QED BY <1>1, <1>2, <1>6

LEMMA TypeInv ==
  ASSUME SupInv, [Next]_vars
  PROVE  TypeOK'
<1> USE SupervisorAssumption DEF SupInv
<1>1. Applying => sha \in Revisions
  BY DEF PassInv, TypeOK
<1>2. /\ Absent \in Containers /\ Idle \in Supervisors /\ Dead \in Supervisors
      /\ container \in Containers /\ sup \in Supervisors
      /\ Halted(container.image) \in Containers
  <2>1. Idle \in Supervisors /\ Dead \in Supervisors
    BY DEF Idle, Dead, Supervisors, Pcs
  <2>2. container.image \in Images \/ container.image = None
    BY DEF TypeOK, Containers, Absent
  <2>3. Halted(container.image) \in Containers
    BY <2>2 DEF Halted, Containers, Absent
  <2>. QED BY <2>1, <2>3 DEF TypeOK, Containers
<1>3. Applying => Running(sha) \in Containers /\ Halted(sha) \in Containers
  BY <1>1 DEF Running, Halted, Containers, Images, Revisions
<1>4. sup.previous # None => Running(sup.previous) \in Containers /\ Halted(sup.previous) \in Containers
  BY <1>2 DEF Running, Halted, Containers, Supervisors
<1>5. CASE Step
  <2>1. container' \in Containers
    BY <1>2, <1>3, <1>4, <1>5 DEF Step, Poll, Verify, PassDone, Build, Capture, StopOld, RemoveOld,
       StartCandidate, Probe, Undo, Rollback, Applying
  <2>2. sup' \in Supervisors
    BY <1>5, Moves DEF Pcs, Step, Verify, PassDone, Build, StopOld, RemoveOld, StartCandidate,
       Probe, Undo, Rollback
  <2>. QED BY <1>5, <2>1, <2>2 DEF TypeOK, world, Step, Poll, Verify, PassDone, Build, Capture,
       StopOld, RemoveOld, StartCandidate, Probe, Undo, Rollback
<1>6. CASE CommandFails
  <2>1. container' \in Containers
    BY <1>2, <1>3, <1>4, <1>6 DEF CommandFails, CommandRaises, CommandMisleads, Applying
  <2>2. sup' \in Supervisors
    BY <1>6, Moves DEF Pcs, CommandFails, CommandRaises, CommandMisleads
  <2>. QED BY <1>6, <2>1, <2>2 DEF TypeOK, world, CommandFails
<1>7. CASE Crash \/ Restart \/ UNCHANGED vars
  BY <1>2, <1>7 DEF TypeOK, vars, world, Crash, Restart, Raise
<1>8. CASE Merge \/ \E r \in Revisions : ChecksPass(r) \/ PostRelease(r) \/ Fetch(r)
  <2>1. CASE Merge
    BY <2>1 DEF TypeOK, Images, Merge
  <2>4. CASE \E r \in Revisions : Fetch(r)
    BY <2>4 DEF TypeOK, Images, Revisions, Fetch
  <2>2. CASE \E r \in Revisions : ChecksPass(r)
    BY <2>2 DEF TypeOK, ChecksPass
  <2>3. CASE \E r \in Revisions : PostRelease(r)
    <3>1. PICK r \in Revisions : PostRelease(r)
      BY <2>3
    <3>2. directives' \in Seq(Revisions)
      BY <3>1 DEF TypeOK, PostRelease
    <3>. QED BY <3>1, <3>2 DEF TypeOK, PostRelease
  <2>. QED BY <1>8, <2>1, <2>2, <2>3, <2>4
<1>. QED BY <1>5, <1>6, <1>7, <1>8 DEF Next

LEMMA PassStep ==
  ASSUME SupInv, [Next]_vars
  PROVE  PassInv'
<1> USE SupervisorAssumption DEF SupInv
<1>1. TypeOK' BY TypeInv
<1>2. /\ Len(directives) \in Nat /\ Len(directives') \in Nat
      /\ sup.at \in Nat /\ sup.upto \in Nat /\ main \in Nat /\ main' \in Nat
      /\ sup.at \in 1..Len(directives) => sha \in Nat
  <2>1. /\ directives \in Seq(Revisions) /\ directives' \in Seq(Revisions)
        /\ sup \in Supervisors /\ main \in Images /\ main' \in Images
    BY <1>1 DEF TypeOK
  <2>2. sup.at \in 1..Len(directives) => directives[sup.at] \in Revisions
    BY <2>1
  <2>. QED BY <2>1, <2>2 DEF Supervisors, Images, Revisions, sha
<1>3. CASE Step \/ CommandFails \/ Crash \/ Restart
  <2>1. UNCHANGED <<main, green, directives>>
    BY <1>3 DEF world, Step, Poll, Verify, PassDone, Build, Capture, StopOld, RemoveOld,
       StartCandidate, Probe, Undo, Rollback, CommandFails, Crash, Restart
  <2>2. sup'.at \in Nat \ {0} /\ sup'.upto <= Len(directives)
    BY <1>2, <1>3, Moves DEF Pcs, PassInv, Step, Verify, PassDone, Build, StopOld, RemoveOld,
       StartCandidate, Probe, Undo, Rollback, CommandFails, CommandRaises, CommandMisleads,
       Crash, Restart
  <2>3. Applying' => sup'.at = sup.at /\ (Applying \/ (sup.at <= sup.upto /\ Approved))
    <3>1. CASE Step
      BY <3>1, Moves DEF Pcs, Applying, Step, Verify, PassDone, Build, Capture, StopOld, RemoveOld,
         StartCandidate, Probe, Undo, Rollback
    <3>2. CASE CommandFails \/ Crash \/ Restart
      BY <3>2, Moves DEF Pcs, Applying, CommandFails, CommandRaises, CommandMisleads, Crash, Restart
    <3>. QED BY <1>3, <3>1, <3>2
  <2>. QED BY <1>2, <2>1, <2>2, <2>3 DEF PassInv, Approved, sha
<1>4. CASE UNCHANGED sup
  BY <1>2, <1>4, ReviewedGrows DEF PassInv, Applying, sha
<1>. QED BY <1>3, <1>4 DEF Next, vars, Merge, Fetch, ChecksPass, PostRelease

LEMMA ReviewStep ==
  ASSUME SupInv, [Next]_vars
  PROVE  RollbackInv' /\ OnlyReviewedRuns'
<1> USE SupervisorAssumption DEF SupInv
<1>1. Reviewed \subseteq Reviewed'
  BY ReviewedGrows
<1>2. Applying => sha \in Reviewed
  <2>1. directives \in Seq(Revisions) /\ Len(directives) \in Nat /\ sup.at \in Nat
    BY DEF TypeOK, Supervisors
  <2>. QED BY <2>1 DEF PassInv, Reviewed, Released, sha
<1>3. container.image \in {None, Base} \cup Reviewed
  BY DEF OnlyReviewedRuns, Reviewed
<1>4. /\ sup'.previous \in {None, sup.previous, container.image}
      /\ \/ container'.image \in {None, container.image, sup.previous}
         \/ Applying /\ container'.image = sha
  <2>1. CASE Step
    <3>1. sup'.previous \in {None, sup.previous, container.image}
      BY <2>1, Moves DEF Pcs, Step, Verify, PassDone, Build, StopOld, RemoveOld, StartCandidate,
         Probe, Undo, Rollback
    <3>2. /\ Absent.image = None /\ Halted(container.image).image = container.image
          /\ Running(sha).image = sha /\ Running(sup.previous).image = sup.previous
      BY DEF Absent, Halted, Running
    <3>3. \/ container'.image \in {None, container.image, sup.previous}
          \/ Applying /\ container'.image = sha
      BY <2>1, <3>2 DEF Step, Poll, Verify, PassDone, Build, Capture, StopOld, RemoveOld,
         StartCandidate, Probe, Undo, Rollback, Applying
    <3>. QED BY <3>1, <3>3
  <2>2. CASE CommandFails
    <3>1. sup'.previous \in {None, sup.previous, container.image}
      BY <2>2, Moves DEF Pcs, CommandFails, CommandRaises, CommandMisleads
    <3>2. /\ Absent.image = None /\ Halted(container.image).image = container.image
          /\ Running(sha).image = sha /\ Running(sup.previous).image = sup.previous
          /\ Halted(sha).image = sha /\ Halted(sup.previous).image = sup.previous
      BY DEF Absent, Halted, Running
    <3>3. \/ container'.image \in {None, container.image, sup.previous}
          \/ Applying /\ container'.image = sha
      BY <2>2, <3>2 DEF CommandFails, CommandRaises, CommandMisleads, Applying
    <3>. QED BY <3>1, <3>3
  <2>3. CASE ~Step /\ ~CommandFails
    BY <2>3 DEF Next, vars, Crash, Restart, Merge, Fetch, ChecksPass, PostRelease, Raise, Idle, Dead
  <2>. QED BY <2>1, <2>2, <2>3
<1>. QED BY <1>1, <1>2, <1>3, <1>4 DEF RollbackInv, OnlyReviewedRuns, Reviewed

LEMMA SwapStep ==
  ASSUME SupInv, [Next]_vars
  PROVE  SwapInv'
<1> USE SupervisorAssumption DEF SupInv
<1> SUFFICES ASSUME (faults + crashes = 0)'
             PROVE  SwapInv'
  BY DEF SwapInv
<1>1. quality' = quality
  BY ReviewedGrows
<1>0. sup' = sup /\ Applying => sha' = sha
  <2>1. sup.at \in Nat /\ Len(directives) \in Nat
    BY DEF TypeOK, Supervisors
  <2>. QED BY <2>1, ReviewedGrows DEF PassInv, sha
<1>2. faults + crashes = 0 /\ ~CommandFails /\ ~Crash
  BY DEF TypeOK, Next, vars, world, Step, Poll, Verify, PassDone, Build, Capture, StopOld,
     RemoveOld, StartCandidate, Probe, Undo, Rollback, CommandFails, Crash, Restart, Merge, Fetch,
     ChecksPass, PostRelease
<1>3. CASE Poll \/ Verify \/ PassDone \/ Build \/ Restart
  BY <1>1, <1>2, <1>3, Moves DEF Pcs, SwapInv, Swapping, Proven, Poll, Verify, PassDone, Build, Restart
<1>4. CASE Capture \/ StopOld \/ RemoveOld
  <2>1. Halted(container.image).image = container.image
    BY DEF Halted
  <2>2. container.up => container # Absent
    BY DEF Absent
  <2>3. CASE Capture
    BY <1>1, <1>2, <2>2, <2>3, Moves DEF Pcs, SwapInv, Swapping, Proven, Capture
  <2>4. CASE StopOld
    BY <1>1, <1>2, <2>1, <2>4, Moves DEF Pcs, SwapInv, Swapping, Proven, StopOld
  <2>5. CASE RemoveOld
    BY <1>1, <1>2, <2>5, Moves DEF Pcs, SwapInv, Swapping, Proven, RemoveOld
  <2>. QED BY <1>4, <2>3, <2>4, <2>5
<1>5. CASE StartCandidate \/ Probe \/ Undo \/ Rollback
  <2>1. sup.pc \in {"start", "probe", "undo", "rollback"} => Proven(sup.previous) /\ sup.previous # None
    BY <1>2 DEF SwapInv, Swapping, Proven, Revisions, Base
  <2>2. CASE StartCandidate
    <3>1. sha' = sha
      BY <2>2, Moves DEF Pcs, StartCandidate, world, sha
    <3>. QED BY <1>1, <1>2, <2>1, <2>2, <3>1, Moves DEF Pcs, SwapInv, Swapping, Proven, StartCandidate, Running
  <2>3. CASE Probe
    <3>1. sha \in Revisions
      <4>1. directives \in Seq(Revisions) /\ sup.at \in Nat \ {0} /\ sup.at <= Len(directives)
        BY <2>3 DEF TypeOK, PassInv, Applying, Probe
      <4>. QED BY <4>1 DEF sha
    <3>2. container = Running(sha) /\ container.up /\ container.image = sha
      BY <1>2, <2>3 DEF SwapInv, Probe, Running
    <3>. QED BY <1>1, <1>2, <2>1, <2>3, <3>1, <3>2, Moves DEF Pcs, SwapInv, Swapping, Proven, Probe
  <2>4. CASE Undo
    BY <1>1, <1>2, <2>1, <2>4, Moves DEF Pcs, SwapInv, Swapping, Proven, Undo
  <2>5. CASE Rollback
    BY <1>1, <1>2, <2>1, <2>5, Moves DEF SwapInv, Swapping, Proven, Rollback, Running
  <2>. QED BY <1>5, <2>2, <2>3, <2>4, <2>5
<1>6. CASE UNCHANGED <<sup, container>>
  BY <1>0, <1>1, <1>2, <1>6 DEF SwapInv, Swapping, Applying, Proven
<1>. QED BY <1>2, <1>3, <1>4, <1>5, <1>6 DEF Next, Step, vars, Merge, Fetch, ChecksPass, PostRelease

LEMMA InitInv ==
  ASSUME Init
  PROVE  SupInv
<1> USE SupervisorAssumption DEF Init
<1>1. TypeOK
  BY DEF TypeOK, Images, Base, Containers, Running, Idle, Supervisors, Pcs
<1>2. PassInv /\ RollbackInv
  BY DEF PassInv, RollbackInv, Applying, Idle
<1>3. OnlyReviewedRuns /\ SwapInv
  BY DEF OnlyReviewedRuns, SwapInv, Swapping, Proven, Running, Idle
<1>. QED BY <1>1, <1>2, <1>3 DEF SupInv

LEMMA SupervisorInvariant == Spec => []SupInv
<1>1. Init => SupInv
  BY InitInv
<1>2. SupInv /\ [Next]_vars => SupInv'
  BY TypeInv, PassStep, ReviewStep, SwapStep DEF SupInv
<1>. QED BY <1>1, <1>2, PTL DEF Spec

\* Whatever commands fail and whenever the supervisor dies, the broker's
\* container has the first image or that of a revision which a directive named,
\* which reached origin/main and whose checks passed (apply_release).
THEOREM ReviewedSafety == Spec => [](TypeOK /\ OnlyReviewedRuns)
<1>1. SupInv => TypeOK /\ OnlyReviewedRuns
  BY DEF SupInv
<1>. QED BY <1>1, SupervisorInvariant, PTL

\* Without failing commands and crashes the rollback of apply_release keeps a
\* proven broker running outside the swap itself, however candidates turn out.
THEOREM RollbackSafety == Spec => []UninterruptedBrokerRuns
<1>1. SupInv => UninterruptedBrokerRuns
  BY SupervisorAssumption DEF SupInv, SwapInv, UninterruptedBrokerRuns, KnownGoodRuns, Proven
<1>. QED BY <1>1, SupervisorInvariant, PTL
=============================================================================
