-------------------------- MODULE Projector_proofs --------------------------
(***************************************************************************)
(* Proofs about Projector for any set of events and any number of crashes, *)
(* client failures and rebuilds.                                           *)
(*                                                                         *)
(* The properties are not inductive: each speaks about the ledger, and the *)
(* ledger is written one await after the graph was changed.  ProjectorInv  *)
(* adds what the coroutine relies on between the two: the event it removes *)
(* is redacted for good, the event it adds was not recorded and is the     *)
(* least one left, and the uuid it is about to record is in the graph.     *)
(***************************************************************************)
EXTENDS Projector, FiniteSetTheorems, TLAPS

Removing == worker.pc \in {"remove", "record_redaction"}
Adding == worker.pc \in {"add", "record_applied"}

\* What the coroutine relies on across an await.
WorkerInv ==
  /\ worker.pc = "purge" \/ Removing => worker.mode # "rebuild"
  /\ (worker.pc = "purge" \/ Removing) /\ worker.mode = "cycle" => worker.todo \subseteq tombs
  /\ Removing => worker.cur \in Events /\ worker.cur \in tombs \cup hidden
  /\ Adding => /\ worker.cur \in worker.todo
               /\ \A d \in worker.todo : worker.cur <= d
               /\ applied[worker.cur] = None
  /\ worker.pc = "record_applied" =>
       worker.uuid = NoUuid \/ worker.uuid \in episodes[worker.cur]

\* A cycle leaves nothing pending behind it.
ScanInv ==
  worker.mode = "cycle" /\ (worker.pc = "scan" \/ Adding) =>
    \A d \in worker.seen \ worker.todo : applied[d] # None \/ d \in purged

\* The one episode of e that needs no interruption to exist.
Owed(e) ==
  IF applied[e] # None \/ (worker.pc = "record_applied" /\ worker.cur = e) THEN 1 ELSE 0

EpisodeInv ==
  \A e \in Events :
    /\ IsFiniteSet(episodes[e])
    /\ Cardinality(episodes[e]) <= Owed(e) + crashes + faults

ProjectorInv ==
  /\ TypeOK
  /\ WorkerInv
  /\ ScanInv
  /\ AppliedIsMaterialized
  /\ EpisodeInv
-----------------------------------------------------------------------------
Allowed(e) == Owed(e) + crashes + faults

\* A step adds at most one episode of an event, and then raises its allowance.
LEMMA EpisodeStep ==
  ASSUME NEW d \in Events, NEW x, TypeOK, TypeOK', EpisodeInv,
         \/ episodes'[d] \subseteq episodes[d] /\ Allowed(d) <= Allowed(d)'
         \/ episodes'[d] = episodes[d] \cup {x} /\ Allowed(d) + 1 <= Allowed(d)'
  PROVE  IsFiniteSet(episodes'[d]) /\ Cardinality(episodes'[d]) <= Allowed(d)'
<1>1. /\ IsFiniteSet(episodes[d]) /\ Cardinality(episodes[d]) \in Nat
      /\ Cardinality(episodes[d]) <= Allowed(d)
  BY FS_CardinalityType DEF EpisodeInv, Allowed
<1>2. Allowed(d) \in Nat /\ Allowed(d)' \in Nat
  <2>1. Owed(d) \in Nat /\ Owed(d)' \in Nat
    BY DEF Owed
  <2>. QED BY <2>1 DEF Allowed, TypeOK
<1>3. CASE episodes'[d] \subseteq episodes[d] /\ Allowed(d) <= Allowed(d)'
  <2>1. /\ IsFiniteSet(episodes'[d]) /\ Cardinality(episodes'[d]) \in Nat
        /\ Cardinality(episodes'[d]) <= Cardinality(episodes[d])
    BY <1>1, <1>3, FS_Subset, FS_CardinalityType
  <2>. QED BY <1>1, <1>2, <1>3, <2>1
<1>4. CASE episodes'[d] = episodes[d] \cup {x} /\ Allowed(d) + 1 <= Allowed(d)'
  <2>1. /\ IsFiniteSet(episodes'[d]) /\ Cardinality(episodes'[d]) \in Nat
        /\ Cardinality(episodes'[d]) = IF x \in episodes[d] THEN Cardinality(episodes[d])
                                       ELSE Cardinality(episodes[d]) + 1
    BY <1>1, <1>4, FS_AddElement, FS_CardinalityType
  <2>. QED BY <1>1, <1>2, <1>4, <2>1
<1>. QED BY <1>3, <1>4

LEMMA CommitEventInv ==
  ASSUME NEW e \in Events, ProjectorInv, CommitEvent(e)
  PROVE  ProjectorInv'
<1> USE ProjectorAssumption DEF ProjectorInv
<1>1. TypeOK'
  BY DEF TypeOK, Workers, WorkerInv, CommitEvent, store, ledger, graph, bounds
<1>2. WorkerInv'
  BY DEF TypeOK, Workers, WorkerInv, Removing, Adding, CommitEvent, store, ledger, graph, bounds
<1>3. ScanInv'
  BY DEF TypeOK, Workers, WorkerInv, ScanInv, Removing, Adding, CommitEvent, store, ledger, graph, bounds
<1>4. AppliedIsMaterialized'
  BY DEF TypeOK, Workers, WorkerInv, AppliedIsMaterialized, Removing, Adding, CommitEvent, store, ledger, graph, bounds
<1>5. EpisodeInv'
  BY DEF TypeOK, Workers, WorkerInv, EpisodeInv, Owed, Adding, CommitEvent, store, ledger, graph, bounds
<1>. QED BY <1>1, <1>2, <1>3, <1>4, <1>5

LEMMA PublishTombstoneInv ==
  ASSUME NEW e \in Events, ProjectorInv, PublishTombstone(e)
  PROVE  ProjectorInv'
<1> USE ProjectorAssumption DEF ProjectorInv
<1>1. TypeOK'
  BY DEF TypeOK, Workers, WorkerInv, PublishTombstone, store, ledger, graph, bounds
<1>2. WorkerInv'
  BY DEF TypeOK, Workers, WorkerInv, Removing, Adding, PublishTombstone, store, ledger, graph, bounds
<1>3. ScanInv'
  BY DEF TypeOK, Workers, WorkerInv, ScanInv, Removing, Adding, PublishTombstone, store, ledger, graph, bounds
<1>4. AppliedIsMaterialized'
  BY DEF TypeOK, Workers, WorkerInv, AppliedIsMaterialized, Removing, Adding, PublishTombstone, store, ledger, graph, bounds
<1>5. EpisodeInv'
  BY DEF TypeOK, Workers, WorkerInv, EpisodeInv, Owed, Adding, PublishTombstone, store, ledger, graph, bounds
<1>. QED BY <1>1, <1>2, <1>3, <1>4, <1>5

LEMMA UnlinkEventInv ==
  ASSUME NEW e \in Events, ProjectorInv, UnlinkEvent(e)
  PROVE  ProjectorInv'
<1> USE ProjectorAssumption DEF ProjectorInv
<1>1. TypeOK'
  BY DEF TypeOK, Workers, WorkerInv, UnlinkEvent, store, ledger, graph, bounds
<1>2. WorkerInv'
  BY DEF TypeOK, Workers, WorkerInv, Removing, Adding, UnlinkEvent, store, ledger, graph, bounds
<1>3. ScanInv'
  BY DEF TypeOK, Workers, WorkerInv, ScanInv, Removing, Adding, UnlinkEvent, store, ledger, graph, bounds
<1>4. AppliedIsMaterialized'
  BY DEF TypeOK, Workers, WorkerInv, AppliedIsMaterialized, Removing, Adding, UnlinkEvent, store, ledger, graph, bounds
<1>5. EpisodeInv'
  BY DEF TypeOK, Workers, WorkerInv, EpisodeInv, Owed, Adding, UnlinkEvent, store, ledger, graph, bounds
<1>. QED BY <1>1, <1>2, <1>3, <1>4, <1>5

LEMMA HideEventInv ==
  ASSUME NEW e \in Events, ProjectorInv, HideEvent(e)
  PROVE  ProjectorInv'
<1> USE ProjectorAssumption DEF ProjectorInv
<1>1. TypeOK'
  BY DEF TypeOK, Workers, WorkerInv, HideEvent, store, ledger, graph, bounds
<1>2. WorkerInv'
  BY DEF TypeOK, Workers, WorkerInv, Removing, Adding, HideEvent, store, ledger, graph, bounds
<1>3. ScanInv'
  BY DEF TypeOK, Workers, WorkerInv, ScanInv, Removing, Adding, HideEvent, store, ledger, graph, bounds
<1>4. AppliedIsMaterialized'
  BY DEF TypeOK, Workers, WorkerInv, AppliedIsMaterialized, Removing, Adding, HideEvent, store, ledger, graph, bounds
<1>5. EpisodeInv'
  BY DEF TypeOK, Workers, WorkerInv, EpisodeInv, Owed, Adding, HideEvent, store, ledger, graph, bounds
<1>. QED BY <1>1, <1>2, <1>3, <1>4, <1>5

LEMMA StartCycleInv ==
  ASSUME ProjectorInv, StartCycle
  PROVE  ProjectorInv'
<1> USE ProjectorAssumption DEF ProjectorInv
<1>1. TypeOK'
  BY DEF TypeOK, Asleep, Workers, WorkerInv, StartCycle, store, ledger, graph, bounds
<1>2. WorkerInv'
  BY DEF TypeOK, Asleep, Workers, WorkerInv, Removing, Adding, StartCycle, store, ledger, graph, bounds
<1>3. ScanInv'
  BY DEF TypeOK, Asleep, Workers, WorkerInv, ScanInv, Removing, Adding, StartCycle, store, ledger, graph, bounds
<1>4. AppliedIsMaterialized'
  BY DEF TypeOK, Asleep, Workers, WorkerInv, AppliedIsMaterialized, Removing, Adding, StartCycle, store, ledger, graph, bounds
<1>5. EpisodeInv'
  BY DEF TypeOK, Asleep, Workers, WorkerInv, EpisodeInv, Owed, Adding, StartCycle, store, ledger, graph, bounds
<1>. QED BY <1>1, <1>2, <1>3, <1>4, <1>5

LEMMA StartSweepInv ==
  ASSUME ProjectorInv, StartSweep
  PROVE  ProjectorInv'
<1> USE ProjectorAssumption DEF ProjectorInv
<1>1. TypeOK'
  BY DEF TypeOK, Asleep, Workers, WorkerInv, StartSweep, store, ledger, graph, bounds
<1>2. WorkerInv'
  BY DEF TypeOK, Asleep, Workers, WorkerInv, Removing, Adding, StartSweep, store, ledger, graph, bounds
<1>3. ScanInv'
  BY DEF TypeOK, Asleep, Workers, WorkerInv, ScanInv, Removing, Adding, StartSweep, store, ledger, graph, bounds
<1>4. AppliedIsMaterialized'
  BY DEF TypeOK, Asleep, Workers, WorkerInv, AppliedIsMaterialized, Removing, Adding, StartSweep, store, ledger, graph, bounds
<1>5. EpisodeInv'
  BY DEF TypeOK, Asleep, Workers, WorkerInv, EpisodeInv, Owed, Adding, StartSweep, store, ledger, graph, bounds
<1>. QED BY <1>1, <1>2, <1>3, <1>4, <1>5

LEMMA PurgeNextInv ==
  ASSUME NEW e \in Events, ProjectorInv, PurgeNext(e)
  PROVE  ProjectorInv'
<1> USE ProjectorAssumption DEF ProjectorInv
<1>1. TypeOK'
  <2>1. CASE e \in purged \/ SweepSkips(e)
    BY <2>1 DEF TypeOK, Workers, WorkerInv, PurgeNext, store, ledger, graph, bounds, SweepSkips
  <2>2. CASE e \notin purged /\ ~SweepSkips(e) /\ applied[e] = None
    BY <2>2 DEF TypeOK, Workers, WorkerInv, PurgeNext, store, ledger, graph, bounds, SweepSkips
  <2>3. CASE e \notin purged /\ ~SweepSkips(e) /\ applied[e] = NoUuid
    <3>1. worker' = [worker EXCEPT !.todo = @ \ {e}, !.failed = TRUE] /\ UNCHANGED purged
      BY <2>3 DEF PurgeNext
    <3>2. worker'.pc = "purge" /\ worker'.mode = worker.mode /\ worker'.todo \subseteq worker.todo
      BY <3>1 DEF TypeOK, Workers, PurgeNext
    <3>. QED BY <3>1, <3>2 DEF TypeOK, Workers, WorkerInv, PurgeNext, store, ledger, graph, bounds
  <2>4. CASE e \notin purged /\ ~SweepSkips(e) /\ applied[e] \notin {None, NoUuid}
    <3>1. worker' = [worker EXCEPT !.pc = "remove", !.cur = e] /\ UNCHANGED purged
      BY <2>4 DEF PurgeNext
    <3>. QED BY <3>1 DEF TypeOK, Workers, PurgeNext, store, ledger, graph, bounds
  <2>. QED BY <2>1, <2>2, <2>3, <2>4
<1>2. WorkerInv'
  <2>1. CASE e \in purged \/ SweepSkips(e)
    BY <2>1 DEF TypeOK, Workers, WorkerInv, Removing, Adding, PurgeNext, store, ledger, graph, bounds, SweepSkips
  <2>2. CASE e \notin purged /\ ~SweepSkips(e) /\ applied[e] = None
    BY <2>2 DEF TypeOK, Workers, WorkerInv, Removing, Adding, PurgeNext, store, ledger, graph, bounds, SweepSkips
  <2>3. CASE e \notin purged /\ ~SweepSkips(e) /\ applied[e] = NoUuid
    <3>1. worker' = [worker EXCEPT !.todo = @ \ {e}, !.failed = TRUE] /\ UNCHANGED purged
      BY <2>3 DEF PurgeNext
    <3>2. worker'.pc = "purge" /\ worker'.mode = worker.mode /\ worker'.todo \subseteq worker.todo
      BY <3>1 DEF TypeOK, Workers, PurgeNext
    <3>. QED BY <3>1, <3>2 DEF TypeOK, Workers, WorkerInv, Removing, Adding, PurgeNext, store, ledger, graph, bounds
  <2>4. CASE e \notin purged /\ ~SweepSkips(e) /\ applied[e] \notin {None, NoUuid}
    <3>1. worker' = [worker EXCEPT !.pc = "remove", !.cur = e] /\ UNCHANGED purged
      BY <2>4 DEF PurgeNext
    <3>2. e \in tombs \cup hidden
      BY <2>4 DEF TypeOK, Workers, WorkerInv, PurgeNext, SweepSkips
    <3>. QED BY <3>1, <3>2 DEF TypeOK, Workers, WorkerInv, Removing, Adding, PurgeNext, store, ledger, graph, bounds
  <2>. QED BY <2>1, <2>2, <2>3, <2>4
<1>3. ScanInv'
  <2>1. CASE e \in purged \/ SweepSkips(e)
    BY <2>1 DEF TypeOK, Workers, WorkerInv, ScanInv, Removing, Adding, PurgeNext, store, ledger, graph, bounds, SweepSkips
  <2>2. CASE e \notin purged /\ ~SweepSkips(e) /\ applied[e] = None
    BY <2>2 DEF TypeOK, Workers, WorkerInv, ScanInv, Removing, Adding, PurgeNext, store, ledger, graph, bounds, SweepSkips
  <2>3. CASE e \notin purged /\ ~SweepSkips(e) /\ applied[e] = NoUuid
    BY <2>3 DEF TypeOK, Workers, WorkerInv, ScanInv, Removing, Adding, PurgeNext, store, ledger, graph, bounds, SweepSkips
  <2>4. CASE e \notin purged /\ ~SweepSkips(e) /\ applied[e] \notin {None, NoUuid}
    BY <2>4 DEF TypeOK, Workers, WorkerInv, ScanInv, Removing, Adding, PurgeNext, store, ledger, graph, bounds, SweepSkips
  <2>. QED BY <2>1, <2>2, <2>3, <2>4
<1>4. AppliedIsMaterialized'
  BY DEF TypeOK, Workers, WorkerInv, AppliedIsMaterialized, Removing, Adding, PurgeNext, store, ledger, graph, bounds, SweepSkips
<1>5. EpisodeInv'
  BY DEF TypeOK, Workers, WorkerInv, EpisodeInv, Owed, Adding, PurgeNext, store, ledger, graph, bounds, SweepSkips
<1>. QED BY <1>1, <1>2, <1>3, <1>4, <1>5

LEMMA RemoveSucceedsInv ==
  ASSUME ProjectorInv, RemoveSucceeds
  PROVE  ProjectorInv'
<1> USE ProjectorAssumption DEF ProjectorInv
<1>0. worker.cur \in Events
  BY DEF TypeOK, Workers, WorkerInv, Removing, Adding, RemoveSucceeds
<1>1. TypeOK'
  BY <1>0 DEF TypeOK, Workers, WorkerInv, RemoveSucceeds, store, ledger, graph, bounds
<1>2. WorkerInv'
  BY <1>0 DEF TypeOK, Workers, WorkerInv, Removing, Adding, RemoveSucceeds, store, ledger, graph, bounds
<1>3. ScanInv'
  BY <1>0 DEF TypeOK, Workers, WorkerInv, ScanInv, Removing, Adding, RemoveSucceeds, store, ledger, graph, bounds
<1>4. AppliedIsMaterialized'
  BY <1>0 DEF TypeOK, Workers, WorkerInv, AppliedIsMaterialized, Removing, Adding, RemoveSucceeds, store, ledger, graph, bounds
<1>5. EpisodeInv'
  <2> SUFFICES ASSUME NEW d \in Events
                PROVE  IsFiniteSet(episodes'[d]) /\ Cardinality(episodes'[d]) <= Allowed(d)'
    BY DEF EpisodeInv, Allowed
  <2>1. \/ episodes'[d] \subseteq episodes[d] /\ Allowed(d) <= Allowed(d)'
        \/ episodes'[d] = episodes[d] \cup {minted[d] + 1} /\ Allowed(d) + 1 <= Allowed(d)'
    BY <1>0 DEF TypeOK, Workers, WorkerInv, Removing, Adding, Owed, Allowed, RemoveSucceeds, store, ledger, graph, bounds
  <2>. QED BY <1>1, <2>1, EpisodeStep
<1>. QED BY <1>1, <1>2, <1>3, <1>4, <1>5

LEMMA RemoveFailsInv ==
  ASSUME ProjectorInv, RemoveFails
  PROVE  ProjectorInv'
<1> USE ProjectorAssumption DEF ProjectorInv
<1>0. worker.cur \in Events
  BY DEF TypeOK, Workers, WorkerInv, Removing, Adding, RemoveFails
<1>1. TypeOK'
  <2>1. worker' \in Workers
    BY <1>0 DEF TypeOK, Asleep, Workers, RemoveFails, store, ledger, graph, bounds
  <2>2. episodes' \in [Events -> SUBSET Nat] /\ minted' \in [Events -> Nat]
    BY <1>0 DEF TypeOK, WorkerInv, Removing, Adding, RemoveFails, store, ledger, graph, bounds
  <2>. QED BY <2>1, <2>2 DEF TypeOK, RemoveFails, store, ledger, graph, bounds
<1>2. WorkerInv'
  BY <1>0 DEF TypeOK, Asleep, Workers, WorkerInv, Removing, Adding, RemoveFails, store, ledger, graph, bounds
<1>3. ScanInv'
  BY <1>0 DEF TypeOK, Asleep, Workers, WorkerInv, ScanInv, Removing, Adding, RemoveFails, store, ledger, graph, bounds
<1>4. AppliedIsMaterialized'
  BY <1>0 DEF TypeOK, Asleep, Workers, WorkerInv, AppliedIsMaterialized, Removing, Adding, RemoveFails, store, ledger, graph, bounds
<1>5. EpisodeInv'
  <2> SUFFICES ASSUME NEW d \in Events
                PROVE  IsFiniteSet(episodes'[d]) /\ Cardinality(episodes'[d]) <= Allowed(d)'
    BY DEF EpisodeInv, Allowed
  <2>1. \/ episodes'[d] \subseteq episodes[d] /\ Allowed(d) <= Allowed(d)'
        \/ episodes'[d] = episodes[d] \cup {minted[d] + 1} /\ Allowed(d) + 1 <= Allowed(d)'
    BY <1>0 DEF TypeOK, Asleep, Workers, WorkerInv, Removing, Adding, Owed, Allowed, RemoveFails, store, ledger, graph, bounds
  <2>. QED BY <1>1, <2>1, EpisodeStep
<1>. QED BY <1>1, <1>2, <1>3, <1>4, <1>5

LEMMA RecordRedactionInv ==
  ASSUME ProjectorInv, RecordRedaction
  PROVE  ProjectorInv'
<1> USE ProjectorAssumption DEF ProjectorInv
<1>0. worker.cur \in Events
  BY DEF TypeOK, Workers, WorkerInv, Removing, Adding, RecordRedaction
<1>1. TypeOK'
  BY <1>0 DEF TypeOK, Asleep, Workers, WorkerInv, RecordRedaction, store, ledger, graph, bounds
<1>2. WorkerInv'
  BY <1>0 DEF TypeOK, Asleep, Workers, WorkerInv, Removing, Adding, RecordRedaction, store, ledger, graph, bounds
<1>3. ScanInv'
  BY <1>0 DEF TypeOK, Asleep, Workers, WorkerInv, ScanInv, Removing, Adding, RecordRedaction, store, ledger, graph, bounds
<1>4. AppliedIsMaterialized'
  BY <1>0 DEF TypeOK, Asleep, Workers, WorkerInv, AppliedIsMaterialized, Removing, Adding, RecordRedaction, store, ledger, graph, bounds
<1>5. EpisodeInv'
  BY <1>0 DEF TypeOK, Asleep, Workers, WorkerInv, EpisodeInv, Owed, Adding, RecordRedaction, store, ledger, graph, bounds
<1>. QED BY <1>1, <1>2, <1>3, <1>4, <1>5

LEMMA PurgeDoneInv ==
  ASSUME ProjectorInv, PurgeDone
  PROVE  ProjectorInv'
<1> USE ProjectorAssumption DEF ProjectorInv
<1>1. TypeOK'
  BY DEF TypeOK, Asleep, Workers, WorkerInv, PurgeDone, store, ledger, graph, bounds
<1>2. WorkerInv'
  BY DEF TypeOK, Asleep, Workers, WorkerInv, Removing, Adding, PurgeDone, store, ledger, graph, bounds
<1>3. ScanInv'
  BY DEF TypeOK, Asleep, Workers, WorkerInv, ScanInv, Removing, Adding, PurgeDone, store, ledger, graph, bounds
<1>4. AppliedIsMaterialized'
  BY DEF TypeOK, Asleep, Workers, WorkerInv, AppliedIsMaterialized, Removing, Adding, PurgeDone, store, ledger, graph, bounds
<1>5. EpisodeInv'
  BY DEF TypeOK, Asleep, Workers, WorkerInv, EpisodeInv, Owed, Adding, PurgeDone, store, ledger, graph, bounds
<1>. QED BY <1>1, <1>2, <1>3, <1>4, <1>5

LEMMA StartRebuildInv ==
  ASSUME ProjectorInv, StartRebuild
  PROVE  ProjectorInv'
<1> USE ProjectorAssumption DEF ProjectorInv
<1>1. TypeOK'
  <2>1. worker' \in Workers
    BY DEF TypeOK, Asleep, Workers, StartRebuild, store, ledger, graph, bounds
  <2>2. episodes' \in [Events -> SUBSET Nat] /\ minted' \in [Events -> Nat]
    BY DEF TypeOK, WorkerInv, Removing, Adding, StartRebuild, store, ledger, graph, bounds
  <2>. QED BY <2>1, <2>2 DEF TypeOK, StartRebuild, store, ledger, graph, bounds
<1>2. WorkerInv'
  BY DEF TypeOK, Asleep, Workers, WorkerInv, Removing, Adding, StartRebuild, store, ledger, graph, bounds
<1>3. ScanInv'
  BY DEF TypeOK, Asleep, Workers, WorkerInv, ScanInv, Removing, Adding, StartRebuild, store, ledger, graph, bounds
<1>4. AppliedIsMaterialized'
  BY DEF TypeOK, Asleep, Workers, WorkerInv, AppliedIsMaterialized, Removing, Adding, StartRebuild, store, ledger, graph, bounds
<1>5. EpisodeInv'
  <2>1. crashes' \in Nat /\ faults' \in Nat /\ \A d \in Events : Owed(d)' \in Nat /\ episodes'[d] = {}
    BY <1>1 DEF TypeOK, Owed, StartRebuild
  <2>. QED BY <2>1, FS_EmptySet DEF EpisodeInv
<1>. QED BY <1>1, <1>2, <1>3, <1>4, <1>5

LEMMA ListEventsInv ==
  ASSUME ProjectorInv, ListEvents
  PROVE  ProjectorInv'
<1> USE ProjectorAssumption DEF ProjectorInv
<1>1. TypeOK'
  BY DEF TypeOK, Workers, WorkerInv, ListEvents, store, ledger, graph, bounds
<1>2. WorkerInv'
  BY DEF TypeOK, Workers, WorkerInv, Removing, Adding, ListEvents, store, ledger, graph, bounds
<1>3. ScanInv'
  BY DEF TypeOK, Workers, WorkerInv, ScanInv, Removing, Adding, ListEvents, store, ledger, graph, bounds
<1>4. AppliedIsMaterialized'
  BY DEF TypeOK, Workers, WorkerInv, AppliedIsMaterialized, Removing, Adding, ListEvents, store, ledger, graph, bounds
<1>5. EpisodeInv'
  BY DEF TypeOK, Workers, WorkerInv, EpisodeInv, Owed, Adding, ListEvents, store, ledger, graph, bounds
<1>. QED BY <1>1, <1>2, <1>3, <1>4, <1>5

LEMMA ReadEventsInv ==
  ASSUME ProjectorInv, ReadEvents
  PROVE  ProjectorInv'
<1> USE ProjectorAssumption DEF ProjectorInv
<1>1. TypeOK'
  BY DEF TypeOK, Asleep, Workers, WorkerInv, ReadEvents, store, ledger, graph, bounds
<1>2. WorkerInv'
  BY DEF TypeOK, Asleep, Workers, WorkerInv, Removing, Adding, ReadEvents, store, ledger, graph, bounds
<1>3. ScanInv'
  BY DEF TypeOK, Asleep, Workers, WorkerInv, ScanInv, Removing, Adding, ReadEvents, store, ledger, graph, bounds
<1>4. AppliedIsMaterialized'
  BY DEF TypeOK, Asleep, Workers, WorkerInv, AppliedIsMaterialized, Removing, Adding, ReadEvents, store, ledger, graph, bounds
<1>5. EpisodeInv'
  BY DEF TypeOK, Asleep, Workers, WorkerInv, EpisodeInv, Owed, Adding, ReadEvents, store, ledger, graph, bounds
<1>. QED BY <1>1, <1>2, <1>3, <1>4, <1>5

LEMMA ScanNextInv ==
  ASSUME NEW e \in Events, ProjectorInv, ScanNext(e)
  PROVE  ProjectorInv'
<1> USE ProjectorAssumption DEF ProjectorInv
<1>1. TypeOK'
  <2>1. CASE e \in purged \/ applied[e] # None
    BY <2>1 DEF TypeOK, Workers, WorkerInv, ScanNext, store, ledger, graph, bounds
  <2>2. CASE e \notin purged /\ applied[e] = None /\ e \in hidden
    BY <2>2 DEF TypeOK, Workers, WorkerInv, ScanNext, store, ledger, graph, bounds
  <2>3. CASE e \notin purged /\ applied[e] = None /\ e \notin hidden
    BY <2>3 DEF TypeOK, Workers, WorkerInv, ScanNext, store, ledger, graph, bounds
  <2>. QED BY <2>1, <2>2, <2>3
<1>2. WorkerInv'
  <2>1. CASE e \in purged \/ applied[e] # None
    BY <2>1 DEF TypeOK, Workers, WorkerInv, Removing, Adding, ScanNext, store, ledger, graph, bounds
  <2>2. CASE e \notin purged /\ applied[e] = None /\ e \in hidden
    BY <2>2 DEF TypeOK, Workers, WorkerInv, Removing, Adding, ScanNext, store, ledger, graph, bounds
  <2>3. CASE e \notin purged /\ applied[e] = None /\ e \notin hidden
    BY <2>3 DEF TypeOK, Workers, WorkerInv, Removing, Adding, ScanNext, store, ledger, graph, bounds
  <2>. QED BY <2>1, <2>2, <2>3
<1>3. ScanInv'
  <2>1. CASE e \in purged \/ applied[e] # None
    BY <2>1 DEF TypeOK, Workers, WorkerInv, ScanInv, Removing, Adding, ScanNext, store, ledger, graph, bounds
  <2>2. CASE e \notin purged /\ applied[e] = None /\ e \in hidden
    BY <2>2 DEF TypeOK, Workers, WorkerInv, ScanInv, Removing, Adding, ScanNext, store, ledger, graph, bounds
  <2>3. CASE e \notin purged /\ applied[e] = None /\ e \notin hidden
    BY <2>3 DEF TypeOK, Workers, WorkerInv, ScanInv, Removing, Adding, ScanNext, store, ledger, graph, bounds
  <2>. QED BY <2>1, <2>2, <2>3
<1>4. AppliedIsMaterialized'
  BY DEF TypeOK, Workers, WorkerInv, AppliedIsMaterialized, Removing, Adding, ScanNext, store, ledger, graph, bounds
<1>5. EpisodeInv'
  BY DEF TypeOK, Workers, WorkerInv, EpisodeInv, Owed, Adding, ScanNext, store, ledger, graph, bounds
<1>. QED BY <1>1, <1>2, <1>3, <1>4, <1>5

LEMMA AddSucceedsInv ==
  ASSUME ProjectorInv, AddSucceeds
  PROVE  ProjectorInv'
<1> USE ProjectorAssumption DEF ProjectorInv
<1>0. worker.cur \in Events
  BY DEF TypeOK, Workers, WorkerInv, Removing, Adding, AddSucceeds
<1>1. TypeOK'
  <2>1. worker' \in Workers
    <3>1. PICK u : /\ u \in {minted[worker.cur] + 1} \cup (IF UuidMayLack THEN {NoUuid} ELSE {})
                   /\ worker' = [worker EXCEPT !.pc = "record_applied", !.uuid = u]
      BY DEF AddSucceeds
    <3>2. u \in Nat \cup {None, NoUuid}
      BY <1>0, <3>1 DEF TypeOK
    <3>. QED BY <3>1, <3>2 DEF TypeOK, Workers
  <2>2. episodes' \in [Events -> SUBSET Nat] /\ minted' \in [Events -> Nat]
    BY <1>0 DEF TypeOK, WorkerInv, Removing, Adding, AddSucceeds, store, ledger, graph, bounds, Materialize
  <2>. QED BY <2>1, <2>2 DEF TypeOK, AddSucceeds, store, ledger, graph, bounds, Materialize
<1>2. WorkerInv'
  BY <1>0 DEF TypeOK, Workers, WorkerInv, Removing, Adding, AddSucceeds, store, ledger, graph, bounds, Materialize
<1>3. ScanInv'
  BY <1>0 DEF TypeOK, Workers, WorkerInv, ScanInv, Removing, Adding, AddSucceeds, store, ledger, graph, bounds, Materialize
<1>4. AppliedIsMaterialized'
  BY <1>0 DEF TypeOK, Workers, WorkerInv, AppliedIsMaterialized, Removing, Adding, AddSucceeds, store, ledger, graph, bounds, Materialize
<1>5. EpisodeInv'
  <2> SUFFICES ASSUME NEW d \in Events
                PROVE  IsFiniteSet(episodes'[d]) /\ Cardinality(episodes'[d]) <= Allowed(d)'
    BY DEF EpisodeInv, Allowed
  <2>1. \/ episodes'[d] \subseteq episodes[d] /\ Allowed(d) <= Allowed(d)'
        \/ episodes'[d] = episodes[d] \cup {minted[d] + 1} /\ Allowed(d) + 1 <= Allowed(d)'
    BY <1>0 DEF TypeOK, Workers, WorkerInv, Removing, Adding, Owed, Allowed, AddSucceeds, store, ledger, graph, bounds, Materialize
  <2>. QED BY <1>1, <2>1, EpisodeStep
<1>. QED BY <1>1, <1>2, <1>3, <1>4, <1>5

LEMMA AddFailsInv ==
  ASSUME ProjectorInv, AddFails
  PROVE  ProjectorInv'
<1> USE ProjectorAssumption DEF ProjectorInv
<1>0. worker.cur \in Events
  BY DEF TypeOK, Workers, WorkerInv, Removing, Adding, AddFails
<1>1. TypeOK'
  <2>1. worker' \in Workers
    BY <1>0 DEF TypeOK, Asleep, Workers, AddFails, store, ledger, graph, bounds, Materialize
  <2>2. episodes' \in [Events -> SUBSET Nat] /\ minted' \in [Events -> Nat]
    BY <1>0 DEF TypeOK, WorkerInv, Removing, Adding, AddFails, store, ledger, graph, bounds, Materialize
  <2>. QED BY <2>1, <2>2 DEF TypeOK, AddFails, store, ledger, graph, bounds, Materialize
<1>2. WorkerInv'
  BY <1>0 DEF TypeOK, Asleep, Workers, WorkerInv, Removing, Adding, AddFails, store, ledger, graph, bounds, Materialize
<1>3. ScanInv'
  BY <1>0 DEF TypeOK, Asleep, Workers, WorkerInv, ScanInv, Removing, Adding, AddFails, store, ledger, graph, bounds, Materialize
<1>4. AppliedIsMaterialized'
  BY <1>0 DEF TypeOK, Asleep, Workers, WorkerInv, AppliedIsMaterialized, Removing, Adding, AddFails, store, ledger, graph, bounds, Materialize
<1>5. EpisodeInv'
  <2> SUFFICES ASSUME NEW d \in Events
                PROVE  IsFiniteSet(episodes'[d]) /\ Cardinality(episodes'[d]) <= Allowed(d)'
    BY DEF EpisodeInv, Allowed
  <2>1. \/ episodes'[d] \subseteq episodes[d] /\ Allowed(d) <= Allowed(d)'
        \/ episodes'[d] = episodes[d] \cup {minted[d] + 1} /\ Allowed(d) + 1 <= Allowed(d)'
    BY <1>0 DEF TypeOK, Asleep, Workers, WorkerInv, Removing, Adding, Owed, Allowed, AddFails, store, ledger, graph, bounds, Materialize
  <2>. QED BY <1>1, <2>1, EpisodeStep
<1>. QED BY <1>1, <1>2, <1>3, <1>4, <1>5

LEMMA RecordAppliedInv ==
  ASSUME ProjectorInv, RecordApplied
  PROVE  ProjectorInv'
<1> USE ProjectorAssumption DEF ProjectorInv
<1>0. worker.cur \in Events
  BY DEF TypeOK, Workers, WorkerInv, Removing, Adding, RecordApplied
<1>1. TypeOK'
  BY <1>0 DEF TypeOK, Workers, WorkerInv, RecordApplied, store, ledger, graph, bounds
<1>2. WorkerInv'
  BY <1>0 DEF TypeOK, Workers, WorkerInv, Removing, Adding, RecordApplied, store, ledger, graph, bounds
<1>3. ScanInv'
  BY <1>0 DEF TypeOK, Workers, WorkerInv, ScanInv, Removing, Adding, RecordApplied, store, ledger, graph, bounds
<1>4. AppliedIsMaterialized'
  BY <1>0 DEF TypeOK, Workers, WorkerInv, AppliedIsMaterialized, Removing, Adding, RecordApplied, store, ledger, graph, bounds
<1>5. EpisodeInv'
  BY <1>0 DEF TypeOK, Workers, WorkerInv, EpisodeInv, Owed, Adding, RecordApplied, store, ledger, graph, bounds
<1>. QED BY <1>1, <1>2, <1>3, <1>4, <1>5

LEMMA ScanDoneInv ==
  ASSUME ProjectorInv, ScanDone
  PROVE  ProjectorInv'
<1> USE ProjectorAssumption DEF ProjectorInv
<1>1. TypeOK'
  BY DEF TypeOK, Asleep, Workers, WorkerInv, ScanDone, store, ledger, graph, bounds
<1>2. WorkerInv'
  BY DEF TypeOK, Asleep, Workers, WorkerInv, Removing, Adding, ScanDone, store, ledger, graph, bounds
<1>3. ScanInv'
  BY DEF TypeOK, Asleep, Workers, WorkerInv, ScanInv, Removing, Adding, ScanDone, store, ledger, graph, bounds
<1>4. AppliedIsMaterialized'
  BY DEF TypeOK, Asleep, Workers, WorkerInv, AppliedIsMaterialized, Removing, Adding, ScanDone, store, ledger, graph, bounds
<1>5. EpisodeInv'
  BY DEF TypeOK, Asleep, Workers, WorkerInv, EpisodeInv, Owed, Adding, ScanDone, store, ledger, graph, bounds
<1>. QED BY <1>1, <1>2, <1>3, <1>4, <1>5

LEMMA CrashInv ==
  ASSUME ProjectorInv, Crash
  PROVE  ProjectorInv'
<1> USE ProjectorAssumption DEF ProjectorInv
<1>1. TypeOK'
  <2>1. worker' \in Workers
    BY DEF TypeOK, Asleep, Workers, Crash, store, ledger, graph, bounds, Materialize
  <2>2. episodes' \in [Events -> SUBSET Nat] /\ minted' \in [Events -> Nat]
    BY DEF TypeOK, WorkerInv, Removing, Adding, Crash, store, ledger, graph, bounds, Materialize
  <2>. QED BY <2>1, <2>2 DEF TypeOK, Crash, store, ledger, graph, bounds, Materialize
<1>2. WorkerInv'
  BY DEF TypeOK, Asleep, Workers, WorkerInv, Removing, Adding, Crash, store, ledger, graph, bounds, Materialize
<1>3. ScanInv'
  BY DEF TypeOK, Asleep, Workers, WorkerInv, ScanInv, Removing, Adding, Crash, store, ledger, graph, bounds, Materialize
<1>4. AppliedIsMaterialized'
  BY DEF TypeOK, Asleep, Workers, WorkerInv, AppliedIsMaterialized, Removing, Adding, Crash, store, ledger, graph, bounds, Materialize
<1>5. EpisodeInv'
  <2> SUFFICES ASSUME NEW d \in Events
                PROVE  IsFiniteSet(episodes'[d]) /\ Cardinality(episodes'[d]) <= Allowed(d)'
    BY DEF EpisodeInv, Allowed
  <2>1. \/ episodes'[d] \subseteq episodes[d] /\ Allowed(d) <= Allowed(d)'
        \/ episodes'[d] = episodes[d] \cup {minted[d] + 1} /\ Allowed(d) + 1 <= Allowed(d)'
    BY DEF TypeOK, Asleep, Workers, WorkerInv, Removing, Adding, Owed, Allowed, Crash, store, ledger, graph, bounds, Materialize
  <2>. QED BY <1>1, <2>1, EpisodeStep
<1>. QED BY <1>1, <1>2, <1>3, <1>4, <1>5

LEMMA RestartInv ==
  ASSUME ProjectorInv, Restart
  PROVE  ProjectorInv'
<1> USE ProjectorAssumption DEF ProjectorInv
<1>1. TypeOK'
  BY DEF TypeOK, Asleep, Workers, WorkerInv, Restart, store, ledger, graph, bounds
<1>2. WorkerInv'
  BY DEF TypeOK, Asleep, Workers, WorkerInv, Removing, Adding, Restart, store, ledger, graph, bounds
<1>3. ScanInv'
  BY DEF TypeOK, Asleep, Workers, WorkerInv, ScanInv, Removing, Adding, Restart, store, ledger, graph, bounds
<1>4. AppliedIsMaterialized'
  BY DEF TypeOK, Asleep, Workers, WorkerInv, AppliedIsMaterialized, Removing, Adding, Restart, store, ledger, graph, bounds
<1>5. EpisodeInv'
  BY DEF TypeOK, Asleep, Workers, WorkerInv, EpisodeInv, Owed, Adding, Restart, store, ledger, graph, bounds
<1>. QED BY <1>1, <1>2, <1>3, <1>4, <1>5

-----------------------------------------------------------------------------
LEMMA InitInv == Init => ProjectorInv
<1> SUFFICES ASSUME Init PROVE ProjectorInv
  OBVIOUS
<1> USE ProjectorAssumption DEF Init
<1>1. TypeOK
  BY DEF TypeOK, Asleep, Workers
<1>2. WorkerInv /\ ScanInv
  BY DEF WorkerInv, ScanInv, Removing, Adding, Asleep
<1>3. AppliedIsMaterialized
  BY DEF AppliedIsMaterialized
<1>4. EpisodeInv
  BY FS_EmptySet DEF EpisodeInv, Owed
<1>. QED BY <1>1, <1>2, <1>3, <1>4 DEF ProjectorInv

LEMMA NextInv == ProjectorInv /\ [Next]_vars => ProjectorInv'
<1> SUFFICES ASSUME ProjectorInv, [Next]_vars PROVE ProjectorInv'
  OBVIOUS
<1>1. CASE \E e \in Events : CommitEvent(e) \/ PublishTombstone(e) \/ UnlinkEvent(e) \/ HideEvent(e)
  BY <1>1, CommitEventInv, PublishTombstoneInv, UnlinkEventInv, HideEventInv
<1>2. CASE WorkerStep
  BY <1>2, StartCycleInv, PurgeDoneInv, RemoveSucceedsInv, RecordRedactionInv, ListEventsInv,
     ReadEventsInv, AddSucceedsInv, RecordAppliedInv, ScanDoneInv, PurgeNextInv, ScanNextInv
     DEF WorkerStep
<1>3. CASE StartSweep \/ StartRebuild \/ RemoveFails \/ AddFails \/ Crash \/ Restart
  BY <1>3, StartSweepInv, StartRebuildInv, RemoveFailsInv, AddFailsInv, CrashInv, RestartInv
<1>4. CASE UNCHANGED vars
  BY <1>4 DEF vars, store, ledger, graph, bounds, ProjectorInv, TypeOK, WorkerInv, Removing, Adding,
     ScanInv, AppliedIsMaterialized, EpisodeInv, Owed
<1>. QED BY <1>1, <1>2, <1>3, <1>4 DEF Next

LEMMA ProjectorInvariant == Spec => []ProjectorInv
BY InitInv, NextInv, PTL DEF Spec

\* For any events and any number of crashes, client failures and rebuilds, an
\* event recorded as applied (ProjectionLedger.record_applied) is in the graph
\* until its redaction begins.
THEOREM AppliedSafety == Spec => [](TypeOK /\ AppliedIsMaterialized)
<1>1. ProjectorInv => TypeOK /\ AppliedIsMaterialized
  BY DEF ProjectorInv
<1>. QED BY <1>1, ProjectorInvariant, PTL

\* apply_event_async is at-least-once, and every episode beyond the first is
\* paid for by one crash or one failed client call.
THEOREM BoundedDuplication == Spec => []DuplicatesNeedInterruptions
<1>1. ASSUME ProjectorInv PROVE DuplicatesNeedInterruptions
  <2> SUFFICES ASSUME NEW e \in Events
               PROVE  Cardinality(episodes[e]) <= 1 + crashes + faults
    BY DEF DuplicatesNeedInterruptions
  <2>1. IsFiniteSet(episodes[e]) /\ Cardinality(episodes[e]) <= Owed(e) + crashes + faults
    BY <1>1 DEF ProjectorInv, EpisodeInv
  <2>2. Cardinality(episodes[e]) \in Nat
    BY <2>1, FS_CardinalityType
  <2>3. Owed(e) \in 0..1 /\ crashes \in Nat /\ faults \in Nat
    BY <1>1 DEF ProjectorInv, TypeOK, Owed
  <2>. QED BY <2>1, <2>2, <2>3
<1>. QED BY <1>1, ProjectorInvariant, PTL

\* run_once_async never records an event as applied while an earlier event of
\* its scan is neither applied nor redacted, whatever fails or dies.
THEOREM OrderedProjection == Spec => NeverAdvancesPastPending
<1> USE ProjectorAssumption
<1>1. ASSUME ProjectorInv, [Next]_vars,
             NEW e \in Events, worker.mode = "cycle", applied[e] = None, applied'[e] # None,
             NEW d \in worker.seen, d < e
      PROVE  applied[d] # None \/ d \in purged
  <2>1. RecordApplied
    BY <1>1 DEF Next, vars, store, ledger, graph, bounds, WorkerStep, CommitEvent, PublishTombstone,
       UnlinkEvent, HideEvent, StartCycle, StartSweep, PurgeNext, RemoveSucceeds, RemoveFails,
       RecordRedaction, PurgeDone, StartRebuild, ListEvents, ReadEvents, ScanNext, AddSucceeds,
       AddFails, ScanDone, Crash, Restart
  <2>2. worker.cur = e
    BY <1>1, <2>1 DEF RecordApplied, ProjectorInv, TypeOK
  <2>3. d \notin worker.todo
    BY <1>1, <2>1, <2>2 DEF RecordApplied, ProjectorInv, WorkerInv, Adding, TypeOK, Workers
  <2>. QED BY <1>1, <2>1, <2>3 DEF RecordApplied, ProjectorInv, ScanInv, Adding
<1>2. ProjectorInv /\ [Next]_vars =>
        [\A e \in Events :
           worker.mode = "cycle" /\ applied[e] = None /\ applied'[e] # None =>
             \A d \in worker.seen : d < e => applied[d] # None \/ d \in purged]_vars
  BY <1>1
<1>. QED BY <1>2, ProjectorInvariant, PTL DEF Spec, NeverAdvancesPastPending
-----------------------------------------------------------------------------
(***************************************************************************)
(* While nothing was interrupted, the graph and the ledger agree but for   *)
(* the event under way.                                                    *)
(***************************************************************************)
Recording(e) == worker.pc = "record_applied" /\ worker.cur = e

\* An event has no episode before it is recorded, and then at most the one
\* on record.
LedgerTells ==
  \A e \in Events :
    /\ applied[e] = None /\ ~Recording(e) => episodes[e] = {}
    /\ applied[e] \in Nat => episodes[e] \subseteq {applied[e]}
    /\ Recording(e) /\ worker.uuid # NoUuid => episodes[e] \subseteq {worker.uuid}

Untouched ==
  /\ LedgerTells
  /\ worker.pc = "remove" => applied[worker.cur] \in Nat
  /\ worker.pc = "record_redaction" => episodes[worker.cur] = {}
  /\ Adding => worker.cur \notin purged
  /\ PurgeLeavesNothing

CleanInv == crashes + faults = 0 => Untouched

\* A step that changes neither the graph nor the ledger.
LEMMA SameLedger ==
  ASSUME Untouched, UNCHANGED <<ledger, graph>>,
         worker'.pc \notin {"remove", "record_redaction", "add", "record_applied"},
         worker.pc # "record_applied"
  PROVE  Untouched'
BY DEF ledger, graph, Untouched, LedgerTells, Recording, PurgeLeavesNothing, Adding

LEMMA CleanNext ==
  ASSUME ProjectorInv, CleanInv, [Next]_vars
  PROVE  CleanInv'
<1>. USE ProjectorAssumption DEF store, bounds
<1>1. TypeOK /\ TypeOK' /\ WorkerInv
  BY NextInv DEF ProjectorInv
<1>2. CASE RemoveFails \/ AddFails \/ Crash
  <2>1. /\ crashes \in Nat /\ faults \in Nat
        /\ \/ faults' = faults + 1 /\ crashes' = crashes
           \/ crashes' = crashes + 1 /\ faults' = faults
    BY <1>1, <1>2 DEF TypeOK, RemoveFails, AddFails, Crash
  <2>2. crashes' + faults' # 0
    BY <2>1
  <2>. QED  BY <2>2 DEF CleanInv
<1>3. CASE ~(RemoveFails \/ AddFails \/ Crash)
  <2>1. crashes' = crashes /\ faults' = faults
    BY <1>3 DEF Next, vars, WorkerStep, CommitEvent, PublishTombstone, UnlinkEvent, HideEvent,
       StartCycle, StartSweep, PurgeNext, RemoveSucceeds, RecordRedaction, PurgeDone, StartRebuild,
       ListEvents, ReadEvents, ScanNext, AddSucceeds, RecordApplied, ScanDone, Restart
  <2>. SUFFICES ASSUME Untouched PROVE Untouched'
    BY <2>1 DEF CleanInv
  <2>2. CASE \/ UNCHANGED vars
             \/ \E e \in Events : CommitEvent(e) \/ PublishTombstone(e) \/ UnlinkEvent(e) \/ HideEvent(e)
    <3>1. UNCHANGED <<ledger, graph, worker>>
      BY <2>2 DEF vars, CommitEvent, PublishTombstone, UnlinkEvent, HideEvent
    <3>. QED  BY <3>1 DEF ledger, graph, Untouched, LedgerTells, Recording, PurgeLeavesNothing, Adding
  <2>3. CASE StartCycle \/ StartSweep \/ PurgeDone \/ ListEvents \/ ReadEvents \/ ScanDone \/ Restart
    <3>1. /\ UNCHANGED <<ledger, graph>> /\ worker.pc # "record_applied"
          /\ worker'.pc \notin {"remove", "record_redaction", "add", "record_applied"}
      <4>1. UNCHANGED <<ledger, graph>>
        BY <2>3 DEF StartCycle, StartSweep, PurgeDone, ListEvents, ReadEvents, ScanDone, Restart
      <4>2. CASE StartCycle \/ StartSweep \/ ScanDone \/ Restart
        <5>1. worker'.pc \in {"purge", "list", "asleep"} /\ worker.pc \in {"asleep", "scan", "dead"}
          <6>1. CASE StartCycle   BY <6>1 DEF StartCycle, Asleep
          <6>2. CASE StartSweep   BY <6>2 DEF StartSweep, Asleep
          <6>3. CASE ScanDone     BY <6>3 DEF ScanDone, Asleep
          <6>4. CASE Restart      BY <6>4 DEF Restart, Asleep
          <6>. QED  BY <4>2, <6>1, <6>2, <6>3, <6>4
        <5>. QED  BY <4>1, <5>1
      <4>3. CASE PurgeDone \/ ListEvents \/ ReadEvents
        <5>1. /\ worker'.pc \in {"asleep", "list", "read", "purge", "scan", "dead"}
              /\ worker.pc \in {"purge", "list", "read"}
          <6>1. CASE PurgeDone    BY <1>1, <6>1 DEF TypeOK, Workers, PurgeDone, Asleep
          <6>2. CASE ListEvents   BY <1>1, <6>2 DEF TypeOK, Workers, ListEvents
          <6>3. CASE ReadEvents   BY <1>1, <6>3 DEF TypeOK, Workers, ReadEvents, Asleep
          <6>. QED  BY <4>3, <6>1, <6>2, <6>3
        <5>. QED  BY <4>1, <5>1
      <4>. QED  BY <2>3, <4>2, <4>3
    <3>. QED  BY <3>1, SameLedger
  <2>4. CASE StartRebuild
    BY <1>1, <2>4 DEF StartRebuild, Asleep, Untouched, LedgerTells, Recording, PurgeLeavesNothing, Adding
  <2>5. ASSUME NEW e \in Events, PurgeNext(e) PROVE Untouched'
    <3>1. /\ worker.pc = "purge" /\ UNCHANGED <<applied, graph>>
          /\ \/ worker'.pc = "purge"
             \/ worker'.pc = "remove" /\ worker'.cur = e /\ applied[e] \notin {None, NoUuid}
          /\ \/ purged' = purged
             \/ purged' = purged \cup {e} /\ applied[e] = None
      BY <1>1, <2>5 DEF TypeOK, Workers, PurgeNext
    <3>2. applied[e] \in Nat \cup {None, NoUuid}
      BY <1>1 DEF TypeOK
    <3>. QED  BY <3>1, <3>2 DEF graph, Untouched, LedgerTells, Recording, PurgeLeavesNothing, Adding
  <2>6. CASE RemoveSucceeds
    <3>1. /\ worker.pc = "remove" /\ worker.cur \in Events /\ worker'.cur = worker.cur
          /\ worker'.pc = "record_redaction" /\ UNCHANGED ledger
          /\ episodes' = [episodes EXCEPT ![worker.cur] = @ \ {applied[worker.cur]}]
      BY <1>1, <2>6 DEF TypeOK, Workers, WorkerInv, Removing, RemoveSucceeds
    <3>2. episodes'[worker.cur] = {} /\ \A d \in Events : episodes'[d] \subseteq episodes[d]
      BY <1>1, <3>1 DEF TypeOK, Untouched, LedgerTells
    <3>. QED  BY <3>1, <3>2 DEF ledger, Untouched, LedgerTells, Recording, PurgeLeavesNothing, Adding
  <2>7. CASE RecordRedaction
    <3>1. /\ worker.pc = "record_redaction" /\ worker'.pc = "purge"
          /\ UNCHANGED <<applied, graph>> /\ purged' = purged \cup {worker.cur}
      BY <1>1, <2>7 DEF TypeOK, Workers, RecordRedaction
    <3>. QED  BY <3>1 DEF graph, Untouched, LedgerTells, Recording, PurgeLeavesNothing, Adding
  <2>8. ASSUME NEW e \in Events, ScanNext(e) PROVE Untouched'
    <3>1. /\ worker.pc = "scan" /\ UNCHANGED <<applied, graph>>
          /\ \/ worker'.pc = "scan"
             \/ worker'.pc = "add" /\ worker'.cur = e /\ e \notin purged'
          /\ \/ purged' = purged
             \/ purged' = purged \cup {e} /\ applied[e] = None
      BY <1>1, <2>8 DEF TypeOK, Workers, ScanNext
    <3>. QED  BY <3>1 DEF graph, Untouched, LedgerTells, Recording, PurgeLeavesNothing, Adding
  <2>9. CASE AddSucceeds
    <3> DEFINE e == worker.cur
               u == minted[e] + 1
    <3>1. /\ worker.pc = "add" /\ e \in Events /\ applied[e] = None /\ e \notin purged
          /\ worker'.pc = "record_applied" /\ worker'.cur = e /\ UNCHANGED ledger
          /\ worker'.uuid \in {u, NoUuid}
          /\ episodes' = [episodes EXCEPT ![e] = @ \cup {u}]
      BY <1>1, <2>9 DEF TypeOK, Workers, WorkerInv, Adding, AddSucceeds, Materialize, Untouched
    <3>2. episodes[e] = {}
      BY <3>1 DEF Untouched, LedgerTells, Recording
    <3>3. episodes'[e] = {u} /\ \A d \in Events \ {e} : episodes'[d] = episodes[d]
      BY <1>1, <3>1, <3>2 DEF TypeOK
    <3>. HIDE DEF u
    <3>. QED  BY <3>1, <3>3 DEF ledger, Untouched, LedgerTells, Recording, PurgeLeavesNothing, Adding
  <2>10. CASE RecordApplied
    <3>1. /\ worker.pc = "record_applied" /\ worker.cur \in Events /\ worker'.pc = "scan"
          /\ UNCHANGED <<purged, graph>>
          /\ applied' = [applied EXCEPT ![worker.cur] = worker.uuid]
      BY <1>1, <2>10 DEF TypeOK, Workers, WorkerInv, Adding, RecordApplied
    <3>2. worker.uuid # None
      <4>1. episodes[worker.cur] \subseteq Nat
        BY <1>1, <3>1 DEF TypeOK
      <4>. QED  BY <1>1, <3>1, <4>1 DEF WorkerInv
    <3>3. applied'[worker.cur] = worker.uuid /\ \A d \in Events \ {worker.cur} : applied'[d] = applied[d]
      BY <1>1, <3>1 DEF TypeOK
    <3>. QED  BY <3>1, <3>2, <3>3 DEF graph, Untouched, LedgerTells, Recording, PurgeLeavesNothing, Adding
  <2>. QED
    BY <1>3, <2>2, <2>3, <2>4, <2>5, <2>6, <2>7, <2>8, <2>9, <2>10 DEF Next, WorkerStep
<1>. QED  BY <1>2, <1>3

\* Short of crashes and failed client calls, an event the ledger calls redacted
\* has no episode, whatever is committed, redacted, hidden or rebuilt between
\* the awaits of a cycle, a sweep or a rebuild.
THEOREM CleanPurge == Spec => []UninterruptedPurgeIsClean
<1>1. Init => CleanInv
  BY DEF Init, CleanInv, Untouched, LedgerTells, Recording, PurgeLeavesNothing, Adding, Asleep
<1>2. ProjectorInv /\ CleanInv /\ [Next]_vars => CleanInv'
  BY CleanNext
<1>3. CleanInv => UninterruptedPurgeIsClean
  BY DEF CleanInv, Untouched, UninterruptedPurgeIsClean
<1>. QED  BY <1>1, <1>2, <1>3, ProjectorInvariant, PTL DEF Spec
=============================================================================
