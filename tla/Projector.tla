----------------------------- MODULE Projector -----------------------------
(***************************************************************************)
(* The restartable projector (runtime/projector.py) that materializes      *)
(* durable events in a Graphiti graph (projection/graphiti.py) and records *)
(* its work in the build-scoped ledger (projection/ledger.py), beside an   *)
(* event store that other processes commit to and redact from.             *)
(*                                                                         *)
(* Every await of the graph client is a step of its own: the store changes *)
(* under it, the client may fail with or without having taken effect, and  *)
(* the process may die before the ledger record that should follow.        *)
(*                                                                         *)
(* An event is the number of its place in canonical_event_order            *)
(* (recorded_at, event_id); events may be committed in any order.  The     *)
(* store actions are the visible file steps of DurableEventStore: a        *)
(* tombstone may stay without its unlink.                                  *)
(***************************************************************************)
EXTENDS Naturals, FiniteSets

CONSTANTS Events,        \* positions in canonical event order
          None,          \* no ledger record
          NoUuid,        \* an applied record without episode_uuid
          HasPolicy,     \* a visibility_policy is configured
          UuidMayLack,   \* the client may answer without an episode uuid
          MaxCrashes, MaxFaults, MaxRebuilds   \* bounds on the environment

ASSUME ProjectorAssumption ==
  /\ Events \subseteq Nat
  /\ None \notin Nat /\ NoUuid \notin Nat /\ None # NoUuid
  /\ HasPolicy \in BOOLEAN /\ UuidMayLack \in BOOLEAN
  /\ MaxCrashes \in Nat /\ MaxFaults \in Nat /\ MaxRebuilds \in Nat

VARIABLES stored,     \* event files listed by iter_events
          tombs,      \* tombstones listed by iter_redactions
          unlinked,   \* events whose redact call has deleted their file
          hidden,     \* events the visibility policy hides
          applied,    \* ledger: episode uuid recorded for each event
          purged,     \* ledger: events with a redaction record
          episodes,   \* graph: uuids of the episodes of each event
          minted,     \* graph: how many uuids each event was ever given
          worker,     \* the coroutine running on the projection
          crashes, faults, rebuilds   \* what the environment has done

store == <<stored, tombs, unlinked, hidden>>
ledger == <<applied, purged>>
graph == <<episodes, minted>>
bounds == <<crashes, faults, rebuilds>>
vars == <<store, ledger, graph, worker, bounds>>

\* mode: a projector cycle, a rebuild_async or a purge_redacted_async sweep.
\* todo: what the current loop still has to visit; seen: what the scan read.
Workers == [pc : {"asleep", "purge", "remove", "record_redaction", "list",
                  "read", "scan", "add", "record_applied", "dead"},
            mode : {"cycle", "rebuild", "sweep"},
            todo : SUBSET Events,
            seen : SUBSET Events,
            cur : Events \cup {None},
            uuid : Nat \cup {None, NoUuid},
            failed : BOOLEAN]

Asleep == [pc |-> "asleep", mode |-> "cycle", todo |-> {}, seen |-> {},
           cur |-> None, uuid |-> None, failed |-> FALSE]

TypeOK ==
  /\ stored \in SUBSET Events /\ tombs \in SUBSET Events
  /\ unlinked \in SUBSET Events /\ hidden \in SUBSET Events
  /\ applied \in [Events -> Nat \cup {None, NoUuid}]
  /\ purged \in SUBSET Events
  /\ episodes \in [Events -> SUBSET Nat]
  /\ minted \in [Events -> Nat]
  /\ worker \in Workers
  /\ crashes \in Nat /\ faults \in Nat /\ rebuilds \in Nat

Init ==
  /\ stored = {} /\ tombs = {} /\ unlinked = {} /\ hidden = {}
  /\ applied = [e \in Events |-> None]
  /\ purged = {}
  /\ episodes = [e \in Events |-> {}]
  /\ minted = [e \in Events |-> 0]
  /\ worker = Asleep
  /\ crashes = 0 /\ faults = 0 /\ rebuilds = 0
-----------------------------------------------------------------------------
(***************************************************************************)
(* The event store and the policy, moved by other processes                *)
(***************************************************************************)
\* A commit that raced a redaction may come after the tombstone.
CommitEvent(e) ==
  /\ e \notin stored
  /\ stored' = stored \cup {e}
  /\ UNCHANGED <<tombs, unlinked, hidden, ledger, graph, worker, bounds>>

PublishTombstone(e) ==
  /\ e \in stored \ tombs
  /\ tombs' = tombs \cup {e}
  /\ UNCHANGED <<stored, unlinked, hidden, ledger, graph, worker, bounds>>

\* Only the call that published the tombstone unlinks, once.
UnlinkEvent(e) ==
  /\ e \in (stored \cap tombs) \ unlinked
  /\ stored' = stored \ {e}
  /\ unlinked' = unlinked \cup {e}
  /\ UNCHANGED <<tombs, hidden, ledger, graph, worker, bounds>>

\* A cited source is redacted: event_visible is false from now on.
HideEvent(e) ==
  /\ HasPolicy /\ e \notin hidden
  /\ hidden' = hidden \cup {e}
  /\ UNCHANGED <<stored, tombs, unlinked, ledger, graph, worker, bounds>>
-----------------------------------------------------------------------------
(***************************************************************************)
(* Purging: purge_event_redactions_async and purge_redacted_async calling  *)
(* remove_event_async                                                      *)
(***************************************************************************)

\* Defect: a cycle goes straight to the scan.
StartCycle_nopurge ==
  /\ worker.pc = "asleep"
  /\ worker' = [Asleep EXCEPT !.pc = "list"]
  /\ UNCHANGED <<store, ledger, graph, bounds>>

\* run_once_async begins: the tombstones of the store are listed.
StartCycle ==
  /\ worker.pc = "asleep"
  /\ worker' = [Asleep EXCEPT !.pc = "purge", !.todo = tombs]
  /\ UNCHANGED <<store, ledger, graph, bounds>>

\* purge_redacted_async begins; it reads the event files, then visits them.
StartSweep ==
  /\ worker.pc = "asleep" /\ HasPolicy
  /\ worker' = [Asleep EXCEPT !.pc = "list", !.mode = "sweep"]
  /\ UNCHANGED <<store, ledger, graph, bounds>>

\* What a sweep does not touch: visible or never applied events.
SweepSkips(e) ==
  worker.mode = "sweep" /\ (e \notin hidden \/ applied[e] = None)

\* remove_event_async up to the client call, for one listed event.
PurgeNext(e) ==
  /\ worker.pc = "purge" /\ e \in worker.todo
  /\ worker.mode = "sweep" => \A d \in worker.todo : e <= d
  /\ \/ /\ e \in purged \/ SweepSkips(e)
        /\ worker' = [worker EXCEPT !.todo = @ \ {e}]
        /\ UNCHANGED purged
     \/ /\ e \notin purged /\ ~SweepSkips(e) /\ applied[e] = None
        /\ purged' = purged \cup {e}
        /\ worker' = [worker EXCEPT !.todo = @ \ {e}]
     \/ /\ e \notin purged /\ ~SweepSkips(e) /\ applied[e] = NoUuid
        /\ worker' = [worker EXCEPT !.todo = @ \ {e}, !.failed = TRUE]
        /\ UNCHANGED purged
     \/ /\ e \notin purged /\ ~SweepSkips(e) /\ applied[e] \notin {None, NoUuid}
        /\ worker' = [worker EXCEPT !.pc = "remove", !.cur = e]
        /\ UNCHANGED purged
  /\ UNCHANGED <<store, applied, graph, bounds>>

\* The await of client.remove_episode ends well.
RemoveSucceeds ==
  LET e == worker.cur IN
  /\ worker.pc = "remove"
  /\ episodes' = [episodes EXCEPT ![e] = @ \ {applied[e]}]
  /\ worker' = [worker EXCEPT !.pc = "record_redaction"]
  /\ UNCHANGED <<store, ledger, minted, bounds>>

\* It raises, before or after the graph removed the episode: record_failure.
RemoveFails ==
  LET e == worker.cur IN
  /\ worker.pc = "remove" /\ faults < MaxFaults
  /\ faults' = faults + 1
  /\ episodes' \in {episodes, [episodes EXCEPT ![e] = @ \ {applied[e]}]}
  /\ worker' = [worker EXCEPT !.pc = "purge", !.todo = @ \ {e}, !.cur = None,
                              !.failed = TRUE]
  /\ UNCHANGED <<store, ledger, minted, crashes, rebuilds>>

RecordRedaction ==
  /\ worker.pc = "record_redaction"
  /\ purged' = purged \cup {worker.cur}
  /\ worker' = [worker EXCEPT !.pc = "purge", !.todo = @ \ {worker.cur}, !.cur = None]
  /\ UNCHANGED <<store, applied, graph, bounds>>

\* Defect: any purge receipt, failed or not, ends the cycle.
PurgeDone_anyreceipt ==
  /\ worker.pc = "purge" /\ worker.todo = {}
  /\ worker' = IF tombs # {} \/ worker.mode = "sweep"
               THEN Asleep ELSE [worker EXCEPT !.pc = "list"]
  /\ UNCHANGED <<store, ledger, graph, bounds>>

\* A failed purge ends the cycle before anything is scanned.
PurgeDone ==
  /\ worker.pc = "purge" /\ worker.todo = {}
  /\ worker' = IF worker.failed \/ worker.mode = "sweep"
               THEN Asleep ELSE [worker EXCEPT !.pc = "list"]
  /\ UNCHANGED <<store, ledger, graph, bounds>>
-----------------------------------------------------------------------------
(***************************************************************************)
(* Scanning: ordered_events(iter_events()) and apply_event_async           *)
(***************************************************************************)

\* Defect: the rebuild reuses the applied markers of the destroyed graph.
StartRebuild_sameledger ==
  /\ worker.pc \in {"asleep", "dead"} /\ rebuilds < MaxRebuilds
  /\ rebuilds' = rebuilds + 1
  /\ episodes' = [e \in Events |-> {}]
  /\ worker' = [Asleep EXCEPT !.pc = "list", !.mode = "rebuild"]
  /\ UNCHANGED <<store, ledger, minted, crashes, faults>>

\* A destroyed graph is rebuilt under a fresh build_id: empty graph, empty
\* ledger, then rebuild_async over the event files.
StartRebuild ==
  /\ worker.pc \in {"asleep", "dead"} /\ rebuilds < MaxRebuilds
  /\ rebuilds' = rebuilds + 1
  /\ episodes' = [e \in Events |-> {}]
  /\ applied' = [e \in Events |-> None]
  /\ purged' = {}
  /\ worker' = [Asleep EXCEPT !.pc = "list", !.mode = "rebuild"]
  /\ UNCHANGED <<store, minted, crashes, faults>>

\* The directory listing, then the reading of the listed files: a file that
\* was unlinked in between raises FileNotFoundError out of the coroutine.
ListEvents ==
  /\ worker.pc = "list"
  /\ worker' = [worker EXCEPT !.pc = "read", !.todo = stored]
  /\ UNCHANGED <<store, ledger, graph, bounds>>

ReadEvents ==
  /\ worker.pc = "read"
  /\ worker' = IF worker.todo \subseteq stored
               THEN [worker EXCEPT !.pc = IF worker.mode = "sweep" THEN "purge" ELSE "scan",
                                   !.seen = worker.todo]
               ELSE [Asleep EXCEPT !.pc = "dead"]
  /\ UNCHANGED <<store, ledger, graph, bounds>>

\* Defect: the scan asks the ledger for redactions but not for applications.
ScanNext_reapply(e) ==
  /\ worker.pc = "scan" /\ e \in worker.todo
  /\ \A d \in worker.todo : e <= d
  /\ worker' = IF e \in purged THEN [worker EXCEPT !.todo = @ \ {e}]
               ELSE [worker EXCEPT !.pc = "add", !.cur = e]
  /\ UNCHANGED <<store, ledger, graph, bounds>>

\* Defect: the scan asks the ledger for applications but not for redactions.
ScanNext_revive(e) ==
  /\ worker.pc = "scan" /\ e \in worker.todo
  /\ \A d \in worker.todo : e <= d
  /\ worker' = IF applied[e] # None THEN [worker EXCEPT !.todo = @ \ {e}]
               ELSE [worker EXCEPT !.pc = "add", !.cur = e]
  /\ UNCHANGED <<store, ledger, graph, bounds>>

\* The next event in canonical order: skipped when the ledger says redacted
\* or applied, recorded as redacted when hidden, else handed to the client.
ScanNext(e) ==
  /\ worker.pc = "scan" /\ e \in worker.todo
  /\ \A d \in worker.todo : e <= d
  /\ \/ /\ e \in purged \/ applied[e] # None
        /\ worker' = [worker EXCEPT !.todo = @ \ {e}]
        /\ UNCHANGED purged
     \/ /\ e \notin purged /\ applied[e] = None /\ e \in hidden
        /\ purged' = purged \cup {e}
        /\ worker' = [worker EXCEPT !.todo = @ \ {e}]
     \/ /\ e \notin purged /\ applied[e] = None /\ e \notin hidden
        /\ worker' = [worker EXCEPT !.pc = "add", !.cur = e]
        /\ UNCHANGED purged
  /\ UNCHANGED <<store, applied, graph, bounds>>

\* The graph takes one more episode of e.
Materialize(e) ==
  /\ minted' = [minted EXCEPT ![e] = @ + 1]
  /\ episodes' = [episodes EXCEPT ![e] = @ \cup {minted[e] + 1}]

\* The await of client.add_episode ends well.
AddSucceeds ==
  LET e == worker.cur IN
  /\ worker.pc = "add"
  /\ Materialize(e)
  /\ \E u \in {minted[e] + 1} \cup (IF UuidMayLack THEN {NoUuid} ELSE {}) :
       worker' = [worker EXCEPT !.pc = "record_applied", !.uuid = u]
  /\ UNCHANGED <<store, ledger, bounds>>

\* Defect: the cycle goes on with later events after a failure.
AddFails_continue ==
  /\ worker.pc = "add" /\ faults < MaxFaults
  /\ faults' = faults + 1
  /\ Materialize(worker.cur) \/ UNCHANGED graph
  /\ worker' = [worker EXCEPT !.pc = "scan", !.todo = @ \ {worker.cur}, !.cur = None]
  /\ UNCHANGED <<store, ledger, crashes, rebuilds>>

\* It raises, with or without an episode left behind: record_failure.  The
\* projector ends its cycle; rebuild_async goes on with the next event and
\* reports the failure at its end.
AddFails ==
  LET e == worker.cur IN
  /\ worker.pc = "add" /\ faults < MaxFaults
  /\ faults' = faults + 1
  /\ Materialize(e) \/ UNCHANGED graph
  /\ worker' = IF worker.mode = "rebuild"
               THEN [worker EXCEPT !.pc = "scan", !.todo = @ \ {e}, !.cur = None]
               ELSE Asleep
  /\ UNCHANGED <<store, ledger, crashes, rebuilds>>

\* record_applied keeps the first record of an event.
RecordApplied ==
  LET e == worker.cur IN
  /\ worker.pc = "record_applied"
  /\ applied' = [applied EXCEPT ![e] = IF @ = None THEN worker.uuid ELSE @]
  /\ worker' = [worker EXCEPT !.pc = "scan", !.todo = @ \ {e}, !.cur = None,
                              !.uuid = None]
  /\ UNCHANGED <<store, purged, graph, bounds>>

ScanDone ==
  /\ worker.pc = "scan" /\ worker.todo = {}
  /\ worker' = Asleep
  /\ UNCHANGED <<store, ledger, graph, bounds>>
-----------------------------------------------------------------------------
\* The process dies; a client call under way may still have taken effect.
Crash ==
  /\ worker.pc # "dead" /\ crashes < MaxCrashes
  /\ crashes' = crashes + 1
  /\ \/ UNCHANGED graph
     \/ worker.pc = "add" /\ Materialize(worker.cur)
     \/ /\ worker.pc = "remove"
        /\ episodes' = [episodes EXCEPT ![worker.cur] = @ \ {applied[worker.cur]}]
        /\ UNCHANGED minted
  /\ worker' = [Asleep EXCEPT !.pc = "dead"]
  /\ UNCHANGED <<store, ledger, faults, rebuilds>>

\* The node is started again: the ledger and the graph are as they were.
Restart ==
  /\ worker.pc = "dead"
  /\ worker' = Asleep
  /\ UNCHANGED <<store, ledger, graph, bounds>>

WorkerStep ==
  \/ StartCycle \/ PurgeDone \/ RemoveSucceeds \/ RecordRedaction
  \/ ListEvents \/ ReadEvents \/ AddSucceeds \/ RecordApplied \/ ScanDone
  \/ \E e \in Events : PurgeNext(e) \/ ScanNext(e)

Next ==
  \/ \E e \in Events : CommitEvent(e) \/ PublishTombstone(e) \/ UnlinkEvent(e) \/ HideEvent(e)
  \/ WorkerStep
  \/ StartSweep \/ StartRebuild
  \/ RemoveFails \/ AddFails \/ Crash \/ Restart

Spec == Init /\ [][Next]_vars

\* run_forever keeps calling run_once_async and a dead node is restarted;
\* commits, redactions, sweeps and rebuilds need never happen.
FairSpec == Spec /\ WF_vars(WorkerStep) /\ WF_vars(Restart)
-----------------------------------------------------------------------------
(***************************************************************************)
(* Properties                                                              *)
(***************************************************************************)

\* run_once_async: an event is recorded as applied only when every earlier
\* event its scan read is applied or redacted, so materialization never
\* advances past an event that failed.
NeverAdvancesPastPending ==
  [][\A e \in Events :
       worker.mode = "cycle" /\ applied[e] = None /\ applied'[e] # None =>
         \A d \in worker.seen : d < e => applied[d] # None \/ d \in purged]_vars

\* The is_applied skip is sound: an event marked applied with an episode uuid
\* is in the graph unless its redaction has begun, over crashes, failing
\* clients and destructive rebuilds.
AppliedIsMaterialized ==
  \A e \in Events :
    applied[e] \in Nat /\ e \notin tombs \cup hidden => applied[e] \in episodes[e]

\* At-least-once with a bound: apart from calls that failed or were cut off
\* by a crash, an event has at most one episode.
DuplicatesNeedInterruptions ==
  \A e \in Events : Cardinality(episodes[e]) <= 1 + crashes + faults

\* A redaction record in the ledger means that the graph holds no episode of
\* the event (remove_event_async, purge_event_redactions_async).  A crash
\* between add_episode and record_applied refutes it.
PurgeLeavesNothing ==
  \A e \in purged : episodes[e] = {}

\* Without crashes and failed client calls it holds, whatever is committed,
\* redacted, hidden and rebuilt in the middle of a cycle or a sweep.
UninterruptedPurgeIsClean == crashes + faults = 0 => PurgeLeavesNothing

\* Every accepted event is eventually applied, or redacted one way or another,
\* whatever fails in between.
EventuallyProjected ==
  \A e \in Events :
    e \in stored ~> (applied[e] # None \/ e \in tombs \/ e \in purged)

\* Every tombstone is eventually honoured by the projection.
EventuallyPurged ==
  \A e \in Events : e \in tombs ~> e \in purged
=============================================================================
