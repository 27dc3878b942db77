--------------------------- MODULE ProjectionOps ---------------------------
(***************************************************************************)
(* Operating the projections of a node: the readiness probe                *)
(* (runtime/network.py NodeReadinessProbe) and blue/green migration        *)
(* (projection/migration.py), while the log keeps changing.                *)
(*                                                                         *)
(* The projector is reduced to what its ledger records; its own protocol   *)
(* is Projector's.                                                         *)
(***************************************************************************)
EXTENDS KnowledgeNode

CONSTANTS Slots,       \* projection builds
          Operators,   \* concurrent callers of compare_and_switch
          MaxLag,      \* max_projection_lag_events
          MaxSwitches, \* bound: published switches
          MaxStamp     \* bound: distinct switched_at that callers give

VARIABLES applied,     \* ledger: identities applied to the node's projection
          purged,      \* ledger: identities whose redaction was projected
          probe,       \* a readiness check: what it read, its verdict
          content,     \* events materialized in each slot
          op,          \* progress of each operator
          switches     \* published switch records

ovars == <<applied, purged, probe, content, op, switches>>

ASSUME VerdictAssumption == None # "ready"

NoProbe == [pc |-> "idle", canonical |-> FALSE, events |-> {}, created |-> {},
            verdict |-> None]
NoOp == [pc |-> "idle", to |-> None, expected |-> {}, from |-> None, seen |-> {}]

OpsInit ==
  /\ applied = {} /\ purged = {} /\ probe = NoProbe
  /\ content = [s \in Slots |-> {}]
  /\ op = [o \in Operators |-> NoOp]
  /\ switches = {}
-----------------------------------------------------------------------------
Apply(e) ==
  /\ e \in log /\ applied' = applied \cup {event_id(e)}
  /\ UNCHANGED <<purged, probe, content, op, switches>>

Purge(id) ==
  /\ id \in gone /\ purged' = purged \cup {id}
  /\ UNCHANGED <<applied, probe, content, op, switches>>

\* _canonical_status: the roots and the events are read, or that raises (a
\* concurrent erasure is enough); then the projection is awaited.  created is
\* for the property: the requests whose last answer was 201 by then.
ProbeRead(available) ==
  /\ probe.pc # "await"
  /\ probe' = [pc |-> "await", canonical |-> available, verdict |-> None,
               events |-> IF available THEN log ELSE {},
               created |-> {r \in Requests : answer[r] = "created"}]
  /\ UNCHANGED <<applied, purged, content, op, switches>>

pending_event_ids ==
  {e \in probe.events : event_id(e) \notin applied /\ event_id(e) \notin purged}

lag == Cardinality(pending_event_ids)

\* The probe of the graph failed, or the canonical status and the lag decide.
ProbeDecide(reachable) ==
  /\ probe.pc = "await"
  /\ probe' = [probe EXCEPT !.pc = "answered",
                 !.verdict = IF reachable /\ probe.canonical /\ lag <= MaxLag
                             THEN "ready" ELSE "not_ready"]
  /\ UNCHANGED <<applied, purged, content, op, switches>>

\* destructive_rebuild: destroy, then replay the log; a failed receipt raises
\* and leaves the slot as it came out.
DestructiveRebuild(s, complete) ==
  /\ content' = [content EXCEPT ![s] = IF complete THEN log ELSE {}]
  /\ UNCHANGED <<applied, purged, probe, op, switches>>

\* SemanticSnapshot.from_events, which raises when the log does not replay.
SemanticSnapshot(S) ==
  LET s == replay(ordered_events(S))
  IN [event_ids |-> [i \in 1..Cardinality(S) |-> event_id(ordered_events(S)[i])],
      pack_event_ids |-> {<<e.pack, event_id(e)>> : e \in S},
      namespace_subject_refs |->
        [p \in {e.pack : e \in S} |-> UNION {ToSet(e.subjects) : e \in events_of(S, p)}],
      provenance_by_event |-> {<<event_id(e), e.actor, e.evidence, e.snapshots,
                                 e.causes, e.method>> : e \in S},
      claim_states |-> [c \in DOMAIN s.claims |-> claim_state(s, c)],
      relation_states |-> {<<r, s.relations[r].type, s.relations[r].source,
                             s.relations[r].target, relation_state(s, r)>> :
                             r \in DOMAIN s.relations},
      event_type_counts |-> [k \in {e.kind : e \in S} |-> Cardinality({e \in S : e.kind = k})],
      raised |-> s.raised]

MigrationBegin(o, to) ==
  /\ op[o].pc = "idle"
  /\ ~SemanticSnapshot(log).raised
  /\ op' = [op EXCEPT ![o] = [pc |-> "compare", to |-> to,
                              expected |-> log, from |-> None, seen |-> {}]]
  /\ UNCHANGED <<applied, purged, probe, content, switches>>

\* ProjectionComparator.compare: no field differs and the benchmarks passed.
passed(expected, candidate, benchmarks) ==
  /\ benchmarks
  /\ ~SemanticSnapshot(candidate).raised
  /\ SemanticSnapshot(expected) = SemanticSnapshot(candidate)

Compare(o, benchmarks) ==
  /\ op[o].pc = "compare"
  /\ op' = [op EXCEPT ![o] = IF passed(op[o].expected, content[op[o].to], benchmarks)
                             THEN [op[o] EXCEPT !.pc = "switch", !.expected = {}] ELSE NoOp]
  /\ UNCHANGED <<applied, purged, probe, content, switches>>

\* Defect: the records are sorted by their identity.
Later_byId(x, y) == x.uid > y.uid

\* iter_switches sorts by switched_at, then by the random switch_id.
Later(x, y) == x.stamp > y.stamp \/ (x.stamp = y.stamp /\ x.uid > y.uid)
active_switch == {x \in switches : \A y \in switches \ {x} : Later(x, y)}

\* record_switch up to its check of the active slot; from_slot is the
\* caller's.  seen is for the property: the records read.
SwitchRead(o, from) ==
  /\ op[o].pc = "switch"
  /\ op' = [op EXCEPT ![o] = IF \A x \in active_switch : from = x.to
                             THEN [op[o] EXCEPT !.pc = "publish", !.from = from,
                                                 !.seen = {x.uid : x \in switches}]
                             ELSE NoOp]
  /\ UNCHANGED <<applied, purged, probe, content, switches>>

\* The record, without the digests and the manifest nothing reads back.
Switch(o, at, uid) ==
  [from |-> op[o].from, to |-> op[o].to, stamp |-> at, uid |-> uid, seen |-> op[o].seen]

\* switched_at is the caller's or the clock of its host: it need not come
\* after that of any record.  switch_id is random.
SwitchPublish(o, at, uid) ==
  /\ op[o].pc = "publish"
  /\ Cardinality(switches) < MaxSwitches
  /\ uid \notin {x.uid : x \in switches}
  /\ switches' = switches \cup {Switch(o, at, uid)}
  /\ op' = [op EXCEPT ![o] = NoOp]
  /\ UNCHANGED <<applied, purged, probe, content>>

ReadinessNext ==
  \/ \E e \in log : Apply(e)
  \/ \E id \in gone : Purge(id)
  \/ \E b \in BOOLEAN : ProbeRead(b) \/ ProbeDecide(b)

MigrationNext ==
  \/ \E s \in Slots, complete \in BOOLEAN : DestructiveRebuild(s, complete)
  \/ \E o \in Operators : \/ \E to \in Slots : MigrationBegin(o, to)
                          \/ \E benchmarks \in BOOLEAN : Compare(o, benchmarks)
                          \/ \E from \in Slots \cup {None} : SwitchRead(o, from)
                          \/ \E at \in 1..MaxStamp, uid \in 1..MaxSwitches :
                               SwitchPublish(o, at, uid)

\* The writers and the operators interleave; nothing holds a lock for both.
OpsNext ==
  \/ KnowledgeNext /\ UNCHANGED ovars
  \/ (ReadinessNext \/ MigrationNext) /\ UNCHANGED kvars

OpsSpec == KnowledgeInit /\ OpsInit /\ [][OpsNext]_<<kvars, ovars>>
-----------------------------------------------------------------------------
\* What a client was told is created before a check read the log is in the
\* ledger of the projection when that check answers ready, but for the lag it
\* tolerates and what was erased, whatever was posted, erased or projected
\* while the check awaited the graph (network.py readyz, ingest).
ReadyServesTheCreated ==
  probe.verdict = "ready" =>
    \E S \in SUBSET probe.events :
      /\ Cardinality(S) <= MaxLag
      /\ \A r \in probe.created : \A i \in DOMAIN r.claims :
           \/ proposal(r, i) \in S
           \/ event_id(proposal(r, i)) \in applied \cup purged \cup gone

\* The order the ledger is read in: by switched_at, then by switch_id.
RecordedBefore(x, y) == x.stamp < y.stamp \/ (x.stamp = y.stamp /\ x.uid < y.uid)

\* The ledger explains itself: a record switches from the slot of the record
\* it is read after, although other operators publish between its check and
\* its publication, unless its operator had not seen that record, or gave a
\* time before that of another record it had seen (migration.py record_switch).
SwitchesFormAChain ==
  \A x, y \in switches :
    /\ RecordedBefore(x, y)
    /\ ~\E z \in switches : RecordedBefore(x, z) /\ RecordedBefore(z, y)
    /\ x.uid \in y.seen
    /\ \A z \in switches : z.uid \in y.seen => RecordedBefore(z, y)
    => y.from = x.to

\* Readers are sent to a projection that has what they expect: what was
\* acknowledged before a ready answer is there, and the history of the active
\* slot is one of switches from the slot before.
ProjectionsAreServedRight == ReadyServesTheCreated /\ SwitchesFormAChain
=============================================================================
