----------------------------- MODULE PackCorpus -----------------------------
(***************************************************************************)
(* The audit of a set of durable packs (pack_fixture.py) and the retrieval *)
(* documents rebuilt from it as of a recorded time                         *)
(* (application/rebuild/pack_corpus.py).                                   *)
(*                                                                         *)
(* The packs are the events of the log by pack, and the snapshots each     *)
(* pack stores; a snapshot and its artifact go by one name.                *)
(***************************************************************************)
EXTENDS Lifecycle

CONSTANTS Packs,    \* the audited packs
          Mounts,   \* read_mounts of each pack
          Writes    \* write_targets of each pack

events_of(log, p) == {e \in log : e.pack = p}

\* _owners: the packs that hold an identity.
event_owners(log, key) == {e.pack : e \in {x \in log : x.key = key}}
claim_owners(log, c) ==
  {e.pack : e \in {x \in log : x.kind = "claim.proposed" /\ x.subjects[1] = c}}
relation_owners(log, r) ==
  {e.pack : e \in {x \in log : x.kind = "relation.proposed" /\ x.payload.relation_id = r}}
snapshot_owners(stored, s) == {p \in Packs : s \in stored[p]}

\* _require_readable_owner: some owner is mounted by the pack that refers to it.
readable(p, owners) == owners \cap Mounts[p] # {}

Claims(log) == {e.subjects[1] : e \in {x \in log : x.kind = "claim.proposed"}}
Relations(log) ==
  {e.payload.relation_id : e \in {x \in log : x.kind = "relation.proposed"}}

\* No claim or relation is proposed in two packs.
identities_are_global(log) ==
  /\ \A c \in Claims(log) : Cardinality(claim_owners(log, c)) <= 1
  /\ \A r \in Relations(log) : Cardinality(relation_owners(log, r)) <= 1

\* Evidence, snapshots, causes and the claims a relation joins are readable.
references_are_readable(log, stored, claims, e) ==
  /\ \A a \in e.evidence \cup e.snapshots : readable(e.pack, snapshot_owners(stored, a))
  /\ \A k \in e.causes : readable(e.pack, event_owners(log, k))
  /\ e.kind = "relation.proposed" =>
       \A c \in {e.payload.source_ref, e.payload.target_ref} \cap claims :
          readable(e.pack, claim_owners(log, c))

\* validate_pack_fixtures does not raise; claims are the names with a claim
\* prefix.  A pack that holds events can write itself.
audit_passes(log, stored, claims) ==
  /\ \A e \in log : e.pack \in Packs /\ e.pack \in Writes[e.pack]
  /\ identities_are_global(log)
  /\ \A e \in log : references_are_readable(log, stored, claims, e)
  /\ \A p \in Packs : ~replay(ordered_events(events_of(log, p))).raised

\* _events_for_pack: what was recorded up to the cutoff.
events_as_of(log, p, cutoff) == {e \in events_of(log, p) : e.at <= cutoff}

state_as_of(log, p, cutoff) == replay(ordered_events(events_as_of(log, p, cutoff)))

\* The proposing events the documents are built around.
claim_event(log, p, cutoff, c) ==
  {e \in events_as_of(log, p, cutoff) : e.kind = "claim.proposed" /\ e.subjects[1] = c}
relation_event(log, p, cutoff, r) ==
  {e \in events_as_of(log, p, cutoff) :
     e.kind = "relation.proposed" /\ e.payload.relation_id = r}

\* retrieval_documents_from_pack_fixtures does not raise: every pack replays,
\* every claim and relation has the event that proposed it.
documents_can_be_built(log, cutoff) ==
  \A p \in Packs :
    LET s == state_as_of(log, p, cutoff)
    IN /\ ~s.raised
       /\ \A c \in DOMAIN s.claims : claim_event(log, p, cutoff, c) # {}
       /\ \A r \in DOMAIN s.relations : relation_event(log, p, cutoff, r) # {}

\* The documents of a pack: identity, text, history and the proposing event.
claim_documents(log, p, cutoff) ==
  LET s == state_as_of(log, p, cutoff)
  IN {[id |-> c, history |-> s.claims[c], event |-> claim_event(log, p, cutoff, c)] :
        c \in DOMAIN s.claims}
relation_documents(log, p, cutoff) ==
  LET s == state_as_of(log, p, cutoff)
  IN {[id |-> r, history |-> s.relations[r].history, type |-> s.relations[r].type,
       source |-> s.relations[r].source, target |-> s.relations[r].target,
       event |-> relation_event(log, p, cutoff, r)] : r \in DOMAIN s.relations}
documents(log, p, cutoff) == claim_documents(log, p, cutoff) \cup relation_documents(log, p, cutoff)
=============================================================================
