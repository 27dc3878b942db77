----------------------------- MODULE EventGate -----------------------------
(***************************************************************************)
(* The acceptance boundary of the durable store: the registry of event     *)
(* types (domain/event_contracts.py), the promotion source pin             *)
(* (domain/promotion.py) and the builders of lifecycle events              *)
(* (domain/provenance.py, domain/evidence.py).                             *)
(*                                                                         *)
(* An event is a record [kind, pack, actor, key, at, subjects, evidence,   *)
(* snapshots, causes, method, payload].  A payload maps field names to     *)
(* strings; "" is the empty text and "list" stands for a non-empty list.   *)
(***************************************************************************)
EXTENDS Ontology, Naturals, FiniteSets, TLC

CLAIM_STATES == {"proposed", "open", "supported", "disputed", "rejected",
                 "superseded", "retracted", "stale_pending_review"}
RELATION_STATES == {"proposed", "active", "disputed", "superseded", "invalidated"}
PROMOTION_CONTRACT_VERSION == "dkg.promotion.v2"

\* deterministic_event_id: the hash of the pack and the idempotency key.
event_id(e) == <<e.pack, e.key>>

(* A payload field is one of these; "text" is non-empty, "any" may be empty. *)
FieldIsValid(type, value) ==
  CASE type = "any" -> TRUE
    [] type = "text" -> value # ""
    [] type = "list" -> value = "list"
    [] type = "claim_state" -> value \in CLAIM_STATES
    [] type = "relation_state" -> value \in RELATION_STATES
    [] type = "relation_type" -> value \in RELATION_TYPES
    [] type = "entity_type" -> value \in ENTITY_TYPES
    [] type = "promotion" -> value = PROMOTION_CONTRACT_VERSION
    [] type = "source_status" -> value \in {"verbatim", "reconstructed", "mixed"}

EvidencePolicy(refs, snapshots, method) ==
  [evidence_refs |-> refs, source_snapshot_refs |-> snapshots, method |-> method]
NoPolicy == EvidencePolicy("optional", "optional", "optional")

Contract(eligibility, required, properties, policy, constrained) ==
  [commit_eligibility |-> eligibility, required |-> required,
   properties |-> properties, evidence_policy |-> policy, ontology |-> constrained]

RELATION_ENDPOINT_PROPERTIES ==
  [ontology_ref |-> "text", relation_type |-> "relation_type",
   source_ref |-> "text", source_type |-> "entity_type",
   target_ref |-> "text", target_type |-> "entity_type"]

ClaimContracts ==
  [kind \in {"claim.proposed", "claim.state_changed", "claim.superseded"} |->
     CASE kind = "claim.proposed" ->
            Contract("proposal_only", {"claim_text"}, [claim_text |-> "any"], NoPolicy, FALSE)
       [] kind = "claim.state_changed" ->
            Contract("accepted", {"to_state"},
                     [from_state |-> "claim_state", to_state |-> "claim_state"], NoPolicy, FALSE)
       [] kind = "claim.superseded" ->
            Contract("accepted", {"superseded_by"},
                     [from_state |-> "claim_state", superseded_by |-> "text"], NoPolicy, FALSE)]

\* The endpoints, the relation and the states an event of a relation names.
RelationFields(states) ==
  RELATION_ENDPOINT_PROPERTIES @@ [relation_id |-> "text"]
  @@ [f \in states |-> "relation_state"]

RelationContracts ==
  LET endpoints == DOMAIN RELATION_ENDPOINT_PROPERTIES
  IN [kind \in {"relation.proposed", "relation.state_changed", "relation.superseded"} |->
        CASE kind = "relation.proposed" ->
               Contract("proposal_only",
                        {"relation_id", "relation_type", "source_ref", "target_ref"},
                        RelationFields({"state"}), NoPolicy, TRUE)
          [] kind = "relation.state_changed" ->
               Contract("accepted", {"relation_id", "to_state"} \cup endpoints,
                        RelationFields({"from_state", "to_state"}), NoPolicy, TRUE)
          [] kind = "relation.superseded" ->
               Contract("accepted", {"relation_id"} \cup endpoints,
                        RelationFields({"from_state"}), NoPolicy, TRUE)]

SOURCE_EVENTS == {"source.stale", "source.retracted", "source.restored"}

SourceContracts ==
  [k \in SOURCE_EVENTS |->
     Contract("accepted", {"snapshot_id", "source_id", "reason"},
              [snapshot_id |-> "text", source_id |-> "text", reason |-> "any"],
              EvidencePolicy("optional", "required", "required"), FALSE)]

EvidenceContracts ==
  LET redacted == [artifact_id |-> "text", snapshot_ids |-> "any", reason |-> "text",
                   authority |-> "text", request_ref |-> "any", redacted_at |-> "text"]
      ingested == [conversation_id |-> "text", source_status |-> "source_status",
                   source_artifact_ids |-> "list", message_ids |-> "list"]
  IN "evidence.redacted" :>
         Contract("accepted", DOMAIN redacted, redacted,
                  EvidencePolicy("optional", "optional", "required"), FALSE)
     @@ "conversation.ingested" :>
         Contract("accepted", DOMAIN ingested, ingested @@ [lineage_id |-> "text"],
                  EvidencePolicy("required", "optional", "optional"), FALSE)
     @@ "review.completed" :>
         Contract("accepted", {"decision"}, [decision |-> "text"],
                  EvidencePolicy("optional", "optional", "required"), FALSE)

PromotionContract ==
  LET fields == [contract_version |-> "promotion", source_pack_id |-> "text",
                 source_pack_revision |-> "text", source_event_id |-> "text",
                 target_pack_id |-> "text", reason |-> "any"]
  IN "knowledge.promoted" :>
       Contract("accepted", DOMAIN fields, fields,
                EvidencePolicy("required", "optional", "required"), FALSE)

OtherContracts == SourceContracts @@ EvidenceContracts @@ PromotionContract

EVENT_TYPE_CONTRACTS ==
  [kind \in DOMAIN ClaimContracts \cup DOMAIN RelationContracts \cup DOMAIN OtherContracts |->
     CASE kind \in DOMAIN ClaimContracts -> ClaimContracts[kind]
       [] kind \in DOMAIN RelationContracts -> RelationContracts[kind]
       [] OTHER -> OtherContracts[kind]]

\* The registered payload schema accepts the payload; unknown fields pass.
PayloadIsValid(contract, payload) ==
  /\ contract.required \subseteq DOMAIN payload
  /\ \A f \in DOMAIN payload \cap DOMAIN contract.properties :
       FieldIsValid(contract.properties[f], payload[f])

\* _validate_relation_semantics: a proposal stays proposed and, when it names
\* its kinds, names them all and legally; an acceptance is resolved.
RelationIsValid(kind, payload, kinds) ==
  LET named == {"ontology_ref", "source_type", "target_type"} \cap DOMAIN payload
  IN IF kind = "relation.proposed"
     THEN /\ "state" \in DOMAIN payload => payload.state = "proposed"
          /\ \/ named = {}
             \/ /\ named = {"ontology_ref", "source_type", "target_type"}
                /\ endpoints_are_legal(payload.relation_type, payload.source_type,
                                       payload.target_type, payload.ontology_ref)
     ELSE resolved_endpoints_are_legal(payload, kinds)

\* Defect: the promoted subjects are not compared with those of the source.
PromotionIsPinned_unbound(e, sources, revisions) ==
  /\ e.payload.target_pack_id = e.pack
  /\ e.payload.source_pack_id # e.payload.target_pack_id
  /\ \E s \in sources : event_id(s) = <<e.payload.source_pack_id, e.payload.source_event_id>>

\* validate_promotion_source: exactly one event is pinned, in another pack, at
\* the mounted revision, and it carries every promoted subject.  The resolver
\* is the mounted store: the events it can still read and their revisions.
PromotionIsPinned(e, sources, revisions) ==
  /\ e.payload.source_pack_id # "" /\ e.payload.source_pack_revision # ""
  /\ e.payload.target_pack_id = e.pack
  /\ e.payload.source_pack_id # e.payload.target_pack_id
  /\ e.payload.source_pack_id \in DOMAIN revisions
  /\ revisions[e.payload.source_pack_id] = e.payload.source_pack_revision
  /\ \E s \in sources :
       /\ event_id(s) = <<e.payload.source_pack_id, e.payload.source_event_id>>
       /\ e.subjects # <<>>
       /\ \A i \in DOMAIN e.subjects : \E j \in DOMAIN s.subjects :
            e.subjects[i] = s.subjects[j]

\* prepare: the envelope schema, of which an event here can only break the
\* rule that it names at least one subject and no empty one.
envelope_is_valid(e) == e.subjects # <<>> /\ \A i \in DOMAIN e.subjects : e.subjects[i] # ""

\* validate_event_for_commit does not raise.
validate_event_for_commit(e, kinds, sources, revisions) ==
  /\ e.kind \in DOMAIN EVENT_TYPE_CONTRACTS
  /\ LET contract == EVENT_TYPE_CONTRACTS[e.kind]
         policy == contract.evidence_policy
     IN /\ PayloadIsValid(contract, e.payload)
        /\ contract.ontology => RelationIsValid(e.kind, e.payload, kinds)
        /\ e.kind = "knowledge.promoted" => PromotionIsPinned(e, sources, revisions)
        /\ policy.evidence_refs = "required" => e.evidence # {}
        /\ policy.source_snapshot_refs = "required" => e.snapshots # {}
        /\ policy.method = "required" => e.method # ""

Event(kind, pack, actor, key, at, subjects, payload) ==
  [kind |-> kind, pack |-> pack, actor |-> actor, key |-> key, at |-> at,
   subjects |-> subjects, evidence |-> {}, snapshots |-> {}, causes |-> {},
   method |-> "", payload |-> payload]

\* build_promotion_event.
build_promotion_event(actor, key, at, s, revision, target, evidence) ==
  [Event("knowledge.promoted", target, actor, key, at, s.subjects,
         [contract_version |-> PROMOTION_CONTRACT_VERSION, source_pack_id |-> s.pack,
          source_pack_revision |-> revision, source_event_id |-> s.key,
          target_pack_id |-> target, reason |-> ""])
   EXCEPT !.evidence = evidence, !.method = "explicit_cross_pack_promotion"]

\* build_source_state_event.
build_source_state_event(kind, actor, pack, key, at, snapshot, source) ==
  [Event(kind, pack, actor, key, at, <<snapshot, source>>,
         [snapshot_id |-> snapshot, source_id |-> source, reason |-> ""])
   EXCEPT !.snapshots = {snapshot}, !.method = "source_lifecycle"]

\* build_redaction_event.
build_redaction_event(actor, pack, key, at, artifact) ==
  [Event("evidence.redacted", pack, actor, key, at, <<artifact>>,
         [artifact_id |-> artifact, snapshot_ids |-> "", reason |-> "privacy",
          authority |-> "owner", request_ref |-> "", redacted_at |-> "then"])
   EXCEPT !.method = "artifact_redaction_tombstone"]
=============================================================================
