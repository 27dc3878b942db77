------------------------------ MODULE Ontology ------------------------------
(* The pinned core ontology (domain/ontology.py): which endpoint kinds a     *)
(* relation type may connect, and how an accepted relation is checked.       *)

CORE_ONTOLOGY_REF == "dkg.core@1.0.0"

ENTITY_TYPES ==
  {"Artifact", "Episode", "Source", "Evidence", "Claim", "Assumption", "Argument",
   "Observation", "Experiment", "Decision", "Question", "Concept", "Methodology"}

Endpoints(s, t) == [source_types |-> s, target_types |-> t]
Knowledge == {"Claim", "Concept", "Methodology"}

RELATION_ENDPOINT_TYPES ==
  [SUPPORTS |-> Endpoints({"Evidence", "Claim", "Observation", "Experiment"},
                          {"Claim", "Assumption", "Decision"}),
   CHALLENGES |-> Endpoints({"Evidence", "Claim", "Observation", "Argument"},
                            {"Claim", "Assumption", "Decision"}),
   CONTRADICTS |-> Endpoints({"Claim", "Evidence", "Observation"},
                             {"Claim", "Assumption"}),
   REFINES |-> Endpoints(Knowledge, Knowledge),
   DEPENDS_ON |-> Endpoints({"Claim", "Decision", "Argument", "Methodology"},
                            {"Claim", "Assumption", "Concept", "Source"}),
   ASSUMES |-> Endpoints({"Claim", "Argument", "Decision", "Methodology"},
                         {"Assumption", "Claim"}),
   DERIVED_FROM |-> Endpoints(Knowledge \cup {"Decision", "Evidence"},
                              {"Artifact", "Episode", "Source", "Evidence",
                               "Claim", "Observation"}),
   EXEMPLIFIES |-> Endpoints({"Observation", "Evidence", "Episode"}, Knowledge),
   SUPERSEDES |-> Endpoints(Knowledge \cup {"Decision"}, Knowledge \cup {"Decision"}),
   RELATED_TO |-> Endpoints(Knowledge \cup {"Source"}, Knowledge \cup {"Source"}),
   BROADER_THAN |-> Endpoints({"Concept"}, {"Concept"}),
   NARROWER_THAN |-> Endpoints({"Concept"}, {"Concept"})]

RELATION_TYPES == DOMAIN RELATION_ENDPOINT_TYPES

\* validate_relation_endpoints does not raise.
endpoints_are_legal(relation_type, source_type, target_type, ontology_ref) ==
  /\ ontology_ref = CORE_ONTOLOGY_REF
  /\ relation_type \in RELATION_TYPES
  /\ source_type \in RELATION_ENDPOINT_TYPES[relation_type].source_types
  /\ target_type \in RELATION_ENDPOINT_TYPES[relation_type].target_types

\* _resolve_endpoint: an endpoint the resolver does not know, or knows under
\* no registered kind, raises.  A resolver is a function; no resolver is <<>>.
resolves(resolver, endpoint_ref) ==
  endpoint_ref \in DOMAIN resolver /\ resolver[endpoint_ref] \in ENTITY_TYPES

\* validate_resolved_relation_endpoints does not raise.
resolved_endpoints_are_legal(payload, resolver) ==
  /\ resolves(resolver, payload.source_ref)
  /\ resolves(resolver, payload.target_ref)
  /\ payload.source_type = resolver[payload.source_ref]
  /\ payload.target_type = resolver[payload.target_ref]
  /\ endpoints_are_legal(payload.relation_type, resolver[payload.source_ref],
                         resolver[payload.target_ref], payload.ontology_ref)
=============================================================================
