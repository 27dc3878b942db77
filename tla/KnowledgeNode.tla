--------------------------- MODULE KnowledgeNode ---------------------------
(***************************************************************************)
(* One node and its writers: agents at the corpus boundary (agent.py,      *)
(* adapters/mcp), reviewed evidence over HTTP (runtime/network.py,         *)
(* application/ingest/reviewed_evidence.py) and privileged erasure, all    *)
(* over one durable log.                                                   *)
(*                                                                         *)
(* The log is the set of committed events; its publication protocol is     *)
(* DurableEventStore's, of which this is the contract: one content per     *)
(* identity, none after a tombstone.  Nothing holds a lock across two      *)
(* steps, so ingests, agents and erasures interleave, and the process may  *)
(* die between any two steps of an ingest.                                 *)
(***************************************************************************)
EXTENDS PackCorpus

CONSTANTS Agents,      \* sessions: AgentContext with its PackAccess
          Skills,      \* capabilities the skill of a session grants
          Current,     \* sessions whose skill version is the registered one
          CanWrite,    \* write targets of the PackAccess of a session
          Offers,      \* events an agent may hand to the boundary
          NodePack, NodeActor, \* the pack a node serves and its own session
          Requests,    \* bodies posted to /ingest
          EndpointKinds,       \* the endpoint resolver of the store
          Revisions,   \* mounted pack revisions, for the promotion resolver
          Unencodable, \* texts with a lone surrogate: JSON has them, UTF-8 has not
          MaxErasures, \* bound: erasures of events and of sources
          MaxCrashes,  \* bound: deaths of the serving process
          None

VARIABLES log,      \* committed events
          ever,     \* history: every event that was ever committed
          gone,     \* tombstones: identities whose event was erased
          stored,   \* source snapshots of each pack
          erased,   \* snapshots whose bytes were erased
          ingest,   \* progress of each request
          answer,   \* the last answer each request was given
          crashes

store == <<log, ever, gone>>
kvars == <<store, stored, erased, ingest, answer, crashes>>

Idle == [pc |-> "idle", next |-> 1]
Answers == {"created", "rejected", "invalid", "unauthorized", "unavailable", "internal"}

ASSUME NodeAssumption ==
  /\ NodePack \in Packs /\ NodeActor \notin Agents
  /\ \A r \in Requests : r.claims \in Seq({r.claims[i] : i \in DOMAIN r.claims})
  /\ MaxCrashes \in Nat /\ None \notin Answers

KnowledgeInit ==
  /\ log = {} /\ ever = {} /\ gone = {}
  /\ stored = [p \in Packs |-> {}] /\ erased = {}
  /\ ingest = [r \in Requests |-> Idle]
  /\ answer = [r \in Requests |-> None]
  /\ crashes = 0
-----------------------------------------------------------------------------
(* The store, as its callers see it.                                       *)

Live(id) == {e \in log : event_id(e) = id}

\* validate of the store does not raise.
validate(e) ==
  envelope_is_valid(e) /\ validate_event_for_commit(e, EndpointKinds, log, Revisions)

\* The canonical bytes of the event can be written.
encodes(e) == Field(e.payload, "claim_text") \notin Unencodable

\* commit raises: the gate, the tombstone, the encoding of the bytes, which no
\* validation tries, or another content under the id.
Refusal(e) ==
  IF ~validate(e) THEN "invalid"
  ELSE IF event_id(e) \in gone THEN "unavailable"   \* EventRedactedError is an OSError
  ELSE IF ~encodes(e) THEN "invalid"                \* UnicodeEncodeError is a ValueError
  ELSE IF Live(event_id(e)) \ {e} # {} THEN "internal"
  ELSE None

Commit(e) ==
  /\ Refusal(e) = None
  /\ log' = log \cup {e}
  /\ ever' = ever \cup {e}
  /\ UNCHANGED gone

(* The agent boundary.                                                     *)

authorized(a, capability) == a \in Current /\ capability \in Skills[a]

\* propose and validate assign an identity and change nothing: what an agent
\* commits is whatever event it presents, built by propose or not.
AgentCommit(a, e) ==
  /\ authorized(a, "commit")
  /\ e.pack \in CanWrite[a]
  /\ e.actor = a
  /\ Commit(e)
  /\ UNCHANGED <<stored, erased, ingest, answer, crashes>>

(* Reviewed evidence.                                                      *)

RAW_LOG_SOURCE_KINDS == {"raw_ci_log", "raw_build_log", "raw_runtime_log"}

\* Proposals cite the preserved source and take their identity from the
\* correlation, their position and their subject.
proposal(r, i) ==
  LET draft == r.claims[i]
  IN [Event("claim.proposed", NodePack, NodeActor,
            r.correlation \o ":" \o ToString(i - 1) \o ":" \o draft.subject, r.at,
            <<draft.subject>>, [claim_text |-> draft.text])
      EXCEPT !.evidence = {r.source}, !.snapshots = {r.source},
             !.method = "reviewed_evidence_ingest"]

Proposals(r) == {proposal(r, i) : i \in DOMAIN r.claims}

\* The canonical order sorts by recorded time, then by the text of the
\* identity, of which no two are alike (projection/migration.py).
ASSUME OrderAssumption ==
  \A e, f \in Offers \cup UNION {Proposals(r) : r \in Requests} :
    /\ e.at \in Int /\ IdRank[event_id(e)] \in Int
    /\ IdRank[event_id(e)] = IdRank[event_id(f)] => event_id(e) = event_id(f)

Answer(r, code) ==
  /\ ingest' = [ingest EXCEPT ![r] = Idle]
  /\ answer' = [answer EXCEPT ![r] = code]

Blank == {"", " "}    \* what str.strip reduces to nothing

\* Decoding refuses empty texts; blank ones pass it and are refused by ingest.
decodes(r) ==
  "" \notin {r.correlation, r.source_kind, r.source}
              \cup UNION {{c.subject, c.text} : c \in {r.claims[i] : i \in DOMAIN r.claims}}

\* The route's own checks, then those of ingest before anything is written.
early_answer(r) ==
  IF r.pack # NodePack \/ NodePack \notin Writes[NodePack] THEN "unauthorized"
  ELSE IF ~decodes(r) THEN "invalid"
  ELSE IF r.source_kind \in RAW_LOG_SOURCE_KINDS THEN "rejected"
  ELSE None

IngestBegin(r) ==
  /\ ingest[r].pc = "idle"
  /\ IF early_answer(r) # None
     THEN Answer(r, early_answer(r))
     ELSE /\ ingest' = [ingest EXCEPT ![r].pc = "source"]
          /\ UNCHANGED answer
  /\ UNCHANGED <<store, stored, erased, crashes>>

\* put_snapshot; an erased source cannot be preserved again.
IngestSource(r) ==
  /\ ingest[r].pc = "source"
  /\ IF r.source \in erased
     THEN Answer(r, "unavailable") /\ UNCHANGED stored
     ELSE /\ stored' = [stored EXCEPT ![NodePack] = @ \cup {r.source}]
          /\ ingest' = [ingest EXCEPT ![r].pc = "validate"]
          /\ UNCHANGED answer
  /\ UNCHANGED <<store, erased, crashes>>

draft_is_valid(r, i) ==
  {r.claims[i].subject, r.claims[i].text} \cap Blank = {} /\ validate(proposal(r, i))

\* Defect: the drafts before the first invalid one are committed.
IngestValidate_oneByOne(r) ==
  LET before == {i \in DOMAIN r.claims : \A j \in 1..i : draft_is_valid(r, j)}
  IN /\ ingest[r].pc = "validate"
     /\ IF r.claims # <<>> /\ before = DOMAIN r.claims
        THEN ingest' = [ingest EXCEPT ![r].pc = "commit"] /\ UNCHANGED <<answer, store>>
        ELSE /\ Answer(r, "invalid")
             /\ log' = log \cup {proposal(r, i) : i \in before}
             /\ ever' = ever \cup {proposal(r, i) : i \in before}
             /\ UNCHANGED gone
     /\ UNCHANGED <<stored, erased, crashes>>

\* The whole batch is validated before the first commit.
IngestValidate(r) ==
  /\ ingest[r].pc = "validate"
  /\ IF r.claims # <<>> /\ \A i \in DOMAIN r.claims : draft_is_valid(r, i)
     THEN ingest' = [ingest EXCEPT ![r].pc = "commit"] /\ UNCHANGED answer
     ELSE Answer(r, "invalid")
  /\ UNCHANGED <<store, stored, erased, crashes>>

\* Defect: a proposal the store refuses is tried again.
IngestCommit_again(r) ==
  LET e == proposal(r, ingest[r].next)
  IN /\ ingest[r].pc = "commit"
     /\ Commit(e)
     /\ IF ingest[r].next = Len(r.claims)
        THEN Answer(r, "created")
        ELSE ingest' = [ingest EXCEPT ![r].next = @ + 1] /\ UNCHANGED answer
     /\ UNCHANGED <<stored, erased, crashes>>

\* One commit of the batch; the last one answers.
IngestCommit(r) ==
  LET e == proposal(r, ingest[r].next)
  IN /\ ingest[r].pc = "commit"
     /\ IF Refusal(e) = None
        THEN /\ Commit(e)
             /\ IF ingest[r].next = Len(r.claims)
                THEN Answer(r, "created")
                ELSE ingest' = [ingest EXCEPT ![r].next = @ + 1] /\ UNCHANGED answer
        ELSE Answer(r, Refusal(e)) /\ UNCHANGED store
     /\ UNCHANGED <<stored, erased, crashes>>

\* The process dies; a client that was not answered posts its body again.
Crash ==
  /\ crashes < MaxCrashes
  /\ \E r \in Requests : ingest[r].pc # "idle"
  /\ crashes' = crashes + 1
  /\ ingest' = [r \in Requests |-> Idle]
  /\ UNCHANGED <<store, stored, erased, answer>>

(* Privileged erasure of an event or of the bytes of a source.             *)

Erasures == Cardinality(gone) + Cardinality(erased)

EraseEvent(e) ==
  /\ Erasures < MaxErasures
  /\ log' = log \ {e}
  /\ gone' = gone \cup {event_id(e)}
  /\ UNCHANGED <<ever, stored, erased, ingest, answer, crashes>>

EraseSource(s) ==
  /\ Erasures < MaxErasures
  /\ erased' = erased \cup {s}
  /\ UNCHANGED <<store, stored, ingest, answer, crashes>>

IngestStep(r) == IngestBegin(r) \/ IngestSource(r) \/ IngestValidate(r) \/ IngestCommit(r)

KnowledgeNext ==
  \/ \E a \in Agents, e \in Offers : AgentCommit(a, e)
  \/ \E r \in Requests : IngestStep(r)
  \/ Crash
  \/ \E e \in log : EraseEvent(e)
  \/ \E s \in stored[NodePack] \ erased : EraseSource(s)
-----------------------------------------------------------------------------
\* What the writers keep is well formed, and an identity is live or erased.
KnowledgeTypeOK ==
  /\ log \subseteq ever /\ ever \subseteq Offers \cup UNION {Proposals(r) : r \in Requests}
  /\ gone = {event_id(e) : e \in ever \ log}
  /\ \A e, f \in ever : event_id(e) = event_id(f) => e = f
  /\ erased \subseteq stored[NodePack]
  /\ \A r \in Requests : /\ ingest[r].pc \in {"idle", "source", "validate", "commit"}
                         /\ answer[r] \in Answers \cup {None}
  /\ crashes \in 0..MaxCrashes

\* An event that names an agent was accepted from a session of that agent
\* whose skill grants commit, in a pack it may write, whatever other sessions
\* hand in (agent.py commit, _require_actor_match).
AgentEventsAreAttributed ==
  \A e \in ever : e.actor \in Agents =>
    authorized(e.actor, "commit") /\ e.pack \in CanWrite[e.actor]

\* What enters the log in the name of the node does not before the source it
\* cites is preserved, crashes and repeated posts included
\* (reviewed_evidence.py ingest).
EvidencePrecedesClaim ==
  \A e \in ever : e.actor = NodeActor => e.snapshots \subseteq stored[NodePack]

\* A request answered 201 has every proposal of its batch in the log, with its
\* own content, except those erased since.
ReceiptIsBacked ==
  \A r \in Requests : answer[r] = "created" =>
    \A i \in DOMAIN r.claims :
       proposal(r, i) \in log \/ event_id(proposal(r, i)) \in gone

\* A request refused as invalid, rejected or unauthorized wrote none of its
\* proposals, for the batch is validated as a whole before its first commit:
\* but validation does not encode, so those before a text that cannot be
\* encoded stay in the log of a batch answered invalid (event_store.py commit).
RefusedBatchLeavesNothing ==
  \A r \in Requests : answer[r] \in {"invalid", "rejected", "unauthorized"} =>
    \A e \in Proposals(r) \cap ever :
      \/ \E q \in Requests \ {r} : e \in Proposals(q)
      \/ /\ answer[r] = "invalid"
         /\ \E i, j \in DOMAIN r.claims :
              e = proposal(r, i) /\ i < j /\ ~encodes(proposal(r, j))

\* The source a promotion pins was committed in its source pack with all the
\* promoted subjects, and no other content ever stands under that identity,
\* not even after its erasure (promotion.py, event store commit).
PromotionMeaningIsFixed ==
  \A e \in {x \in ever : x.kind = "knowledge.promoted"} :
    LET pinned == {s \in ever : event_id(s) = <<e.payload.source_pack_id,
                                               e.payload.source_event_id>>}
    IN /\ Cardinality(pinned) = 1
       /\ \A s \in pinned : ToSet(e.subjects) \subseteq ToSet(s.subjects) /\ s.pack # e.pack

\* Reading the log in canonical order, a relation that is active joins resolved
\* endpoints of legal kinds, unless an acceptance of it named other endpoints
\* than its proposal: acceptance checks the endpoints it names itself
\* (event_contracts.py), replay keeps those of the proposal (lifecycle.py).
ActiveRelationIsLegal ==
  LET s == replay(ordered_events(log))
      other(r) == \E e \in log :
        /\ e.kind \in {"relation.state_changed", "relation.superseded"}
        /\ e.payload.relation_id = r
        /\ <<e.payload.relation_type, e.payload.source_ref, e.payload.target_ref>>
             # <<s.relations[r].type, s.relations[r].source, s.relations[r].target>>
  IN \A r \in DOMAIN s.relations :
       s.raised \/ relation_state(s, r) # "active" \/ other(r) \/
       LET rel == s.relations[r]
       IN /\ resolves(EndpointKinds, rel.source) /\ resolves(EndpointKinds, rel.target)
          /\ endpoints_are_legal(rel.type, EndpointKinds[rel.source],
                                 EndpointKinds[rel.target], CORE_ONTOLOGY_REF)

About(e, c) == e.kind \in DOMAIN ClaimContracts /\ e.subjects[1] = c
Moves(e, r) == e.kind \in DOMAIN RelationContracts /\ e.payload.relation_id = r

\* A claim that still stands on a superseded premise through an active
\* dependency awaits review, unless it or the dependency changed later in the
\* log; and no dependency revives a claim its own last event made terminal
\* (lifecycle.py mark_dependents_stale).
DependentsAwaitReview ==
  LET events == ordered_events(log)
      s == replay(events)
  IN s.raised \/
     /\ \A i \in DOMAIN events, r \in DOMAIN s.relations :
          LET d == s.relations[r].source
          IN /\ events[i].kind = "claim.superseded"
             /\ s.relations[r].target = events[i].subjects[1]
             /\ s.relations[r].type = "DEPENDS_ON" /\ relation_state(s, r) = "active"
             /\ d \in DOMAIN s.claims
             /\ \A j \in i + 1..Len(events) : ~About(events[j], d) /\ ~Moves(events[j], r)
             => claim_state(s, d) \in TERMINAL \cup {"stale_pending_review"}
     /\ \A i \in DOMAIN events :
          LET c == events[i].subjects[1]
              to == IF events[i].kind = "claim.superseded" THEN "superseded"
                    ELSE Field(events[i].payload, "to_state")
          IN /\ events[i].kind \in {"claim.state_changed", "claim.superseded"}
             /\ to \in TERMINAL
             /\ \A j \in i + 1..Len(events) : ~About(events[j], c)
             => claim_state(s, c) = to

\* When the audit of the packs passes, the documents of every cutoff can be
\* rebuilt, each history recorded by then is the beginning of the history
\* known now, and it hangs on the same proposing event
\* (pack_corpus.py: the audit replays the whole log only).
PastIsReconstructable ==
  audit_passes(log, stored, {c \in DOMAIN EndpointKinds : EndpointKinds[c] = "Claim"}) =>
    \A t \in {e.at : e \in log} :
      /\ documents_can_be_built(log, t)
      /\ \A p \in Packs : \A d \in documents(log, p, t) :
           \E n \in documents(log, p, Max({e.at : e \in log})) :
             d.id = n.id /\ IsPrefix(d.history, n.history) /\ d.event = n.event

\* Every posted batch that is not turned away at once is eventually answered,
\* although the process may die between any two of its steps.
Batches == {r \in Requests : early_answer(r) = None}
RequestIsAnswered(r) == <>(answer[r] # None)

\* The node's answers match its log: a receipt is for committed claims, which
\* their evidence precedes, and a refused batch has left no claim behind but
\* before one that cannot be encoded (reviewed_evidence.py ingest: validation
\* of all, then commits one by one).
AnswersMatchTheLog ==
  /\ KnowledgeTypeOK
  /\ ReceiptIsBacked /\ RefusedBatchLeavesNothing /\ EvidencePrecedesClaim

\* An event is in the log on the authority it names: an agent's under its own
\* actor and grants, a promotion with the meaning its source had.
EventsKeepTheirAuthority == AgentEventsAreAttributed /\ PromotionMeaningIsFixed

\* Replaying the log, whatever its order of arrival, activates only relations
\* the ontology allows and leaves no claim standing on a superseded premise.
ReplayIsSound == ActiveRelationIsLegal /\ DependentsAwaitReview
=============================================================================
