---------------------------- MODULE MCKnowledge ----------------------------
(***************************************************************************)
(* Two packs, A served by the node and B that mounts it.  Which clients    *)
(* are active is fixed at the start: agents and an eraser ("curate"),      *)
(* batches posted to the node, two under one correlation ("serve") or two  *)
(* with bad texts ("encode"), requests it answers before it                *)
(* writes anything ("refuse"), the readiness probe beside a batch          *)
(* ("watch"), operators rebuilding slots while an agent commits            *)
(* ("rebuild"), or migrating and switching them ("migrate").               *)
(***************************************************************************)
EXTENDS ProjectionOps

VARIABLE clients

mcvars == <<kvars, ovars, clients>>

MCPacks == {"A", "B"}
MCMounts == [A |-> {"A"}, B |-> {"A", "B"}]
MCWrites == [A |-> {"A"}, B |-> {"B"}]
MCSkills == [curator |-> {"search", "propose", "commit"}, reader |-> {"search", "propose"},
             promoter |-> {"commit"}]
MCCanWrite == [curator |-> {"A"}, reader |-> {"A"}, promoter |-> {"B"}]
MCKinds == [c1 |-> "Claim", c2 |-> "Claim", o1 |-> "Observation"]
MCRevisions == [A |-> "rev1"]

Claim(actor, key, at, c) ==
  Event("claim.proposed", "A", actor, key, at, <<c>>, [claim_text |-> key])
Change(key, at, c, to) ==
  Event("claim.state_changed", "A", "curator", key, at, <<c>>, [to_state |-> to])
Supersede(key, at, c) ==
  Event("claim.superseded", "A", "curator", key, at, <<c>>, [superseded_by |-> "c3"])
Relate(key, at, source, target) ==
  Event("relation.proposed", "A", "curator", key, at, <<"r1">>,
        [relation_id |-> "r1", relation_type |-> "DEPENDS_ON",
         source_ref |-> source, target_ref |-> target])
Accept(key, at, source, type, target) ==
  Event("relation.state_changed", "A", "curator", key, at, <<"r1">>,
        [relation_id |-> "r1", relation_type |-> "DEPENDS_ON", to_state |-> "active",
         source_ref |-> source, source_type |-> type, target_ref |-> target,
         target_type |-> "Claim", ontology_ref |-> CORE_ONTOLOGY_REF])

Premise == Claim("curator", "k1", 1, "c1")
Curated ==
  {Premise, Claim("curator", "k2", 1, "c2"), Relate("k3", 2, "c2", "c1"),
   Relate("k3b", 2, "o1", "c1"), Accept("k4", 3, "c2", "Claim", "c1"),
   Accept("k4b", 3, "o1", "Claim", "c1"),
   Change("k5", 2, "c2", "rejected"), Change("k6", 5, "c2", "supported"),
   Supersede("k7", 4, "c1"),
   Claim("reader", "k8", 1, "c1"),                       \* its session cannot commit
   [Premise EXCEPT !.payload = [claim_text |-> "other"]], \* a second content of k1
   build_promotion_event("promoter", "p1", 3, Premise, "rev1", "B", {"s1"}),
   [build_promotion_event("promoter", "p2", 3, Premise, "rev1", "B", {"s1"})
    EXCEPT !.subjects = <<"c2">>]}                       \* not a subject of k1

Draft(subject, text) == [subject |-> subject, text |-> text]
Request(pack, kind, source, correlation, claims) ==
  [pack |-> pack, source_kind |-> kind, source |-> source, correlation |-> correlation,
   claims |-> claims, at |-> 2]

MCRequests ==
  {Request("A", "paper", "s1", "i1", <<Draft("c1", "t"), Draft("c2", "t")>>),
   Request("A", "paper", "s1", "i1", <<Draft("c1", "t"), Draft("c2", "u")>>), \* same correlation
   Request("A", "paper", "s1", "i2", <<Draft("c1", "t"), Draft(" ", "t")>>), \* blank, not empty
   Request("A", "paper", "s1", "i4", <<Draft("", "t")>>),
   Request("A", "paper", "s1", "i5", <<Draft("c1", "t"), Draft("c2", "surrogate")>>),
   Request("A", "raw_ci_log", "s1", "i3", <<Draft("c1", "t")>>)}

MCOffers == Curated

\* What the builders of lifecycle and redaction events make passes the gate.
ASSUME BuildersMeetTheRegistry ==
  \A e \in {build_source_state_event(k, "node", "A", "s", 1, "s1", "src") : k \in SOURCE_EVENTS}
           \cup {build_redaction_event("node", "A", "x", 1, "s1")} :
    envelope_is_valid(e) /\ validate_event_for_commit(e, <<>>, {}, <<>>)

\* The identities are hashes: their order has nothing to do with the keys.
Ids == {event_id(e) : e \in MCOffers \cup UNION {Proposals(r) : r \in MCRequests}}
HashOrder ==
  <<"k8", "k2", "k1", "k6", "k5", "k3", "k3b", "k4", "k4b", "p2", "p1", "k7", "i1:1:c2",
    "i1:0:c1", "i2:0:c1", "i2:1: ", "i3:0:c1", "i4:0:", "i5:1:c2",
    "i5:0:c1">>
MCIdRank == [id \in Ids |-> CHOOSE n \in DOMAIN HashOrder : HashOrder[n] = id[2]]

Offered(who) ==
  CASE who = "curate" -> Curated
    [] who \in {"serve", "encode", "refuse", "watch", "migrate"} -> {}
    [] who = "rebuild" -> {Premise}

Init == KnowledgeInit /\ OpsInit /\
        clients \in {"curate", "serve", "encode", "refuse", "watch", "rebuild", "migrate"}

\* A batch posted beside the readiness probe too.
Watched == {r \in Requests : r.correlation = "i1" /\ r.claims[2].text = "t"}

\* When a request is posted.
Posted(r) ==
  IF r \notin Batches THEN {"refuse"}
  ELSE IF r \in Watched THEN {"serve", "watch"}
  ELSE IF r.correlation \in {"i2", "i5"} THEN {"encode"}
  ELSE {"serve"}

\* The requests stay idle unless they are the active clients; the first
\* operators say that they switch from no slot, and none goes on after the last
\* switch of the bound.
Next ==
  /\ UNCHANGED clients
  /\ \/ KnowledgeNext /\ UNCHANGED ovars
     \/ clients = "watch" /\ ReadinessNext /\ UNCHANGED kvars
     \/ clients \in {"rebuild", "migrate"} /\ MigrationNext /\ UNCHANGED kvars
  /\ \A r \in Requests :
       clients \notin Posted(r) => UNCHANGED <<ingest[r], answer[r]>>
  /\ clients = "rebuild" => UNCHANGED gone /\ Cardinality(switches') <= 1
  /\ \A o \in Operators : switches = {} => op'[o].from = None
  /\ Cardinality(switches) = MaxSwitches => UNCHANGED op
  /\ log' \ log \subseteq Offered(clients) \cup UNION {Proposals(r) : r \in Requests}

Fairness ==
  \A r \in Batches :
    WF_mcvars(clients \in Posted(r) /\ IngestStep(r) /\ UNCHANGED <<ovars, clients>>)

Spec == Init /\ [][Next]_mcvars /\ Fairness

\* Liveness of the ingest route under weak fairness of its own steps: a posted
\* batch gets an answer although the serving process may die in between.
ServedRequestsAreAnswered ==
  \A r \in Batches : clients \in Posted(r) => RequestIsAnswered(r)
=============================================================================
