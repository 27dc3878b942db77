----------------------------- MODULE Lifecycle -----------------------------
(***************************************************************************)
(* What a log of events means: the claims and relations it leaves          *)
(* (domain/lifecycle.py), read in the canonical order of                   *)
(* projection/migration.py.                                                *)
(***************************************************************************)
EXTENDS EventGate, SequencesExt

CONSTANT IdRank   \* the text order of event identities, by <<pack, key>>

\* Defect: the identity decides before the time.
canonical_event_order_byId(a, b) == IdRank[event_id(a)] < IdRank[event_id(b)]

canonical_event_order(a, b) ==
  \/ a.at < b.at
  \/ a.at = b.at /\ IdRank[event_id(a)] < IdRank[event_id(b)]

ordered_events(log) ==
  [i \in 1..Cardinality(log) |->
     CHOOSE e \in log : Cardinality({f \in log : canonical_event_order(f, e)}) = i - 1]

(* A knowledge state keeps the history of every claim and relation; the    *)
(* current state is the last of it.  raised: replay ended in an error.     *)
EmptyState == [claims |-> <<>>, relations |-> <<>>, raised |-> FALSE]
Raise(s) == [s EXCEPT !.raised = TRUE]

claim_state(s, c) == Last(s.claims[c])
relation_state(s, r) == Last(s.relations[r].history)

\* f with v for x.
With(f, x, v) == [y \in DOMAIN f \cup {x} |-> IF y = x THEN v ELSE f[y]]

change_claim(s, claim, target, expected) ==
  IF \/ claim \notin DOMAIN s.claims
     \/ target \notin CLAIM_STATES
     \/ expected # "" /\ claim_state(s, claim) # expected
  THEN Raise(s)
  ELSE [s EXCEPT !.claims = With(s.claims, claim, Append(s.claims[claim], target))]

TERMINAL == {"superseded", "retracted", "rejected"}

\* Defect: a terminal claim is marked like any other.
Dependencies_revive(s, premise, claim) ==
  {r \in DOMAIN s.relations :
     /\ s.relations[r].type = "DEPENDS_ON" /\ relation_state(s, r) = "active"
     /\ s.relations[r].target = premise /\ s.relations[r].source = claim}

\* Every active dependency on the premise of a claim that is not terminal.
Dependencies(s, premise, claim) ==
  {r \in DOMAIN s.relations :
     /\ s.relations[r].type = "DEPENDS_ON" /\ relation_state(s, r) = "active"
     /\ s.relations[r].target = premise /\ s.relations[r].source = claim
     /\ claim_state(s, claim) \notin TERMINAL}

\* Each such dependency appends once more to the history of its claim.
mark_dependents_stale(s, premise) ==
  IF s.raised THEN s
  ELSE [s EXCEPT !.claims =
          [c \in DOMAIN s.claims |->
             s.claims[c] \o [i \in 1..Cardinality(Dependencies(s, premise, c)) |->
                               "stale_pending_review"]]]

Field(payload, f) == IF f \in DOMAIN payload THEN payload[f] ELSE ""

propose_relation(s, p) ==
  LET state == IF "state" \in DOMAIN p THEN p.state ELSE "proposed"
  IN IF \/ p.relation_id \in DOMAIN s.relations
        \/ p.relation_type \notin RELATION_TYPES
        \/ state \notin RELATION_STATES
     THEN Raise(s)
     ELSE [s EXCEPT !.relations =
             With(s.relations, p.relation_id,
                  [type |-> p.relation_type, source |-> p.source_ref,
                   target |-> p.target_ref, history |-> <<state>>])]

change_relation(s, p, target) ==
  IF \/ p.relation_id \notin DOMAIN s.relations
     \/ Field(p, "from_state") # "" /\ relation_state(s, p.relation_id) # p.from_state
     \/ target \notin RELATION_STATES
  THEN Raise(s)
  ELSE LET r == s.relations[p.relation_id]
       IN  [s EXCEPT !.relations =
              With(s.relations, p.relation_id,
                   [r EXCEPT !.history = Append(r.history, target)])]

apply(s, e) ==
  LET p == e.payload
      subject == e.subjects[1]
  IN IF s.raised THEN s
     ELSE CASE e.kind = "claim.proposed" ->
                 IF subject \in DOMAIN s.claims THEN Raise(s)
                 ELSE [s EXCEPT !.claims = With(s.claims, subject, <<"proposed">>)]
            [] e.kind = "claim.state_changed" ->
                 change_claim(s, subject, p.to_state, Field(p, "from_state"))
            [] e.kind = "claim.superseded" ->
                 mark_dependents_stale(
                   change_claim(s, subject, "superseded", Field(p, "from_state")), subject)
            [] e.kind = "relation.proposed" -> propose_relation(s, p)
            [] e.kind = "relation.state_changed" -> change_relation(s, p, p.to_state)
            [] e.kind = "relation.superseded" -> change_relation(s, p, "superseded")
            [] OTHER -> s

replay(events) ==
  LET after[n \in 0..Len(events)] ==
        IF n = 0 THEN EmptyState ELSE apply(after[n - 1], events[n])
  IN  after[Len(events)]
=============================================================================
