------------------------------- MODULE Query -------------------------------
(***************************************************************************)
(* One query with its receipt (application/query): the retriever returns   *)
(* anything, context security resolves it against the mounted documents,   *)
(* lineage adds the endpoints of durable relations, the model answers      *)
(* anything, its claims are resolved again, and a receipt records the run. *)
(* A receipt can be kept and a replay compared with it.                    *)
(*                                                                         *)
(* A document or retrieved item is [id, pack, type, text, source, target,  *)
(* cite]; "" is an absent field.  Hashes are the values they hash.         *)
(* Metadata is a set of leaves [path, value] of nested mappings.           *)
(***************************************************************************)
EXTENDS Integers, SequencesExt

CONSTANTS Documents,       \* [revision, item]: the documents of each revision
          Requests,        \* what clients ask: [query, mounts, scope, limit, labelled],
                           \* and the retriever and reranker that are asked
          Items,           \* what a retriever may return
          Outputs,         \* what a model may answer
          Models,          \* how it was reached: [metadata, requested, attempts]
          Recorded(_),     \* the receipts worth keeping for a replay
          MaxExpansions,
          SecretKeys,      \* metadata keys that look like credentials
          Absent

VARIABLES pc, request, candidates,
          seen,            \* the context items the model was given
          response, query_receipt,
          kept             \* an earlier run [receipt, seen, response], or Absent

qvars == <<pc, request, candidates, seen, response, query_receipt, kept>>

AbsentItem == [id |-> "", pack |-> "", type |-> "", text |-> "", source |-> "",
               target |-> "", cite |-> ""]
IdsOf(items) == [i \in DOMAIN items |-> items[i].id]
Elements(s) == {s[i] : i \in DOMAIN s}

(* Context security.                                                       *)

_untrusted_id(item) == "untrusted:" \o item.pack \o ":" \o item.text

\* Documents are the claims and relations a pack's corpus is rebuilt from
\* (pack_corpus), and none has the name that is made up for an item without one.
ASSUME QueryAssumption ==
  /\ \A d \in Documents :
       /\ d.item.id # "" /\ d.item.type # "untrusted_context"
       /\ \A item \in Items : d.item.id # _untrusted_id(item)
  /\ \A r \in Requests : r.limit \in Int
  /\ \A output \in Outputs : output.claims \in Seq(Elements(output.claims))

\* The item as data: everything it claims about itself is gone.
demoted(item) ==
  [AbsentItem EXCEPT !.id = IF item.id = "" THEN _untrusted_id(item) ELSE item.id,
                     !.pack = item.pack, !.text = item.text, !.type = "untrusted_context"]

\* Defect: the scope of an item is the pack it claims.
secure_one_claimed(durable, scope, s, item) ==
  IF item.pack \notin scope
  THEN [s EXCEPT !.dropped = Append(@, item.id)]
  ELSE IF item.id \in DOMAIN durable
  THEN IF item.id \in Elements(s.canonicalized)
       THEN [s EXCEPT !.deduplicated = Append(@, item.id)]
       ELSE [s EXCEPT !.secured = Append(@, durable[item.id]),
                      !.canonicalized = Append(@, item.id)]
  ELSE IF [pack |-> item.pack, text |-> item.text] \in s.prints
  THEN [s EXCEPT !.deduplicated = Append(@, item.id)]
  ELSE [s EXCEPT !.secured = Append(@, demoted(item)),
                 !.demoted = Append(@, demoted(item).id),
                 !.prints = @ \cup {[pack |-> item.pack, text |-> item.text]}]

\* One retrieved item: a mounted document in its own words, data, or nothing.
secure_one(durable, scope, s, item) ==
  IF item.id \in DOMAIN durable
  THEN IF durable[item.id].pack \notin scope
       THEN [s EXCEPT !.dropped = Append(@, item.id)]
       ELSE IF item.id \in Elements(s.canonicalized)
       THEN [s EXCEPT !.deduplicated = Append(@, item.id)]
       ELSE [s EXCEPT !.secured = Append(@, durable[item.id]),
                      !.canonicalized = Append(@, item.id),
                      !.mismatched = IF item = durable[item.id] THEN @ ELSE Append(@, item.id)]
  ELSE IF item.pack \notin scope
  THEN [s EXCEPT !.dropped = Append(@, item.id)]
  ELSE IF [pack |-> item.pack, text |-> item.text] \in s.prints
  THEN [s EXCEPT !.deduplicated = Append(@, IF item.id = "" THEN _untrusted_id(item) ELSE item.id)]
  ELSE [s EXCEPT !.secured = Append(@, demoted(item)),
                 !.demoted = Append(@, demoted(item).id),
                 !.prints = @ \cup {[pack |-> item.pack, text |-> item.text]}]

NothingSecured ==
  [secured |-> <<>>, canonicalized |-> <<>>, mismatched |-> <<>>, demoted |-> <<>>,
   dropped |-> <<>>, deduplicated |-> <<>>, prints |-> {}]

canonicalize_untrusted_context(items, durable, scope) ==
  LET after[n \in 0..Len(items)] ==
        IF n = 0 THEN NothingSecured ELSE secure_one(durable, scope, after[n - 1], items[n])
  IN  after[Len(items)]

(* Lineage.                                                                *)

\* The endpoint a relation refers to, if it is durable, in scope and new.
with_endpoint(items, durable, scope, ids, ref) ==
  IF ref \in DOMAIN durable /\ durable[ref].pack \in scope
     /\ ref \notin Elements(IdsOf(items)) \cup Elements(ids)
  THEN Append(ids, ref) ELSE ids

\* The bound is looked at after an expansion and after a relation.
expand_one(items, durable, scope, s, item) ==
  IF s.full \/ item.type # "relation" THEN s
  ELSE LET source == with_endpoint(items, durable, scope, s.ids, item.source)
           both == IF source # s.ids /\ Len(source) >= MaxExpansions
                   THEN source ELSE with_endpoint(items, durable, scope, source, item.target)
       IN  [ids |-> both, full |-> Len(both) >= MaxExpansions]

\* The endpoints of the relations among the items, in their order.
expanded_ids(items, durable, scope) ==
  LET after[n \in 0..Len(items)] ==
        IF n = 0 THEN [ids |-> <<>>, full |-> FALSE]
        ELSE expand_one(items, durable, scope, after[n - 1], items[n])
  IN  after[Len(items)].ids

expand_context_with_lineage(items, durable, scope) ==
  LET ids == expanded_ids(items, durable, scope)
  IN  items \o [i \in DOMAIN ids |-> durable[ids[i]]]

(* The answer.  An output is [outcome, answer, claims, confidence, tools]; *)
(* a claim is [id, text, cite].                                            *)

Abstention == [outcome |-> "insufficient_evidence", answer |-> "Insufficient evidence.",
               claims |-> <<>>, confidence |-> 1]

Resolves(c, durable, scope) ==
  c.id \in DOMAIN durable /\ durable[c.id].pack \in scope /\ durable[c.id].type = "claim"

\* Claims in the words of their documents; one that does not resolve, and the
\* whole answer is an abstention.  Executable fields do not pass.
resolve_output(output, durable, scope) ==
  LET payload(id) == [id |-> id, text |-> durable[id].text, cite |-> durable[id].cite]
  IN  IF \E i \in DOMAIN output.claims : ~Resolves(output.claims[i], durable, scope)
      THEN Abstention
      ELSE [outcome |-> output.outcome, answer |-> output.answer,
            claims |-> [i \in DOMAIN output.claims |-> payload(output.claims[i].id)],
            confidence |-> output.confidence]

invalid_ids(output, durable, scope) ==
  LET among[n \in 0..Len(output.claims)] ==
        IF n = 0 THEN <<>>
        ELSE IF Resolves(output.claims[n], durable, scope) THEN among[n - 1]
        ELSE Append(among[n - 1], output.claims[n].id)
  IN  among[Len(output.claims)]

(* The receipt.                                                            *)

sanitize_diagnostics(metadata) ==
  {leaf \in metadata : Elements(leaf.path) \cap SecretKeys = {}}

\* The service as asked for and as it answered; attempts are [provider, outcome].
build_service_invocation(role, service) ==
  LET asked == IF service.requested = Absent THEN service.provider ELSE service.requested
  IN  [role |-> role, requested |-> asked,
       actual |-> [provider |-> service.provider,
                   metadata |-> sanitize_diagnostics(service.metadata)],
       attempts |-> service.attempts,
       fallback_used |-> \/ asked # service.provider
                         \/ \E i \in DOMAIN service.attempts :
                              service.attempts[i].outcome \notin {"", "success"}]

\* A reranker is known only by the items it returned.
_services(r, items, model) ==
  <<build_service_invocation("retriever", r.retriever)>>
  \o (IF items = <<>> \/ r.reranker = Absent THEN <<>>
      ELSE <<build_service_invocation("reranker", r.reranker)>>)
  \o <<build_service_invocation("model", model)>>

\* A pack may be named twice, at one revision.
mounts_are_exact(mounts) ==
  /\ mounts # {} /\ \A m \in mounts : m.pack # "" /\ m.revision # ""
  /\ \A m, n \in mounts : m.pack = n.pack => m = n

scope_is_mounted(r) == r.scope # {} /\ r.scope \subseteq {m.pack : m \in r.mounts}

\* The wording of a query; spacing is not part of it.
normalize_query(query) == query.words

\* Rank, identity and pack of what was retrieved; scores are left out.
_retrieval_candidates(items) ==
  [i \in DOMAIN items |-> [rank |-> i, id |-> items[i].id, pack |-> items[i].pack]]

_resolver_records(resp) ==
  <<[resolver |-> "security", resolved |-> resp.security.canonicalized,
     added |-> resp.security.demoted,
     removed |-> resp.security.dropped \o resp.security.deduplicated,
     final |-> IdsOf(resp.security.secured),
     diagnostics |-> <<resp.security.mismatched, resp.blocked, resp.invalid>>],
    [resolver |-> "lineage", resolved |-> resp.expanded, added |-> resp.expanded,
     removed |-> <<>>, final |-> IdsOf(resp.security.secured) \o resp.expanded,
     diagnostics |-> <<MaxExpansions>>]>>

_nonempty(ids) == SelectSeq(ids, LAMBDA id : id # "")

\* What the last resolver that forwarded anything forwarded, and the
\* candidates when none did.
_final_context_ids(items, records) ==
  LET named == {i \in DOMAIN records : records[i].final # <<>>}
  IN  IF named # {} THEN records[Max(named)].final ELSE _nonempty(IdsOf(items))

AbstentionOutcomes ==
  {"insufficient_evidence", "conflicting_evidence", "current_state_unresolved"}

\* The text of the answer is not part of it.
build_query_execution_receipt(r, items, resp) ==
  LET cited == {c.cite : c \in Elements(resp.output.claims)} \ {""} IN
  [query |-> normalize_query(r.query), packs |-> r.mounts, scope |-> r.scope, policy |-> r.labelled,
   services |-> _services(r, items, resp.service),
   retrieval |-> _retrieval_candidates(items),
   resolvers |-> _resolver_records(resp),
   context |-> [ids |-> _final_context_ids(items, _resolver_records(resp)), citations |-> cited],
   result |-> [outcome |-> resp.output.outcome,
               abstained |-> resp.output.outcome \in AbstentionOutcomes,
               claims |-> IdsOf(resp.output.claims), citations |-> cited,
               confidence |-> resp.output.confidence]]

_execution_identity(c) ==
  <<c.query, c.packs, c.scope, c.policy, c.services,
    [i \in DOMAIN c.resolvers |-> c.resolvers[i].resolver]>>

_result_identity(c) == <<c.retrieval, c.resolvers, c.context, c.result>>

Dimensions == {"query", "packs", "scope", "policy", "services", "retrieval", "resolvers",
               "context", "result"}

\* Defect: what the resolvers did is taken to follow from what was retrieved.
changed_dimensions_retrieval(before, after) ==
  {d \in Dimensions \ {"resolvers", "context"} : before[d] # after[d]}

changed_dimensions(before, after) == {d \in Dimensions : before[d] # after[d]}

compare_query_execution_receipts(before, after) ==
  [changed |-> changed_dimensions(before, after),
   execution_identity_match |-> _execution_identity(before) = _execution_identity(after),
   result_identity_match |-> _result_identity(before) = _result_identity(after),
   corpus_revision_changed |->
     /\ {m.pack : m \in before.packs} = {m.pack : m \in after.packs}
     /\ before.packs # after.packs]
-----------------------------------------------------------------------------
\* The documents of the mounted revisions, by id; the services are built
\* from them.
Mounted(r) ==
  LET here == {d \in Documents : [pack |-> d.item.pack, revision |-> d.revision] \in r.mounts}
  IN  [id \in {d.item.id : d \in here} |-> (CHOOSE d \in here : d.item.id = id).item]

QueryInit ==
  /\ pc = "idle" /\ request = Absent /\ candidates = <<>> /\ seen = <<>>
  /\ response = Absent /\ query_receipt = Absent /\ kept = Absent

\* execute_query_with_receipt up to the retriever's answer.
Retrieve(r, items) ==
  /\ pc = "idle"
  /\ r.limit >= 1 /\ mounts_are_exact(r.mounts) /\ scope_is_mounted(r)
  /\ Len(items) <= r.limit
  /\ request' = r /\ candidates' = items /\ pc' = "retrieved"
  /\ UNCHANGED <<seen, response, query_receipt, kept>>

\* The inner wrapper: what it hands to the model and what it reports.
LineageResolvedModelService(items, durable, scope) ==
  [context |-> expand_context_with_lineage(items, durable, scope),
   expanded |-> expanded_ids(items, durable, scope)]

\* The outer wrapper, UntrustedContextModelService: security, lineage, the
\* model, security.
RunModel(output, model) ==
  LET durable == Mounted(request)
      security == canonicalize_untrusted_context(candidates, durable, request.scope)
      lineage == LineageResolvedModelService(security.secured, durable, request.scope)
  IN  /\ pc = "retrieved"
      /\ seen' = lineage.context
      /\ response' = [output |-> resolve_output(output, durable, request.scope),
                      security |-> security,
                      expanded |-> lineage.expanded,
                      blocked |-> output.tools,
                      invalid |-> invalid_ids(output, durable, request.scope),
                      service |-> model]
      /\ pc' = "answered"
      /\ UNCHANGED <<request, candidates, query_receipt, kept>>

\* Words, and the names of projection, policy and trace.
receipt_demands(r) == normalize_query(r.query) # <<>> /\ r.labelled

\* The receipt's own demands come last: a run that misses them has used the
\* model and leaves neither answer nor receipt.
Record ==
  /\ pc = "answered"
  /\ IF receipt_demands(request)
     THEN /\ pc' = "done"
          /\ query_receipt' = build_query_execution_receipt(request, candidates, response)
     ELSE pc' = "failed" /\ UNCHANGED query_receipt
  /\ UNCHANGED <<request, candidates, seen, response, kept>>

\* The receipt is kept and the query may be run again.
Keep ==
  /\ pc = "done" /\ kept = Absent /\ Recorded(query_receipt)
  /\ kept' = [receipt |-> query_receipt, seen |-> seen, response |-> response]
  /\ pc' = "idle" /\ request' = Absent /\ candidates' = <<>> /\ seen' = <<>>
  /\ response' = Absent /\ query_receipt' = Absent

QueryNext ==
  \/ \E r \in Requests : \E items \in SeqOf(Items, r.limit) : Retrieve(r, items)
  \/ \E output \in Outputs, model \in Models : RunModel(output, model)
  \/ Record
  \/ Keep

QuerySpec == QueryInit /\ [][QueryNext]_qvars
-----------------------------------------------------------------------------
\* What the model is told as knowledge is a mounted document, word for word,
\* and once; everything else is marked as data and claims no type, relation
\* or citation.  All of it is in the scope of the query, also what lineage
\* added, and that hangs on a relation the corpus has.
ContextIsDurableOrData ==
  pc \in {"answered", "done"} =>
    LET durable == Mounted(request)
        known == {i \in DOMAIN seen : seen[i].type # "untrusted_context"}
    IN  /\ \A i \in DOMAIN seen : seen[i].pack \in request.scope
        /\ \A i \in known : seen[i] = durable[seen[i].id]
        /\ \A i, j \in known : i # j => seen[i].id # seen[j].id
        /\ \A i \in DOMAIN seen \ known : seen[i].cite = "" /\ seen[i].source = ""
        /\ \A i \in known :
             \/ seen[i].id \in Elements(IdsOf(candidates))
             \/ \E j \in known : j < i /\ seen[i].id \in {seen[j].source, seen[j].target}

\* A claim of the answer is a mounted claim in its own words and with its own
\* citation, and an answer with any other claim is an abstention.
AnswerIsGrounded ==
  pc \in {"answered", "done"} =>
    LET durable == Mounted(request)
    IN  /\ \A c \in Elements(response.output.claims) :
             Resolves(c, durable, request.scope) /\ c.text = durable[c.id].text /\ c.cite = durable[c.id].cite
        /\ response.invalid # <<>> => response.output = Abstention

\* The last resolver's record names the context the model was given, in its
\* order, and so does the context; when the model was given nothing, the
\* context names what was retrieved, which is then what security removed.
ReceiptNamesTheContext ==
  pc = "done" =>
    LET records == query_receipt.resolvers IN
    /\ records[2].final = IdsOf(seen)
    /\ query_receipt.context.ids =
         IF seen # <<>> THEN IdsOf(seen) ELSE _nonempty(records[1].removed)

\* No credential of the metadata of a retriever, a reranker or a model is in
\* a receipt, at any depth.
ReceiptHoldsNoSecret ==
  query_receipt # Absent =>
    \A i \in DOMAIN query_receipt.services : \A leaf \in query_receipt.services[i].actual.metadata :
      Elements(leaf.path) \cap SecretKeys = {}

\* Two receipts without a changed dimension are of runs that agree: both
\* identities match, the model was given the same items, the same documents
\* in the same words, and the same claims came out, with the same outcome and
\* confidence.  The text of the answer may differ.
UnchangedReplayAgrees ==
  pc = "done" /\ kept # Absent =>
    LET c == compare_query_execution_receipts(kept.receipt, query_receipt) IN
    /\ c.changed = {} <=> c.execution_identity_match /\ c.result_identity_match
    /\ c.corpus_revision_changed => "packs" \in c.changed /\ ~c.execution_identity_match
    /\ c.changed = {} =>
         /\ kept.response.output.outcome = response.output.outcome
         /\ kept.response.output.claims = response.output.claims
         /\ kept.response.output.confidence = response.output.confidence
         /\ Len(kept.seen) = Len(seen)
         /\ \A i \in DOMAIN seen :
              IF seen[i].type = "untrusted_context"
              THEN kept.seen[i].type = "untrusted_context" /\ kept.seen[i].id = seen[i].id
              ELSE kept.seen[i] = seen[i]

\* What the model is told and what it may answer rest on the mounted corpus,
\* whatever the retriever and the model return (QueryService.answer).
AnswersRestOnTheCorpus == ContextIsDurableOrData /\ AnswerIsGrounded

\* A receipt tells the run it is of: the context the model saw, no credential,
\* and against a later receipt exactly whether the two runs agree.
ReceiptTellsTheRun ==
  ReceiptNamesTheContext /\ ReceiptHoldsNoSecret /\ UnchangedReplayAgrees
=============================================================================
