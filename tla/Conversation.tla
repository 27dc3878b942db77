---------------------------- MODULE Conversation ----------------------------
(***************************************************************************)
(* Durable conversations and their lineage (conversation.py): an importer  *)
(* composes an envelope over immutable artifacts, the store checks its     *)
(* provenance byte by byte and publishes it once, and a lineage of         *)
(* positions is read over it.  Once it is committed its artifacts may be   *)
(* erased at any moment.                                                   *)
(*                                                                         *)
(* Bytes are members of a small set; Lead and Cont are the two bytes of    *)
(* the one character that takes two.  Offsets count from 0, a span is      *)
(* named by what it spans, edge ids are numbers in their order.            *)
(***************************************************************************)
EXTENDS Ordering, SequencesExt

CONSTANTS ArtifactBytes,  \* artifact -> its bytes
          Lead, Cont,
          Sources,        \* the sets of sources an import starts from
          Spans,          \* spans the importer may write
          Messages,       \* messages the importer may write
          MaxParts,       \* spans, and messages, of one envelope
          Lineages,       \* lineages asked for
          Nil

VARIABLES draft,          \* the envelope being composed
          committed,      \* the conversation file, Nil before it exists
          view,           \* the lineage that was constructed over it
          erased          \* redacted artifacts

convars == <<draft, committed, view, erased>>

Statuses == {"verbatim", "reconstructed", "mixed"}
Named(S, id) == CHOOSE x \in S : x.id = id
Ids(S) == {x.id : x \in S}
Unique(S) == Cardinality(Ids(S)) = Cardinality(S)
is_text(bytes) ==
  \A i \in DOMAIN bytes :
    /\ bytes[i] = Lead => i < Len(bytes) /\ bytes[i + 1] = Cont
    /\ bytes[i] = Cont => i > 1 /\ bytes[i - 1] = Lead

Span(source, start, end, status) ==
  [id |-> <<source.id, start, end, status>>, source |-> source.id, start |-> start,
   end |-> end, status |-> status]

\* add_source takes verbatim and reconstructed bytes only; sequence is an
\* integer; a lineage is a finite document; None is not a span.
ASSUME ConversationAssumption ==
  /\ \A a \in DOMAIN ArtifactBytes : ArtifactBytes[a] \in Seq(Range(ArtifactBytes[a]))
  /\ \A S \in Sources : \A s \in S :
       /\ s.status \in {"verbatim", "reconstructed"} /\ s.artifact \in DOMAIN ArtifactBytes
       /\ \A from, to \in 0..Len(ArtifactBytes[s.artifact]) : Span(s, from, to, s.status) # Nil
  /\ \A m \in Messages : m.sequence \in Int /\ m.text \in Seq(Range(m.text))
  /\ \A l \in Lineages : /\ IsFiniteSet(l.nodes) /\ IsFiniteSet(l.edges)
                         /\ \A e \in l.edges : e.id \in Int

\* The span of the given occurrence of a text, Nil when there are not so many.
span_for_text(source, needle, occurrence, status) ==
  LET data == ArtifactBytes[source.artifact]
      at == {n \in 0..(Len(data) - Len(needle)) : SubSeq(data, n + 1, n + Len(needle)) = needle}
      find(cursor) == LET later == {n \in at : n >= cursor} IN IF later = {} THEN -1 ELSE Min(later)
      start[k \in 0..occurrence] ==
        IF k = 0 THEN find(0)
        ELSE IF start[k - 1] = -1 THEN -1 ELSE find(start[k - 1] + Len(needle))
  IN  IF start[occurrence] = -1 THEN Nil
      ELSE Span(source, start[occurrence], start[occurrence] + Len(needle), status)

\* The bytes of a span of the envelope, Nil when it cannot be resolved.
resolve_span_bytes(envelope, id) ==
  IF id \notin Ids(envelope.spans) THEN Nil
  ELSE LET span == Named(envelope.spans, id)
       IN  IF span.source \notin Ids(envelope.sources) THEN Nil
           ELSE LET artifact == Named(envelope.sources, span.source).artifact
                IN  IF \/ artifact \in erased
                       \/ span.end <= span.start \/ span.end > Len(ArtifactBytes[artifact])
                    THEN Nil
                    ELSE SubSeq(ArtifactBytes[artifact], span.start + 1, span.end)

\* Each span is decoded on its own: one that splits a character has no text.
resolve_span_text(envelope, id) ==
  LET bytes == resolve_span_bytes(envelope, id)
  IN  IF bytes = Nil THEN Nil ELSE IF is_text(bytes) THEN bytes ELSE Nil

SpansAreSound(envelope) ==
  /\ Unique(envelope.sources) /\ Unique(envelope.spans)
  /\ \A s \in envelope.sources : s.artifact \notin erased
  /\ \A s \in envelope.spans :
       /\ s.source \in Ids(envelope.sources)
       /\ s.status = "verbatim" => Named(envelope.sources, s.source).status # "reconstructed"
       /\ resolve_span_bytes(envelope, s.id) # Nil

\* Defect: the words are compared, the status of the spans is not.
MessageIsExact_text(envelope, m) ==
  m.status = "verbatim" =>
    /\ \A i \in DOMAIN m.refs : resolve_span_text(envelope, m.refs[i]) # Nil
    /\ m.text = FlattenSeq([i \in DOMAIN m.refs |-> resolve_span_text(envelope, m.refs[i])])

MessageIsExact(envelope, m) ==
  m.status = "verbatim" =>
    /\ \A i \in DOMAIN m.refs : /\ Named(envelope.spans, m.refs[i]).status = "verbatim"
                                /\ resolve_span_text(envelope, m.refs[i]) # Nil
    /\ m.text = FlattenSeq([i \in DOMAIN m.refs |-> resolve_span_text(envelope, m.refs[i])])

MessagesAreSound(envelope) ==
  LET messages == envelope.messages IN
  /\ Unique(messages)
  /\ Cardinality({m.sequence : m \in messages}) = Cardinality(messages)
  /\ \A m \in messages :
       /\ m.parent # Nil => /\ m.parent \in Ids(messages)
                             /\ Named(messages, m.parent).sequence < m.sequence
       /\ Range(m.refs) \subseteq Ids(envelope.spans)
       /\ MessageIsExact(envelope, m)

\* The envelope's schema wants a part of each kind.
_validate_provenance(envelope) ==
  LET found == {m.status : m \in envelope.messages} IN
  /\ envelope.spans # {} /\ envelope.messages # {}
  /\ SpansAreSound(envelope)
  /\ MessagesAreSound(envelope)
  /\ envelope.status = "verbatim" => found = {"verbatim"}
  /\ envelope.status = "reconstructed" => "verbatim" \notin found

ordered_messages(envelope) ==
  InOrder(envelope.messages, [m \in envelope.messages |-> m.sequence])

build_ingested_event(envelope) ==
  [source_status |-> envelope.status,
   evidence |-> {s.artifact : s \in envelope.sources},
   message_ids |-> [i \in DOMAIN ordered_messages(envelope) |-> ordered_messages(envelope)[i].id]]

(* Lineage: nodes are [id, kind, state, status, messages, spans], edges    *)
(* [id, source, target, relation].                                         *)

OPPOSITION_RELATIONS == {"challenges", "rebuts"}
PATH_RELATIONS == {"leads_to", "supports", "reframes", "supersedes", "depends_on"}

NodeIsGrounded(envelope, node) ==
  /\ node.messages \subseteq Ids(envelope.messages)
  /\ \A id \in node.spans : resolve_span_bytes(envelope, id) # Nil
  /\ node.status = "verbatim" =>
       \A id \in node.messages : Named(envelope.messages, id).status = "verbatim"

_validate_references(envelope, lineage) ==
  /\ Unique(lineage.nodes) /\ Unique(lineage.edges)
  /\ \A e \in lineage.edges : {e.source, e.target} \subseteq Ids(lineage.nodes)
  /\ \A n \in lineage.nodes : NodeIsGrounded(envelope, n)
  /\ \A id \in lineage.current :
       /\ id \in Ids(lineage.nodes)
       /\ Named(lineage.nodes, id).kind \in {"conclusion", "decision"}
       /\ Named(lineage.nodes, id).state = "current"

historical_nodes(lineage) == {n.id : n \in {m \in lineage.nodes : m.state = "historical"}}

\* The edges out of a node, in the order of their ids.
edges_from(edges, node) ==
  LET out == {e \in edges : e.source = node} IN InOrder(out, [e \in out |-> e.id])

\* The target of an edge that is not visited is queued behind the others, by
\* the path p to it, and marked.
enqueue_one(s, p, e) ==
  IF e.target \in s.visited THEN s
  ELSE [queue |-> Append(s.queue, Append(p, e.target)),
        visited |-> s.visited \cup {e.target}, found |-> s.found]

enqueue(s, p, out) ==
  LET after[i \in 0..Len(out)] ==
        IF i = 0 THEN s ELSE enqueue_one(after[i - 1], p, out[i])
  IN  after[Len(out)]

Over(s) == s.queue = <<>> \/ s.found # <<>>

\* Defect: a node is marked when it is taken, not when it is queued, and what
\* it leads to is taken first.
take_deep(edges, end, s) ==
  LET p == Head(s.queue)
      next == {e \in edges : e.source = Last(p) /\ e.target \notin s.visited}
      out == edges_from(next, Last(p))
  IN  IF Over(s) THEN s
      ELSE IF Last(p) = end THEN [s EXCEPT !.found = p]
      ELSE [queue |-> [i \in DOMAIN out |-> Append(p, out[i].target)] \o Tail(s.queue),
            visited |-> s.visited \cup {Last(p)}, found |-> s.found]

\* One round, unless the search is over: the first path of the queue is taken.
take(edges, end, s) ==
  LET p == Head(s.queue) IN
  IF Over(s) THEN s
  ELSE IF Last(p) = end THEN [queue |-> s.queue, visited |-> s.visited, found |-> p]
  ELSE enqueue([queue |-> Tail(s.queue), visited |-> s.visited, found |-> s.found],
               p, edges_from(edges, Last(p)))

\* Breadth first; each node is queued once, for the start or for an edge to it,
\* so there are no more rounds than edges, and one.
search(edges, start, end) ==
  LET after[n \in 0..(Cardinality(edges) + 1)] ==
        IF n = 0 THEN [queue |-> <<<<start>>>>, visited |-> {start}, found |-> <<>>]
        ELSE take(edges, end, after[n - 1])
  IN  after[Cardinality(edges) + 1].found

\* An empty set of relations means the default one.
path(lineage, start, end, relations) ==
  LET allowed == IF relations = {} THEN PATH_RELATIONS ELSE relations
  IN  search({e \in lineage.edges : e.relation \in allowed}, start, end)

opposing_positions(lineage, id) ==
  {IF e.source = id THEN e.target ELSE e.source : e \in
     {d \in lineage.edges : d.relation \in OPPOSITION_RELATIONS /\ id \in {d.source, d.target}}}

\* The texts of a node's spans; one without text is an error, not a miss.
citations(envelope, node) == {resolve_span_text(envelope, id) : id \in node.spans}

\* pairs is read twice: a list, not a generator.
benchmark(envelope, lineage, required, conclusion, pairs) ==
  LET cited == Range(required) \cup {conclusion} \cup UNION {{p[1], p[2]} : p \in pairs} IN
  /\ path(lineage, required[1], Last(required), {}) = required
  /\ \A id \in cited : LET texts == citations(envelope, Named(lineage.nodes, id))
                       IN  texts # {} /\ Nil \notin texts
  /\ conclusion \in lineage.current
  /\ historical_nodes(lineage) # {}
  /\ \A p \in pairs : p[2] \in opposing_positions(lineage, p[1])
-----------------------------------------------------------------------------
ConversationInit ==
  /\ draft \in {[sources |-> s, spans |-> {}, messages |-> {}, status |-> "mixed"] : s \in Sources}
  /\ committed = Nil /\ view = Nil /\ erased = {}

AddSpan(span) ==
  /\ committed = Nil /\ Cardinality(draft.spans) < MaxParts
  /\ span # Nil
  /\ draft' = [draft EXCEPT !.spans = @ \cup {span}]
  /\ UNCHANGED <<committed, view, erased>>

AddMessage(message) ==
  /\ committed = Nil /\ Cardinality(draft.messages) < MaxParts
  /\ draft' = [draft EXCEPT !.messages = @ \cup {message}]
  /\ UNCHANGED <<committed, view, erased>>

\* The file is published once; the same content again is acknowledged and
\* another one is a conflict, neither of which changes anything.
CommitConversation(status) ==
  LET candidate == [draft EXCEPT !.status = status] IN
  /\ _validate_provenance(candidate)
  /\ committed = Nil
  /\ committed' = candidate
  /\ UNCHANGED <<draft, view, erased>>

ReadLineage(lineage) ==
  /\ committed # Nil
  /\ _validate_references(committed, lineage)
  /\ view' = lineage
  /\ UNCHANGED <<draft, committed, erased>>

EraseArtifact(a) ==
  /\ committed # Nil
  /\ erased' = erased \cup {a}
  /\ UNCHANGED <<draft, committed, view>>

ConversationNext ==
  \/ \E s \in Spans : AddSpan(s)
  \/ \E m \in Messages : AddMessage(m)
  \/ \E s \in Statuses : CommitConversation(s)
  \/ \E l \in Lineages : ReadLineage(l)
  \/ \E a \in DOMAIN ArtifactBytes : EraseArtifact(a)

ConversationSpec == ConversationInit /\ [][ConversationNext]_convars
-----------------------------------------------------------------------------
\* The bytes a span of a set of spans covers in its artifact.
Covered(envelope, id) ==
  LET span == Named(envelope.spans, id)
  IN  SubSeq(ArtifactBytes[Named(envelope.sources, span.source).artifact], span.start + 1, span.end)

\* A committed message that calls itself verbatim is, character by character,
\* bytes of verbatim sources, and a lineage node that calls itself verbatim
\* refers to such messages only: nothing reconstructed becomes a quotation on
\* its way through span, message and position (_validate_provenance,
\* _validate_references).
VerbatimIsQuoted ==
  committed # Nil =>
    LET quoted == {m \in committed.messages : m.status = "verbatim"} IN
    /\ \A m \in quoted :
         /\ m.text = FlattenSeq([i \in DOMAIN m.refs |-> Covered(committed, m.refs[i])])
         /\ \A i \in DOMAIN m.refs :
              Named(committed.sources, Named(committed.spans, m.refs[i]).source).status = "verbatim"
    /\ view # Nil => \A n \in view.nodes : n.status = "verbatim" => n.messages \subseteq Ids(quoted)
    /\ committed.status = "verbatim" => quoted = committed.messages
    /\ committed.status = "reconstructed" => quoted = {}

\* The ids of the announced event list every message once and after its
\* parent, so that each thread leads back to a message without a parent.
RepliesFollowTheirParents ==
  committed # Nil =>
    LET ids == build_ingested_event(committed).message_ids IN
    /\ Range(ids) = Ids(committed.messages) /\ Len(ids) = Cardinality(committed.messages)
    /\ \A i \in DOMAIN ids : LET parent == Named(committed.messages, ids[i]).parent
                             IN  parent # Nil => \E j \in 1..(i - 1) : ids[j] = parent

\* Walks of at most N nodes over the edges.
Longer(edges, walks) ==
  walks \cup (UNION {{Append(w, e.target) : e \in {d \in edges : d.source = Last(w)}} : w \in walks})

Walks(edges, start, N) ==
  LET walks[n \in 1..N] == IF n = 1 THEN {<<start>>} ELSE Longer(edges, walks[n - 1])
  IN  walks[N]

\* path answers with a shortest walk over the allowed relations, and with
\* nothing only when there is none.
PathIsShortest ==
  view # Nil =>
    \A start, end \in Ids(view.nodes) :
      LET edges == {e \in view.edges : e.relation \in PATH_RELATIONS}
          walks == {w \in Walks(edges, start, Cardinality(view.nodes)) : Last(w) = end}
          found == path(view, start, end, {})
      IN  IF walks = {} THEN found = <<>>
          ELSE found \in walks /\ \A w \in walks : Len(found) <= Len(w)

\* The occurrences span_for_text finds of a text are those bytes, in their
\* order and without overlap.
OccurrencesAreDisjoint ==
  \A source \in draft.sources, needle \in {m.text : m \in draft.messages}, n \in 0..1 :
    LET here == span_for_text(source, needle, n, source.status)
        next == span_for_text(source, needle, n + 1, source.status)
    IN  /\ here # Nil =>
             SubSeq(ArtifactBytes[source.artifact], here.start + 1, here.end) = needle
        /\ next # Nil => here # Nil /\ here.end <= next.start

\* A lineage benchmark that passes shows what it says while its artifacts
\* are there: a shortest path from a historical debate to a current decision,
\* every position on it quotable.  (benchmark)
BenchmarkMeansQueryable ==
  view # Nil =>
    \A start \in Ids(view.nodes), end \in view.current, other \in Ids(view.nodes) :
      LET required == path(view, start, end, {}) IN
      required # <<>> /\ benchmark(committed, view, required, end, {<<start, other>>}) =>
        /\ \E e \in view.edges : e.relation \in OPPOSITION_RELATIONS
                                 /\ {e.source, e.target} = {start, other}
        /\ \A id \in Range(required) \cup {end, start, other} :
             \A s \in Named(view.nodes, id).spans :
               Named(committed.sources, Named(committed.spans, s).source).artifact \notin erased

\* What an envelope says was said was said: verbatim text is quoted bytes of
\* the source, each occurrence its own, and replies follow what they answer.
EnvelopeIsFaithful ==
  VerbatimIsQuoted /\ RepliesFollowTheirParents /\ OccurrencesAreDisjoint

\* Lineage queries are answered right: paths are shortest walks, and a passed
\* benchmark shows a debate that can still be quoted.
LineageAnswersAreRight == PathIsShortest /\ BenchmarkMeansQueryable
=============================================================================
