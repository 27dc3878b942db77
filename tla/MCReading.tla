----------------------------- MODULE MCReading -----------------------------
(***************************************************************************)
(* Five parts that check what others wrote, each with its own actors:      *)
(* two imports of captured chats ("import"), the composition of an         *)
(* envelope and its lineage ("compose"), the pack set lock ("lock"), one   *)
(* query ("query") or a query and its replay ("replay"), and the reads of  *)
(* agent sessions ("agents").  One of them is active; the state of the     *)
(* others stays as it starts.                                              *)
(***************************************************************************)
EXTENDS SharedChatIngest, Conversation, PackSet, Query, AgentReads

VARIABLE active

parts == <<ingest_vars, convars, pvars, qvars, avars>>

(* Imports of two conversations, the first with a receipt; the first page  *)
(* has two nodes and may name a third, the second has one.                 *)
Account(s, r, a) == [state |-> s, reason |-> r, attempts |-> a]
MCContinuations ==
  {Account("not_present", "source_terminal", <<>>),
   Account("resolved", "continuation_exhausted", <<"success">>),
   Account("resolved", "continuation_exhausted", <<"success", "timeout">>)}
MCNodes == <<{1, 2, 3}, {1}>>
MCExposed == <<{1, 2}, {1}>>
Symmetry == Permutations(Importers)

(* A page with a two-byte character, and a summary of it.                  *)
MCBytes == [art1 |-> <<"a", "u", "v", "a">>, art2 |-> <<"b", "b", "b">>]
Page1 == [id |-> "src1", artifact |-> "art1", status |-> "verbatim"]
Summary == [id |-> "src2", artifact |-> "art2", status |-> "reconstructed"]
MCSources == {{Page1, Summary}, {Page1}}
First == span_for_text(Page1, <<"a">>, 0, "verbatim")
Accent == span_for_text(Page1, <<"u", "v">>, 0, "verbatim")
Said == span_for_text(Summary, <<"b", "b">>, 0, "reconstructed")
Claimed == span_for_text(Summary, <<"b", "b">>, 0, "verbatim")
Loose == span_for_text(Page1, <<"a">>, 0, "reconstructed")
HalfA == Span(Page1, 1, 2, "verbatim")
HalfB == Span(Page1, 2, 3, "verbatim")
MCSpans == {First, Accent, Said, Claimed, Loose, HalfA, HalfB,
            span_for_text(Page1, <<"a">>, 1, "verbatim"),
            Span(Page1, 3, 6, "verbatim")}                   \* past the end

Message(id, sequence, parent, status, words, spans) ==
  [id |-> id, sequence |-> sequence, parent |-> parent, status |-> status, text |-> words,
   refs |-> [i \in DOMAIN spans |-> spans[i].id]]
MCMessages ==
  {Message("m1", 0, Nil, "verbatim", <<"a">>, <<First>>),
   Message("m1", 3, "m3", "verbatim", <<"a">>, <<First>>),   \* a reply to its own thread
   Message("m1", 1, Nil, "verbatim", <<"a">>, <<Loose>>),
   Message("m2", 1, "m1", "verbatim", <<"a", "u", "v">>, <<First, Accent>>),
   Message("m2", 1, "m1", "verbatim", <<"u", "v">>, <<HalfA, HalfB>>),
   Message("m2", 2, Nil, "verbatim", <<"a">>, <<Accent>>),
   Message("m3", 2, "m1", "reconstructed", <<"b", "b">>, <<Said>>),
   Message("m3", 2, "m1", "verbatim", <<"b", "b">>, <<Said>>),
   Message("m3", 2, "m1", "verbatim", <<"b", "b">>, <<Claimed>>)}

Position(id, kind, state, status, messages, spans) ==
  [id |-> id, kind |-> kind, state |-> state, status |-> status, messages |-> messages,
   spans |-> {s.id : s \in spans}]
Edge(id, from, to, relation) ==
  [id |-> id, source |-> from, target |-> to, relation |-> relation]
Decision == Position("n3", "decision", "current", "reconstructed", {"m1", "m3"}, {First, Said})
MCPositions ==
  {Position("n1", "claim", "historical", "verbatim", {"m1"}, {First, Said}),
   Position("n2", "challenge", "opposing", "verbatim", {"m1"}, {First}),
   Position("n4", "rebuttal", "unresolved", "reconstructed", {"m3"}, {Said}), Decision}
MCEdges ==
  {Edge(1, "n1", "n2", "leads_to"), Edge(2, "n2", "n4", "supports"),
   Edge(3, "n4", "n3", "reframes"), Edge(4, "n1", "n3", "challenges"),
   Edge(5, "n1", "n4", "depends_on"), Edge(6, "n3", "n1", "supersedes"),
   Edge(7, "n2", "n1", "rebuts")}
Lineage(positions, edges, current) ==
  [nodes |-> positions, edges |-> edges, current |-> current]
MCLineages ==
  {Lineage(MCPositions, edges, {"n3"}) : edges \in SUBSET MCEdges}
  \cup {Lineage(MCPositions, {}, {"n1"}),
        Lineage(MCPositions, {Edge(1, "n1", "n9", "leads_to")}, {"n3"}),
        Lineage({[Decision EXCEPT !.status = "verbatim"]}, {}, {"n3"})}

(* Three packs: standard ones in and out of layer, and non-standard ones   *)
(* that can close a cycle over optional dependencies.                      *)
Dep(p, required) == [pack |-> p, required |-> required]
Manifest(kind, deps, read) ==
  [kind |-> kind, deps |-> deps, read |-> read, write |-> read \cap {2, 3}]
MCCandidates ==
  <<{Manifest("common", <<>>, {1}), Manifest("personal", <<Dep(2, TRUE)>>, {1, 2}),
     Manifest("personal", <<Dep(1, FALSE)>>, {1})},
    {Manifest("domain", <<Dep(1, TRUE)>>, {1, 2}),
     Manifest("experimental", <<Dep(3, FALSE), Dep(1, FALSE)>>, {2}),
     Manifest("domain", <<Dep(1, FALSE), Dep(1, TRUE)>>, {1, 2}),
     Manifest("domain", <<Dep(1, TRUE)>>, {2})},               \* cannot read what it requires
    {Manifest("project", <<Dep(2, FALSE)>>, {2, 3}), Manifest("common", <<Dep(2, FALSE)>>, {3}),
     Manifest("experimental", <<Dep(1, TRUE)>>, {1, 3})}>>

(* Two packs at two revisions; the claim c1 has changed between them.      *)
Item(id, pack, type, words, from, to, cite) ==
  [id |-> id, pack |-> pack, type |-> type, text |-> words, source |-> from,
   target |-> to, cite |-> cite]
Fact(words) == Item("c1", "A", "claim", words, "", "", "cite1")
Link == Item("r1", "A", "relation", "l", "c1", "c2", "")
Cross == Item("r2", "A", "relation", "x", "c3", "c2", "")
OfB == Item("c3", "B", "claim", "u", "", "", "cite3")
MCDocuments ==
  {[revision |-> "v1", item |-> Fact("t")], [revision |-> "v2", item |-> Fact("t2")]}
  \cup {[revision |-> v, item |-> i] : v \in {"v1", "v2"},
          i \in {Link, Cross, Item("c2", "A", "claim", "s", "", "", ""), OfB}}
Note(id, words) == Item(id, "A", "claim", words, "", "", "cite1")
Served ==
  {Fact("t"), [Fact("t") EXCEPT !.text = "forged"], Link, [Link EXCEPT !.source = "c3"], Cross,
   [OfB EXCEPT !.pack = "A"],                               \* B's claim under A's name
   Item("r9", "A", "relation", "y", "c3", "c2", "cite1"),   \* a relation nobody recorded
   Note("", "n"), Item("n9", "C", "claim", "n", "", "", "")}
Replayed == {Fact("t"), Note("n1", "n"), Note("n2", "n"), Note("n2", "m")}
MCItems == Served \cup Replayed

Leaf(keys, value) == [path |-> keys, value |-> value]
MCMetadata == {Leaf(<<"model_id">>, "m1"), Leaf(<<"runtime", "auth", "token">>, "k"),
               Leaf(<<"api_key">>, "k")}
Direct == [provider |-> "p", metadata |-> MCMetadata, requested |-> Absent, attempts |-> <<>>]
Fallback == [provider |-> "p2", metadata |-> MCMetadata, requested |-> "p",
             attempts |-> <<[provider |-> "p", outcome |-> "timeout"]>>]
MCModels == {Direct, Fallback}
Ask(wording, mounts, scope, limit, labelled) ==
  [query |-> [words |-> wording, spacing |-> 1], limit |-> limit, scope |-> scope,
   labelled |-> labelled, mounts |-> {[pack |-> m[1], revision |-> m[2]] : m \in mounts},
   retriever |-> Direct, reranker |-> Absent]
Both(v) == {<<"A", v>>, <<"B", v>>}
Asked(v) == Ask(<<"q">>, Both(v), {"A"}, 2, TRUE)
Reworded == [Asked("v1") EXCEPT !.query.spacing = 2]
MCRequests ==
  {Asked("v1"), Asked("v2"), Reworded, [Asked("v1") EXCEPT !.scope = {"A", "B"}, !.reranker = Direct],
   [Asked("v1") EXCEPT !.scope = {"C"}], [Asked("v1") EXCEPT !.limit = 0],
   Ask(<<"q">>, {<<"A", "v1">>, <<"A", "v2">>}, {"A"}, 1, TRUE),
   Ask(<<>>, Both("v1"), {"A"}, 1, TRUE), Ask(<<"q">>, Both("v1"), {"A"}, 1, FALSE)}
Spoken(id, words) == [id |-> id, text |-> words, cite |-> "cite1"]
Output(claims, tools) ==
  [outcome |-> "answer", answer |-> "yes", claims |-> claims, confidence |-> 0, tools |-> tools]
Sure == Output(<<Spoken("c1", "t")>>, {})
Unsaid == [Output(<<>>, {}) EXCEPT !.outcome = "conflicting_evidence"]
MCOutputs ==
  {Sure, Output(<<Spoken("c1", "forged"), Spoken("c2", "s")>>, {"tools"}),
   Output(<<Spoken("c1", "t"), Spoken("c3", "u")>>, {}), Output(<<Spoken("r1", "l")>>, {}),
   Unsaid, [Unsaid EXCEPT !.answer = "no"]}
MCRecorded(r) == active = "replay" /\ ~Last(r.services).fallback_used

(* Four sessions over two packs, one with an outdated skill.               *)
Session(actor, skill, version, read, write) ==
  [actor |-> actor, skill |-> skill, version |-> version, read |-> read, write |-> write]
MCSessions ==
  {Session("ann", "curator", 1, {"A"}, {"A"}), Session("bob", "curator", 1, {"A", "B"}, {"A", "B"}),
   Session("cat", "reader", 1, {"B"}, {"B"}), Session("dan", "curator", 0, {"A"}, {"A"})}
MCSkills ==
  [curator |-> [version |-> 1, grants |-> {"search", "context", "propose", "commit"}],
   reader |-> [version |-> 1, grants |-> {"search", "read", "lineage", "propose"}]]
Entry(id, pack, words, actor) == [id |-> id, pack |-> pack, words |-> words, actor |-> actor]
MCEvents == {Entry(1, "B", {"w"}, "eve"), Entry(2, "A", {"w"}, "bob"),
             Entry(3, "B", {}, "ann"), Entry(4, "A", {"w"}, "ann")}
MCResults == {[id |-> 5, pack |-> p] : p \in {"A", "B", ""}}
MCThreads == <<"A", "B">>
MaxEvents == 3

Init ==
  /\ IngestInit /\ ConversationInit /\ PackInit /\ QueryInit /\ AgentInit
  /\ active \in {"import", "compose", "lock", "query", "replay", "agents"}
  /\ active # "compose" => draft.sources = {Page1}

QueryStep ==
  /\ QueryNext
  /\ Range(candidates') \subseteq (IF active = "query" THEN Served ELSE Replayed)
  /\ active = "replay" => request' \in {Asked("v1"), Asked("v2"), Reworded, Absent}
  /\ active = "query" \/ kept # Absent => request' # Reworded

Next ==
  /\ UNCHANGED active
  /\ \/ active = "import" /\ IngestNext /\ UNCHANGED <<convars, pvars, qvars, avars>>
     \/ active = "compose" /\ ConversationNext /\ UNCHANGED <<ingest_vars, pvars, qvars, avars>>
     \/ active = "lock" /\ PackNext /\ UNCHANGED <<ingest_vars, convars, qvars, avars>>
     \/ /\ active \in {"query", "replay"} /\ QueryStep
        /\ UNCHANGED <<ingest_vars, convars, pvars, avars>>
     \/ /\ active = "agents" /\ AgentNext /\ Cardinality(events') <= MaxEvents
        /\ UNCHANGED <<ingest_vars, convars, pvars, qvars>>

Spec == Init /\ [][Next]_<<parts, active>>
=============================================================================
